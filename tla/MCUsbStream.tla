---------------------------- MODULE MCUsbStream ----------------------------
EXTENDS UsbStream

\* Payloads that look like the two magics; the last frame is of full size.
MCFrames ==
    <<[type |-> 1, payload |-> <<71>>],
      [type |-> 2, payload |-> <<>>],
      [type |-> 3, payload |-> <<71, 66>>]>>

=============================================================================
