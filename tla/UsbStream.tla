----------------------------- MODULE UsbStream -----------------------------
(***************************************************************************)
(* The byte stream under GbLinkEndpoint, in either direction.  Towards the *)
(* host: SerialTransport of broker/gba/serial.py takes the packets of the  *)
(* adapter apart and FrameDecoder of broker/gba/protocol.py finds the FGBR *)
(* frames in what is left.  Towards the device: write cuts a frame into    *)
(* packets, and Codec of firmware/gb-link puts it together again.          *)
(*                                                                         *)
(* Bytes are numbers.  A frame's flags, transaction id and sequence number *)
(* are left out, so its header has seven bytes, and the payload length and *)
(* the CRC are one byte each.  Only a frame's own body has the CRC of a    *)
(* frame that is sent, so what feed checks after the CRC is left out too,  *)
(* but for the version.                                                    *)
(***************************************************************************)
EXTENDS Integers, SequencesExt

CONSTANTS
    Frames,              \* the frames to send, in order: [type, payload]
    MAX_PAYLOAD,         \* of a frame
    MAX_OUTER_PAYLOAD,   \* of a packet
    ReadSize,            \* what _wait_for asks of read
    Noise,               \* bytes a fault may put in the stream
    MaxBurst,            \* bound: bytes one fault takes away
    MaxFaults,           \* bound: faults in one behaviour
    MaxStatus            \* bound: status packets in one behaviour

VARIABLES
    to,             \* who receives: "host" or "device"
    sent,           \* frames sent so far
    pending,        \* chunks of the last one that are still to go out
    statuses, faults,
    usb,            \* bytes on their way
    outer_buffer, data_buffer,   \* SerialTransport
    buffer,         \* FrameDecoder, or m_rx of the Codec
    received,       \* frames handed on
    raised          \* the host's endpoint got an exception

sender   == <<to, sent, pending, statuses>>
receiver == <<outer_buffer, data_buffer, buffer, received, raised>>
vars     == <<sender, faults, usb, receiver>>

SYNC    == <<71, 66>>            \* GB
MAGIC   == <<70, 71, 66, 82>>    \* FGBR
VERSION == 1

HeaderSize == Len(MAGIC) + 3
CrcSize    == 1
MaxFrame   == HeaderSize + MAX_PAYLOAD + CrcSize

Init ==
    /\ to \in {"host", "device"}
    /\ sent = 0 /\ pending = <<>> /\ statuses = 0 /\ faults = 0 /\ usb = <<>>
    /\ outer_buffer = <<>> /\ data_buffer = <<>> /\ buffer = <<>>
    /\ received = <<>> /\ raised = FALSE

----------------------------------------------------------------------------
(***************************************************************************)
(* Sending.                                                                *)
(***************************************************************************)

First(s, n) == SubSeq(s, 1, Min({n, Len(s)}))
Drop(s, n)  == SubSeq(s, n + 1, Len(s))

Body(f) == MAGIC \o <<VERSION, f.type, Len(f.payload)>> \o f.payload

Crc(body) == 1000 + Max({0} \cup {i \in DOMAIN Frames : Body(Frames[i]) = body})

\* Frame.encode and the head of Codec::send.
Encode(f) == Append(Body(f), Crc(Body(f)))

\* Both senders cut a frame into chunks of one packet each.
Chunks(s) ==
    LET M == MAX_OUTER_PAYLOAD
    IN  [i \in 1..((Len(s) + M - 1) \div M) |->
            SubSeq(s, (i - 1) * M + 1, Min({i * M, Len(s)}))]

\* A packet, with the channel and a length of two bytes.
Outer(channel, payload) ==
    SYNC \o <<channel, Len(payload) % 256, Len(payload) \div 256>> \o payload

Send ==
    /\ pending = <<>>
    /\ sent < Len(Frames)
    /\ sent' = sent + 1
    /\ pending' = Chunks(Encode(Frames[sent + 1]))
    /\ UNCHANGED <<to, statuses, faults, usb, receiver>>

\* The packet layer of the adapter is not this program's: towards the device
\* it takes a packet apart and calls Codec::feed with what was in it.
Transmit ==
    /\ pending # <<>>
    /\ pending' = Tail(pending)
    /\ \/ to = "host" /\ usb' = usb \o Outer(1, Head(pending))
       \/ to = "device" /\ usb = <<>> /\ usb' = Head(pending)
    /\ UNCHANGED <<to, sent, statuses, faults, receiver>>

\* The adapter reports its status between any two packets.
SendStatus ==
    /\ to = "host"
    /\ statuses < MaxStatus
    /\ statuses' = statuses + 1
    /\ usb' = usb \o Outer(2, <<0>>)
    /\ UNCHANGED <<to, sent, pending, faults, receiver>>

\* A few bytes are lost, also because the port was opened late, or replaced.
Fault(at, n, noise) ==
    /\ faults < MaxFaults
    /\ at + n <= Len(usb)
    /\ faults' = faults + 1
    /\ usb' = First(usb, at) \o noise \o Drop(usb, at + n)
    /\ UNCHANGED <<sender, receiver>>

----------------------------------------------------------------------------
(***************************************************************************)
(* The host.                                                               *)
(***************************************************************************)

\* bytearray.find, with 0 for -1.
Find(s, pattern) ==
    LET at == {i \in 1..(Len(s) - Len(pattern) + 1) :
                  SubSeq(s, i, i + Len(pattern) - 1) = pattern}
    IN  IF at = {} THEN 0 ELSE Min(at)

\* Mutant: everything is cleared.
NoTail(s, keep) == <<>>

\* What may be the start of a pattern whose rest is still to come.
Trailing(s, keep) == Drop(s, Max({0, Len(s) - keep}))

\* The loop of _feed_outer: data is what the data channel has brought.
RECURSIVE FeedOuter(_, _)
FeedOuter(s, data) ==
    LET at      == Find(s, SYNC)
        p       == Drop(s, at - 1)
        length  == p[4] + 256 * p[5]
        rest    == Drop(p, 5 + length)
        End(left, error) == [outer |-> left, data |-> data, error |-> error]
    IN  IF at = 0
        THEN End(SelectSeq(Trailing(s, 1), LAMBDA c : c = SYNC[1]), FALSE)
        ELSE IF Len(p) < 5 THEN End(p, FALSE)
        ELSE IF length > MAX_OUTER_PAYLOAD THEN End(Drop(p, 2), TRUE)
        ELSE IF Len(p) < 5 + length THEN End(p, FALSE)
        ELSE IF p[3] \notin {0, 1, 2} THEN End(rest, TRUE)
        ELSE FeedOuter(rest, IF p[3] = 1 THEN data \o SubSeq(p, 6, 5 + length) ELSE data)

\* Where the frame at the start of s ends, once its header is there.
Total(s) == HeaderSize + s[HeaderSize] + CrcSize

\* Mutant: nobody looks at the CRC.
AnyCrc(s) == TRUE

CrcMatches(s) == s[Total(s)] = Crc(First(s, Total(s) - CrcSize))

Decoded(s) == [type |-> s[6], payload |-> SubSeq(s, HeaderSize + 1, Total(s) - CrcSize)]

\* The loop of FrameDecoder.feed.  An exception loses the frames before it.
RECURSIVE Feed(_, _)
Feed(s, frames) ==
    LET at == Find(s, MAGIC)
        p  == Drop(s, at - 1)
        End(left, got, error) == [buffer |-> left, frames |-> got, error |-> error]
    IN  IF at = 0 THEN End(Trailing(s, Len(MAGIC) - 1), frames, FALSE)
        ELSE IF Len(p) < HeaderSize THEN End(p, frames, FALSE)
        ELSE IF p[HeaderSize] > MAX_PAYLOAD THEN End(Drop(p, Len(MAGIC)), <<>>, TRUE)
        ELSE IF Len(p) < Total(p) THEN End(p, frames, FALSE)
        ELSE IF ~CrcMatches(p) \/ p[5] # VERSION THEN End(Drop(p, Total(p)), <<>>, TRUE)
        ELSE Feed(Drop(p, Total(p)), Append(frames, Decoded(p)))

\* FrameDecoder.feed with what read returns: at most ReadSize bytes of data.
Return(data) ==
    LET f == Feed(buffer \o First(data, ReadSize), <<>>)
    IN  /\ data_buffer' = Drop(data, ReadSize)
        /\ buffer' = f.buffer
        /\ received' = received \o f.frames
        /\ raised' = f.error

\* One turn of read's loop: the port has n bytes.  The loop goes on while they
\* bring no data.
ReadPort(n) ==
    /\ to = "host" /\ ~raised
    /\ data_buffer = <<>>
    /\ usb' = Drop(usb, n)
    /\ LET o == FeedOuter(outer_buffer \o First(usb, n), <<>>)
       IN  /\ outer_buffer' = o.outer
           /\ IF o.error
              THEN raised' = TRUE /\ data_buffer' = o.data /\ UNCHANGED <<buffer, received>>
              ELSE Return(o.data)
    /\ UNCHANGED <<sender, faults>>

\* read returns what an earlier packet left over, without asking the port.
ReadLeftOver ==
    /\ to = "host" /\ ~raised
    /\ data_buffer # <<>>
    /\ Return(data_buffer)
    /\ UNCHANGED <<sender, faults, usb, outer_buffer>>

----------------------------------------------------------------------------
(***************************************************************************)
(* The device.                                                             *)
(***************************************************************************)

\* Codec::consume.  What is damaged is skipped from its magic on.  The filter
\* on transaction and sequence is in GbLinkEndpoint.
RECURSIVE Consume(_, _)
Consume(s, frames) ==
    LET End == [buffer |-> s, frames |-> frames]
    IN  IF Len(s) < Len(MAGIC) THEN End
        ELSE IF ~IsPrefix(MAGIC, s) THEN Consume(Tail(s), frames)
        ELSE IF Len(s) < HeaderSize THEN End
        ELSE IF s[5] # VERSION \/ s[HeaderSize] > MAX_PAYLOAD
        THEN Consume(Drop(s, Len(MAGIC)), frames)
        ELSE IF Len(s) < Total(s) THEN End
        ELSE IF ~CrcMatches(s) THEN Consume(Drop(s, Len(MAGIC)), frames)
        ELSE Consume(Drop(s, Total(s)), Append(frames, Decoded(s)))

Fits(chunk) == Len(chunk) <= MaxFrame - Len(buffer)

\* Codec::feed.  A chunk that does not fit empties m_rx.
FeedCodec ==
    /\ to = "device"
    /\ usb # <<>>
    /\ usb' = <<>>
    /\ LET c == Consume(buffer \o usb, <<>>)
       IN  /\ buffer' = IF Fits(usb) THEN c.buffer ELSE <<>>
           /\ received' = IF Fits(usb) THEN received \o c.frames ELSE received
    /\ UNCHANGED <<sender, faults, outer_buffer, data_buffer, raised>>

Next ==
    \/ Send \/ Transmit \/ SendStatus
    \/ \E at \in 0..Len(usb), n \in 0..MaxBurst, noise \in {<<>>} \cup {<<c>> : c \in Noise} :
           Fault(at, n, noise)
    \/ \E n \in 1..Min({Len(usb), Max({ReadSize, MAX_OUTER_PAYLOAD})}) : ReadPort(n)
    \/ ReadLeftOver \/ FeedCodec

Spec == Init /\ [][Next]_vars

----------------------------------------------------------------------------

\* However the stream is cut into reads and whatever a fault does to it, the
\* receiver hands on only frames that were sent, in their order and none twice:
\* a decoder that locks on to the GB inside FGBR, or on to payload bytes, never
\* makes a frame of them.
OnlyWhatWasSent ==
    received = SelectSeq(First(Frames, sent), LAMBDA f : f \in ToSet(received))

\* Over a faultless stream every frame arrives: no read boundary, no status
\* packet between its chunks and no payload that looks like a magic loses one,
\* and a frame of the largest size fits the codec's buffer.
EverythingArrives ==
    faults = 0 =>
        /\ ~raised
        /\ pending = <<>> /\ usb = <<>> /\ data_buffer = <<>> => received = First(Frames, sent)

=============================================================================
