\* Three frames, of which the last has the largest size and two look like a
\* magic inside; one fault takes up to two bytes away or puts one in.
SPECIFICATION Spec
CONSTANTS
    Frames <- MCFrames
    MAX_PAYLOAD = 2
    MAX_OUTER_PAYLOAD = 7
    ReadSize = 8
    Noise = {0, 71}
    MaxBurst = 2
    MaxFaults = 1
    MaxStatus = 1
CHECK_DEADLOCK FALSE
INVARIANTS
    OnlyWhatWasSent
    EverythingArrives
