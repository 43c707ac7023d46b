\* Two endpoints and two sessions; the player may choose again, the stream
\* repeats, loses or damages one frame.
SPECIFICATION Spec
CONSTANTS
    a = a
    b = b
    f = f
    x = x
    y = y
    NoMon = NoMon
    Filler = f
    Offers = {x}
    Parties <- MCParties
    PartnerSlots = {0, 1, 6}
    HelloOpens = TRUE
    Faults = {"duplicate", "lose", "damage"}
    MaxHosts = 2
    MaxSessions = 2
    MaxInputs = 2
    MaxFaults = 1
    MaxWire = 2
CONSTRAINT StillRead
VIEW Seen
CHECK_DEADLOCK FALSE
INVARIANTS
    TypeOK
    EvidenceIsReal
    EvidenceInvariant
