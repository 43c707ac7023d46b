\* One honest session over a faultless stream.
SPECIFICATION Spec
CONSTANTS
    a = a
    b = b
    f = f
    x = x
    y = y
    NoMon = NoMon
    Filler = f
    Offers = {x}
    Parties <- MCParties
    PartnerSlots = {0, 1}
    HelloOpens = TRUE
    Faults = {}
    MaxHosts = 1
    MaxSessions = 1
    MaxInputs = 1
    MaxFaults = 0
    MaxWire = 3
CHECK_DEADLOCK FALSE
INVARIANT
    GbaGetsOffer
