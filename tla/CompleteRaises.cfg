\* The write of COMPLETE raises after its rename.
SPECIFICATION Spec
CONSTANTS
    NoMon = NoMon
    Mons = {a, b, p, x, y}
    GbaMons = {a, y}
    SwitchMons = {b, x}
    BrokerMons = {p}
    MailMons = {}
    Slots = {2, 6}
    LinkCloses = {TRUE}
    WriteOutcomes = {"ok", "fail_before", "fail_after"}
    MaxTransactions = 1
INVARIANT
    ExceptionNeverComplete
