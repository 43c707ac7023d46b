\* The received record may hold Mail and the wired link may not close; no
\* write fails.
SPECIFICATION Spec
CONSTANTS
    NoMon = NoMon
    Mons = {a, b, p, x, y}
    GbaMons = {a, y}
    SwitchMons = {b, x}
    BrokerMons = {p}
    MailMons = {x}
    Slots = {2, 6}
    LinkCloses = {TRUE, FALSE}
    WriteOutcomes = {"ok"}
    MaxTransactions = 1
INVARIANT
    ConfirmedIsSaved
