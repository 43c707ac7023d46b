\* Two transactions, every write failure, Mail on both consoles, a wrong
\* record on the Switch and a slot out of range.
SPECIFICATION FairSpec
CONSTANTS
    NoMon = NoMon
    Mons = {a, b, p, x, y}
    GbaMons = {a, y}
    SwitchMons = {b, x}
    BrokerMons = {p}
    MailMons = {x, y}
    Slots = {2, 6}
    LinkCloses = {TRUE, FALSE}
    WriteOutcomes = {"ok", "fail_before", "fail_after"}
    MaxTransactions = 2
INVARIANTS
    TypeOK
    CoordinatorInvariant
    RecoveryTableHolds
    OffersWhatItHolds
    EvidenceWhole
    HistoryIsPath
    EscrowInvariant
    CompleteIsTrue
PROPERTIES
    PersistBeforeTrade
    TerminalIsFinal
    OpenIsResolved
    ImplementsEscrow
