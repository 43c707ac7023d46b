\* Two brokers on one journal, and no write fails.
SPECIFICATION Spec
CONSTANTS
    NoMon = NoMon
    Mons = {a, b, p}
    GbaMons = {a}
    SwitchMons = {b}
    BrokerMons = {p}
    MailMons = {}
    Slots = {2}
    LinkCloses = {TRUE}
    WriteOutcomes = {"ok"}
    MaxTransactions = 1
PROPERTY
    ReportedStopHolds
