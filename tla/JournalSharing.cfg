\* Two brokers on one journal; either may fail or be killed at any step.
SPECIFICATION Spec
CONSTANTS
    NoMon = NoMon
    Mons = {a, b, p}
    GbaMons = {a}
    SwitchMons = {b}
    BrokerMons = {p}
    MailMons = {}
    Slots = {2}
    LinkCloses = {TRUE}
    WriteOutcomes = {"ok"}
    MaxTransactions = 1
VIEW EitherOrder
INVARIANTS
    SharingInvariant
    OneTrail
    OwnEvidence
