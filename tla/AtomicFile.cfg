\* Two brokers and three writes of the journal.
SPECIFICATION Spec
CONSTANTS
    Writers = {w1, w2}
    Payloads = {a, b}
    Nothing = Nothing
    Torn = Torn
    MaxWrites = 3
INVARIANTS
    FileInvariant
    ReturnedStays
PROPERTY
    ImplementsCell
