\* Every order of the substructures; items at both ends of the Mail range;
\* damage to the lowest bit, the highest and all of them.
SPECIFICATION Spec
CONSTANTS
    Personalities <- MCPersonalities
    TrainerIds <- MCTrainerIds
    Items = {0, 120, 121, 132, 133, 65535}
    Fillers = {0, 65530}
    Masks = {1, 32768, 65535}
CHECK_DEADLOCK FALSE
INVARIANTS
    MailIsFound
    DamageIsNoticed
