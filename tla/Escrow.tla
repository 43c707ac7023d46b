------------------------------- MODULE Escrow -------------------------------
(***************************************************************************)
(* What the broker promises both players: it never holds more than one     *)
(* record of theirs.  It gives its own record, the placeholder, for one    *)
(* from the Switch, that one for one from the GBA, and that one for the    *)
(* record it gets from the Switch in the end, which closes the exchange    *)
(* only if it is the placeholder.  Then one record of each player has      *)
(* become the other's, and every other record is where it was before.      *)
(***************************************************************************)
EXTENDS Naturals, Sequences

CONSTANTS
    Mons, NoMon,
    InitialOwner    \* who holds each record at first

VARIABLES
    owner,         \* who holds each record
    placeholder,   \* of the exchange under way, NoMon if there is none
    turn,          \* trades made in it
    hand,          \* the record it has to give next
    done,          \* it is known to be over
    before         \* who held each record when it began

vars == <<owner, placeholder, turn, hand, done, before>>

Console == <<"switch", "gba", "switch">>

Init ==
    /\ owner = InitialOwner /\ before = InitialOwner
    /\ placeholder = NoMon /\ turn = 0 /\ hand = NoMon /\ done = FALSE

Begin(p) ==
    /\ placeholder = NoMon
    /\ owner[p] = "broker"
    /\ placeholder' = p /\ hand' = p
    /\ UNCHANGED <<owner, turn, done, before>>

Trade(m) ==
    /\ placeholder # NoMon
    /\ turn < 3
    /\ owner[hand] = "broker"
    /\ owner[m] = Console[turn + 1]
    /\ owner' = [owner EXCEPT ![m] = "broker", ![hand] = Console[turn + 1]]
    /\ turn' = turn + 1 /\ hand' = m
    /\ UNCHANGED <<placeholder, done, before>>

Finish ==
    /\ turn = 3
    /\ hand = placeholder
    /\ \E a, b \in Mons :
           /\ before[a] = "gba" /\ before[b] = "switch"
           /\ owner = [before EXCEPT ![a] = "switch", ![b] = "gba"]
    /\ done' = TRUE
    /\ UNCHANGED <<owner, placeholder, turn, hand, before>>

\* The exchange is over, or the operator takes it from here.
End ==
    /\ placeholder' = NoMon /\ turn' = 0 /\ hand' = NoMon /\ done' = FALSE
    /\ before' = owner
    /\ UNCHANGED owner

Next == Finish \/ End \/ \E m \in Mons : Begin(m) \/ Trade(m)

Spec == Init /\ [][Next]_vars

=============================================================================
