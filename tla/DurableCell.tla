---------------------------- MODULE DurableCell ----------------------------
(***************************************************************************)
(* What JournalStore needs of a file: a value that several writers replace *)
(* as a whole.  A write takes effect once or not at all.  It is visible    *)
(* before it is durable; until it is, a power loss may bring back a value  *)
(* from before, and never anything else.                                   *)
(***************************************************************************)
CONSTANTS Writers, Values, Nothing

VARIABLES
    value,       \* what a reader sees
    survivors,   \* what a reader may see after a power loss
    asked        \* per writer: the value it is about to write, or Nothing

vars == <<value, survivors, asked>>

Idle == [w \in Writers |-> Nothing]

Init == value = Nothing /\ survivors = {Nothing} /\ asked = Idle

Ask(w, v) ==
    /\ asked[w] = Nothing
    /\ asked' = [asked EXCEPT ![w] = v]
    /\ UNCHANGED <<value, survivors>>

Replace(w) ==
    /\ asked[w] # Nothing
    /\ value' = asked[w]
    /\ survivors' = survivors \cup {asked[w]}
    /\ asked' = [asked EXCEPT ![w] = Nothing]

\* The write failed, or its process died.
GiveUp(w) ==
    /\ asked[w] # Nothing
    /\ asked' = [asked EXCEPT ![w] = Nothing]
    /\ UNCHANGED <<value, survivors>>

Sync == survivors' = {value} /\ UNCHANGED <<value, asked>>

PowerLoss ==
    /\ value' \in survivors
    /\ survivors' = {value'}
    /\ asked' = Idle

Next ==
    \/ Sync \/ PowerLoss
    \/ \E w \in Writers : Replace(w) \/ GiveUp(w) \/ \E v \in Values : Ask(w, v)

Spec == Init /\ [][Next]_vars

=============================================================================
