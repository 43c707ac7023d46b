----------------------------- MODULE Pokemon100 -----------------------------
(***************************************************************************)
(* What broker/pokemon.py reads out of a party record before it refuses    *)
(* Mail: the secure part is decrypted with personality XOR trainer id and  *)
(* holds the substructures G, A, E and M in an order that the personality  *)
(* chooses.  The second halfword of G is the held item.                    *)
(*                                                                         *)
(* Records are written by a reference encoder, as a game writes them, and  *)
(* may then be damaged in one place.  All halfwords have 16 bits; a word   *)
(* is a pair of them, low one first.  Bytes nothing is read from are left  *)
(* out.                                                                    *)
(***************************************************************************)
EXTENDS Integers, Sequences

CONSTANTS
    Personalities, TrainerIds,   \* words
    Items,                       \* held items
    Fillers,                     \* what the other halfwords hold
    Masks                        \* the bits of a halfword that damage turns over

HALF == 65536

Halfwords == 0..(HALF - 1)

ASSUME WordsAssumption == Personalities \cup TrainerIds \subseteq Halfwords \X Halfwords
ASSUME ContentAssumption == Items \cup Fillers \subseteq Halfwords
ASSUME MasksAssumption == Masks \subseteq Halfwords \ {0}

VARIABLES
    raw,       \* the record
    item,      \* the held item it was written with
    damaged

vars == <<raw, item, damaged>>

MAIL_ITEM_MIN == 121
MAIL_ITEM_MAX == 132

SUBSTRUCT_ORDERS ==
    << <<"G","A","E","M">>, <<"G","A","M","E">>, <<"G","E","A","M">>, <<"G","E","M","A">>,
       <<"G","M","A","E">>, <<"G","M","E","A">>, <<"A","G","E","M">>, <<"A","G","M","E">>,
       <<"A","E","G","M">>, <<"A","E","M","G">>, <<"A","M","G","E">>, <<"A","M","E","G">>,
       <<"E","G","A","M">>, <<"E","G","M","A">>, <<"E","A","G","M">>, <<"E","A","M","G">>,
       <<"E","M","G","A">>, <<"E","M","A","G">>, <<"M","G","A","E">>, <<"M","G","E","A">>,
       <<"M","A","G","E">>, <<"M","A","E","G">>, <<"M","E","G","A">>, <<"M","E","A","G">> >>

----------------------------------------------------------------------------
(***************************************************************************)
(* Exclusive or of numbers of 1, 2, 4, 8 and 16 bits, half by half.        *)
(***************************************************************************)

Xor1(x, y) == (x + y) % 2
Xor2(x, y) == 2 * Xor1(x \div 2, y \div 2) + Xor1(x % 2, y % 2)
Xor4(x, y) == 4 * Xor2(x \div 4, y \div 4) + Xor2(x % 4, y % 4)
Xor8(x, y) == 16 * Xor4(x \div 16, y \div 16) + Xor4(x % 16, y % 16)
Xor(x, y)  == 256 * Xor8(x \div 256, y \div 256) + Xor8(x % 256, y % 256)

----------------------------------------------------------------------------
(***************************************************************************)
(* The class.                                                              *)
(***************************************************************************)

\* Mutant: only the low halfword counts.
LowIndex(personality) == personality[1] % 24

\* personality % 24, without computing the 32-bit word.
OrderIndex(personality) ==
    ((personality[2] % 24) * (HALF % 24) + personality[1]) % 24

\* The key of halfword i of the secure part.
Key(r, i) ==
    LET half == 2 - (i % 2)
    IN  Xor(r.personality[half], r.trainer_id[half])

DecryptedSecure(r) == [i \in 1..24 |-> Xor(r.secure[i], Key(r, i))]

HeldItem(r) ==
    LET order  == SUBSTRUCT_ORDERS[OrderIndex(r.personality) + 1]
        growth == CHOOSE i \in 1..4 : order[i] = "G"
    IN  DecryptedSecure(r)[(growth - 1) * 6 + 2]

HoldsMail(r) == HeldItem(r) \in MAIL_ITEM_MIN..MAIL_ITEM_MAX

\* Mutant: the last halfword is left out.
ShortChecksum(s) ==
    (s[1] + s[2] + s[3] + s[4] + s[5] + s[6] + s[7] + s[8] + s[9] + s[10] + s[11] + s[12] + s[13]
     + s[14] + s[15] + s[16] + s[17] + s[18] + s[19] + s[20] + s[21] + s[22] + s[23]) % HALF

Checksum(s) ==
    (s[1] + s[2] + s[3] + s[4] + s[5] + s[6] + s[7] + s[8] + s[9] + s[10] + s[11] + s[12] + s[13]
     + s[14] + s[15] + s[16] + s[17] + s[18] + s[19] + s[20] + s[21] + s[22] + s[23] + s[24]) % HALF

ChecksumValid(r) == Checksum(DecryptedSecure(r)) = r.checksum

----------------------------------------------------------------------------
(***************************************************************************)
(* The reference: how a record comes to be.                                *)
(***************************************************************************)

Without(s, i) == [j \in 1..(Len(s) - 1) |-> s[IF j < i THEN j ELSE j + 1]]

\* The n-th permutation, counted in the order of the letters G, A, E, M.
NthOrder(n) ==
    LET s1 == <<"G", "A", "E", "M">>  i1 == (n \div 6) + 1
        s2 == Without(s1, i1)         i2 == ((n % 6) \div 2) + 1
        s3 == Without(s2, i2)         i3 == (n % 2) + 1
    IN  <<s1[i1], s2[i2], s3[i3]>> \o Without(s3, i3)

Plain(personality, held, filler) ==
    LET order == NthOrder((personality[1] + personality[2] * (HALF % 24)) % 24)
    IN  [i \in 1..24 |-> IF order[((i - 1) \div 6) + 1] = "G" /\ i % 6 = 2
                         THEN held ELSE (filler + i) % HALF]

\* The halfwords of substructure n, as the games add them up.
SumOf(plain, n) ==
    LET at == 6 * n
    IN  plain[at + 1] + plain[at + 2] + plain[at + 3] + plain[at + 4] + plain[at + 5] + plain[at + 6]

Encode(personality, trainer_id, held, filler) ==
    LET plain == Plain(personality, held, filler)
        key   == <<Xor(personality[1], trainer_id[1]), Xor(personality[2], trainer_id[2])>>
    IN  [personality |-> personality, trainer_id |-> trainer_id,
         checksum |-> (SumOf(plain, 0) + SumOf(plain, 1) + SumOf(plain, 2) + SumOf(plain, 3)) % HALF,
         secure   |-> [i \in 1..24 |-> Xor(plain[i], key[IF i % 2 = 1 THEN 1 ELSE 2])]]

Init ==
    /\ item \in Items
    /\ \E personality \in Personalities, trainer_id \in TrainerIds, filler \in Fillers :
           raw = Encode(personality, trainer_id, item, filler)
    /\ damaged = FALSE

\* One halfword of the secure part changes.
Damage(i, mask) ==
    /\ ~damaged
    /\ damaged' = TRUE
    /\ raw' = [raw EXCEPT !.secure[i] = Xor(@, mask)]
    /\ UNCHANGED item

Next == \E i \in 1..24, mask \in Masks : Damage(i, mask)

Spec == Init /\ [][Next]_vars

----------------------------------------------------------------------------

\* Whatever the personality, the trainer id and the rest of the record,
\* held_item finds the item the game wrote, so refuse_mail refuses exactly the
\* items 121 to 132.  The tests only read records whose key is 0 and whose
\* order is the first.
MailIsFound ==
    ~damaged => HeldItem(raw) = item /\ (HoldsMail(raw) <=> item \in 121..132)

\* checksum_valid accepts what a game wrote and notices any damage to one
\* halfword of it.
DamageIsNoticed == ChecksumValid(raw) <=> ~damaged

=============================================================================
