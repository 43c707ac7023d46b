------------------------ MODULE GbLinkEndpointProofs ------------------------
(***************************************************************************)
(* Proofs about GbLinkEndpoint: its state stays typed, and what trade_once *)
(* returns is a trade that happened, or a link closed without one, if no   *)
(* HELLO is delivered twice.                                               *)
(***************************************************************************)
EXTENDS GbLinkEndpointInv, SequenceTheorems, WellFoundedInduction, TLAPS

(***************************************************************************)
(* Sequences and numbers.                                                  *)
(***************************************************************************)

\* A set of positive numbers that is not empty has a least element, and Min
\* is that element.
LEMMA MinIsLeast ==
    ASSUME NEW S, S \subseteq Nat, S # {}
    PROVE  Min(S) \in S /\ \A y \in S : Min(S) <= y
<1> DEFINE R == {ss \in Nat \X Nat : ss[1] < ss[2]}
<1>1. IsWellFoundedOn(R, Nat)
  BY NatLessThanWellFounded, Zenon DEF OpToRel
<1>2. \A x, y \in Nat : y < x => <<y, x>> \in R
  OBVIOUS
<1> HIDE DEF R
<1>3. \E x \in S : \A y \in S : <<y, x>> \notin R
  BY <1>1, WFMin, Zenon
<1>4. \E x \in S : \A y \in S : x <= y
  <2>1. PICK x \in S : \A y \in S : <<y, x>> \notin R
    BY <1>3
  <2>2. \A y \in S : ~(y < x)
    BY <2>1, <1>2
  <2> QED
    BY <2>2
<1>5. Min(S) = CHOOSE x \in S : \A y \in S : x <= y
  BY DEF Min
<1> QED
  BY <1>4, <1>5

\* What TypeOK says of the stream makes it a sequence.
LEMMA StreamIsSequence ==
    ASSUME NEW s, s = [i \in 1..Len(s) |-> s[i]], Len(s) \in Nat
    PROVE  s \in Seq({s[i] : i \in 1..Len(s)})
<1>1. s \in [1..Len(s) -> {s[i] : i \in 1..Len(s)}]
  OBVIOUS
<1> QED
  BY <1>1, SeqDef

\* And a sequence is what TypeOK asks for.
LEMMA SequenceIsStream ==
    ASSUME NEW S, NEW s \in Seq(S)
    PROVE  s = [i \in 1..Len(s) |-> s[i]] /\ Len(s) \in Nat
OBVIOUS

LEMMA AppendElements ==
    ASSUME NEW S, NEW s \in Seq(S), NEW e
    PROVE  /\ Append(s, e) \in Seq(S \cup {e})
           /\ \A i \in DOMAIN Append(s, e) :
                \/ i \in DOMAIN s /\ Append(s, e)[i] = s[i]
                \/ i = Len(s) + 1 /\ Append(s, e)[i] = e
<1>1. s \in Seq(S \cup {e})
  OBVIOUS
<1> QED
  BY <1>1

LEMMA ConcatElements ==
    ASSUME NEW S, NEW s \in Seq(S), NEW e, NEW d
    PROVE  /\ s \o <<e, d>> \in Seq(S \cup {e, d})
           /\ \A i \in DOMAIN (s \o <<e, d>>) :
                \/ i \in DOMAIN s /\ (s \o <<e, d>>)[i] = s[i]
                \/ i = Len(s) + 1 /\ (s \o <<e, d>>)[i] = e
                \/ i = Len(s) + 2 /\ (s \o <<e, d>>)[i] = d
<1>1. s \in Seq(S \cup {e, d})
  OBVIOUS
<1>2. <<e, d>> \in Seq(S \cup {e, d})
  OBVIOUS
<1> QED
  BY <1>1, <1>2

LEMMA SubSeqElements ==
    ASSUME NEW S, NEW s \in Seq(S), NEW k \in 0..Len(s)
    PROVE  /\ SubSeq(s, k + 1, Len(s)) \in Seq(S)
           /\ \A i \in DOMAIN SubSeq(s, k + 1, Len(s)) :
                k + i \in DOMAIN s /\ SubSeq(s, k + 1, Len(s))[i] = s[k + i]
OBVIOUS

LEMMA TailElements ==
    ASSUME NEW S, NEW s \in Seq(S), s # <<>>
    PROVE  /\ Tail(s) \in Seq(S) /\ 1 \in DOMAIN s /\ Head(s) = s[1]
           /\ \A i \in DOMAIN Tail(s) : i + 1 \in DOMAIN s /\ Tail(s)[i] = s[i + 1]
OBVIOUS

LEMMA WithoutElements ==
    ASSUME NEW S, NEW s \in Seq(S), NEW k \in 1..Len(s)
    PROVE  /\ Without(s, k) \in Seq(S)
           /\ \A i \in DOMAIN Without(s, k) :
                \/ i < k /\ i \in DOMAIN s /\ Without(s, k)[i] = s[i]
                \/ k <= i /\ i + 1 \in DOMAIN s /\ Without(s, k)[i] = s[i + 1]
<1> DEFINE a == SubSeq(s, 1, k - 1)
<1> DEFINE b == SubSeq(s, k + 1, Len(s))
<1>0. Len(s) \in Nat /\ DOMAIN s = 1..Len(s) /\ k \in Int
  OBVIOUS
<1>1. a \in Seq(S) /\ Len(a) = k - 1 /\ \A i \in 1..(k - 1) : a[i] = s[i]
  <2>1. CASE k = 1
    BY <2>1
  <2>2. CASE k # 1
    BY <2>2, <1>0
  <2> QED
    BY <2>1, <2>2
<1>2. b \in Seq(S) /\ Len(b) = Len(s) - k /\ \A i \in 1..(Len(s) - k) : b[i] = s[k + i]
  OBVIOUS
<1> HIDE DEF a, b
<1>3. /\ a \o b \in Seq(S) /\ Len(a \o b) = Len(a) + Len(b)
      /\ \A i \in 1..Len(a) + Len(b) : (a \o b)[i] = IF i <= Len(a) THEN a[i] ELSE b[i - Len(a)]
  BY <1>1, <1>2, ConcatProperties, Zenon
<1>4. DOMAIN (a \o b) = 1..(Len(s) - 1)
  <2>1. DOMAIN (a \o b) = 1..Len(a \o b)
    BY <1>3
  <2>2. Len(a \o b) = Len(s) - 1
    BY <1>0, <1>1, <1>2, <1>3
  <2> QED
    BY <2>1, <2>2
<1>5. ASSUME NEW i \in 1..(Len(s) - 1)
      PROVE  \/ i < k /\ i \in DOMAIN s /\ (a \o b)[i] = s[i]
             \/ k <= i /\ i + 1 \in DOMAIN s /\ (a \o b)[i] = s[i + 1]
  <2>1. CASE i < k
    BY <2>1, <1>0, <1>1, <1>2, <1>3
  <2>2. CASE k <= i
    <3>1. (a \o b)[i] = b[i - (k - 1)]
      BY <2>2, <1>0, <1>1, <1>2, <1>3
    <3>2. i - (k - 1) \in 1..(Len(s) - k) /\ k + (i - (k - 1)) = i + 1
      BY <2>2, <1>0
    <3> QED
      BY <2>2, <3>1, <3>2, <1>0, <1>2
  <2> QED
    <3>1. i \in Int /\ (i < k \/ k <= i)
      BY <1>0
    <3> QED
      BY <2>1, <2>2, <3>1
<1> QED
  BY <1>3, <1>4, <1>5 DEF Without, a, b

(***************************************************************************)
(* What the steps do to the stream.                                        *)
(***************************************************************************)

\* The frame f says what a frame of the stream says, damaged or not.
Old(f) ==
    \E i \in DOMAIN wire :
        /\ f.type = wire[i].type /\ f.txid = wire[i].txid
        /\ f.sequence = wire[i].sequence /\ f.body = wire[i].body

\* After the step the stream holds well-formed frames, old ones or in new.
Sent(new) ==
    /\ wire' = [i \in 1..Len(wire') |-> wire'[i]] /\ Len(wire') \in Nat
    /\ \A i \in DOMAIN wire' : WellFormed(wire'[i]) /\ (Old(wire'[i]) \/ wire'[i] \in new)

\* The stream as a sequence.
LEMMA WireIsSeq ==
    ASSUME TypeOK
    PROVE  wire \in Seq({wire[i] : i \in 1..Len(wire)}) /\ DOMAIN wire = 1..Len(wire)
BY StreamIsSequence DEF TypeOK, StreamTyped

\* An unchanged stream.
LEMMA NothingSent ==
    ASSUME TypeOK, wire' = wire
    PROVE  Sent({})
BY DEF TypeOK, StreamTyped, Sent, Old

\* A frame at the end of the stream.
LEMMA AppendSends ==
    ASSUME TypeOK, NEW f, WellFormed(f), wire' = Append(wire, f)
    PROVE  Sent({f})
<1> DEFINE S == {wire[i] : i \in 1..Len(wire)}
<1>1. wire \in Seq(S)
  BY WireIsSeq
<1> HIDE DEF S
<1>2. /\ wire' \in Seq(S \cup {f})
      /\ \A i \in DOMAIN wire' :
            \/ i \in DOMAIN wire /\ wire'[i] = wire[i]
            \/ i = Len(wire) + 1 /\ wire'[i] = f
  BY <1>1, AppendElements
<1>3. \A i \in DOMAIN wire' : WellFormed(wire'[i]) /\ (Old(wire'[i]) \/ wire'[i] = f)
  BY <1>2, Zenon DEF TypeOK, StreamTyped, Old
<1>4. wire' = [i \in 1..Len(wire') |-> wire'[i]] /\ Len(wire') \in Nat
  BY <1>2, SequenceIsStream
<1> QED
  BY <1>3, <1>4 DEF Sent

\* The two frames of partnerSelected.
LEMMA PairSends ==
    ASSUME TypeOK, NEW f, NEW g, WellFormed(f), WellFormed(g), wire' = wire \o <<f, g>>
    PROVE  Sent({f, g})
<1> DEFINE S == {wire[i] : i \in 1..Len(wire)}
<1>1. wire \in Seq(S)
  BY WireIsSeq
<1> HIDE DEF S
<1>2. /\ wire' \in Seq(S \cup {f, g})
      /\ \A i \in DOMAIN wire' :
            \/ i \in DOMAIN wire /\ wire'[i] = wire[i]
            \/ i = Len(wire) + 1 /\ wire'[i] = f
            \/ i = Len(wire) + 2 /\ wire'[i] = g
  BY <1>1, ConcatElements
<1>3. \A i \in DOMAIN wire' : WellFormed(wire'[i]) /\ (Old(wire'[i]) \/ wire'[i] \in {f, g})
  BY <1>2, Zenon DEF TypeOK, StreamTyped, Old
<1>4. wire' = [i \in 1..Len(wire') |-> wire'[i]] /\ Len(wire') \in Nat
  BY <1>2, SequenceIsStream
<1> QED
  BY <1>3, <1>4 DEF Sent

\* transport.read takes frames off the stream.
LEMMA ReadSendsNothing ==
    ASSUME TypeOK, NEW k \in DOMAIN wire, wire' = SubSeq(wire, k + 1, Len(wire))
    PROVE  Sent({})
<1> DEFINE S == {wire[i] : i \in 1..Len(wire)}
<1>1. wire \in Seq(S) /\ k \in 0..Len(wire)
  BY WireIsSeq DEF TypeOK, StreamTyped
<1> HIDE DEF S
<1>2. /\ wire' \in Seq(S)
      /\ \A i \in DOMAIN wire' : k + i \in DOMAIN wire /\ wire'[i] = wire[k + i]
  BY <1>1, SubSeqElements
<1>3. \A i \in DOMAIN wire' : WellFormed(wire'[i]) /\ Old(wire'[i])
  BY <1>2, Zenon DEF TypeOK, StreamTyped, Old
<1>4. wire' = [i \in 1..Len(wire') |-> wire'[i]] /\ Len(wire') \in Nat
  BY <1>2, SequenceIsStream
<1> QED
  BY <1>3, <1>4 DEF Sent

\* The stream's faults repeat, drop and damage frames, and invent none.
LEMMA FaultSendsNothing ==
    ASSUME TypeOK, NEW fault \in Faults, NEW i \in DOMAIN wire, StreamFault(fault, i)
    PROVE  Sent({})
<1> DEFINE S == {wire[n] : n \in 1..Len(wire)}
<1>1. wire \in Seq(S) /\ i \in 1..Len(wire) /\ DOMAIN wire = 1..Len(wire) /\ Len(wire) \in Nat
  BY WireIsSeq DEF TypeOK, StreamTyped
<1>2. WellFormed(wire[i]) /\ Old(wire[i])
  BY <1>1 DEF TypeOK, StreamTyped, Old
<1>3. CASE fault = "duplicate"
  <2>1. wire' = Append(wire, wire[i])
    BY <1>3 DEF StreamFault
  <2>2. Sent({wire[i]})
    BY <2>1, <1>2, AppendSends
  <2> QED
    BY <2>2, <1>2, Zenon DEF Sent
<1>4. CASE fault = "lose"
  <2>1. wire' = Without(wire, i)
    BY <1>4 DEF StreamFault
  <2> HIDE DEF S
  <2>2. /\ wire' \in Seq(S)
        /\ \A n \in DOMAIN wire' :
              \/ n < i /\ n \in DOMAIN wire /\ wire'[n] = wire[n]
              \/ i <= n /\ n + 1 \in DOMAIN wire /\ wire'[n] = wire[n + 1]
    BY <1>1, <2>1, WithoutElements
  <2>3. \A n \in DOMAIN wire' : WellFormed(wire'[n]) /\ Old(wire'[n])
    BY <2>2, Zenon DEF TypeOK, StreamTyped, Old
  <2>4. wire' = [n \in 1..Len(wire') |-> wire'[n]] /\ Len(wire') \in Nat
    BY <2>2, SequenceIsStream
  <2> QED
    BY <2>3, <2>4 DEF Sent
<1>5. CASE fault = "damage"
  <2> DEFINE g == [wire[i] EXCEPT !.intact = FALSE]
  <2>1. wire' = [wire EXCEPT ![i] = g]
    BY <1>5 DEF StreamFault
  <2>2. WellFormed(g) /\ Old(g)
    BY <1>2 DEF WellFormed, Old
  <2> HIDE DEF g
  <2>3. wire' \in Seq(S \cup {g}) /\ Len(wire') = Len(wire)
        /\ \A n \in 1..Len(wire) : wire'[n] = IF n = i THEN g ELSE wire[n]
    BY <2>1, <1>1
  <2>4. \A n \in DOMAIN wire' : WellFormed(wire'[n]) /\ Old(wire'[n])
    <3>1. DOMAIN wire' = DOMAIN wire
      BY <2>1
    <3>2. \A n \in DOMAIN wire : WellFormed(wire[n]) /\ Old(wire[n])
      BY Zenon DEF TypeOK, StreamTyped, Old
    <3>3. \A n \in DOMAIN wire' : wire'[n] = g \/ wire'[n] = wire[n]
      BY <2>3, <3>1, <1>1
    <3> QED
      BY <2>2, <3>1, <3>2, <3>3, Zenon
  <2>5. wire' = [n \in 1..Len(wire') |-> wire'[n]] /\ Len(wire') \in Nat
    BY <2>3, SequenceIsStream
  <2> QED
    BY <2>4, <2>5 DEF Sent
<1> QED
  BY <1>3, <1>4, <1>5, FaultsAssumption

(***************************************************************************)
(* What one read of the endpoint does.                                     *)
(***************************************************************************)

Failed == \E e \in HostErrors : Raise(e)

\* trade_once goes on with frame i of the stream, which is its own and new.
Taken(i) ==
    /\ wire[i].type \in Wanted[pc]
    /\ wire[i].txid = txid /\ last < wire[i].sequence
    /\ last' = wire[i].sequence
    /\ Accept(wire[i])

\* As long as ReplayWindow refuses nothing, the numbers rise above last.
LEMMA AcceptedAreNew ==
    ASSUME NEW k \in Nat, NEW chunk, \A i \in 1..k : chunk[i].sequence \in Nat, last \in Nat,
           NEW n \in 1..k, \A i \in 1..n : ~Refused(chunk, i)
    PROVE  \A i \in 1..n : chunk[i].txid = txid /\ last < chunk[i].sequence
<1>1. \A i \in 1..n : chunk[i].txid = txid
  BY DEF Refused
<1> DEFINE low == {i \in 1..n : chunk[i].sequence <= last}
<1>2. ASSUME low # {} PROVE FALSE
  <2>1. low \subseteq Nat
    OBVIOUS
  <2> DEFINE i == Min(low)
  <2>2. i \in low /\ \A j \in low : i <= j
    BY <1>2, <2>1, MinIsLeast, Zenon
  <2> HIDE DEF i
  <2>3. i \in 1..n /\ chunk[i].sequence <= last /\ ~Refused(chunk, i)
    BY <2>2
  <2>4. i # 1
    BY <2>3 DEF Refused
  <2>5. i - 1 \in 1..n /\ i - 1 \notin low
    BY <2>2, <2>3, <2>4
  <2>6. chunk[i - 1].sequence < chunk[i].sequence
    BY <2>3, <2>4, <2>5 DEF Refused
  <2> QED
    BY <2>3, <2>5, <2>6
<1> QED
  BY <1>1, <1>2

\* A read raises, goes on waiting, or goes on with one frame.
LEMMA ReadOutcome ==
    ASSUME TypeOK, NEW k \in DOMAIN wire, Read(k)
    PROVE  /\ last' \in Nat
           /\ \/ Failed
              \/ Waiting /\ last < last'
              \/ \E i \in DOMAIN wire : Taken(i)
<1> DEFINE chunk == SubSeq(wire, 1, k)
<1>1. /\ k \in 1..Len(wire) /\ Len(wire) \in Nat /\ DOMAIN wire = 1..Len(wire)
      /\ last \in Nat
  BY WireIsSeq DEF TypeOK, StreamTyped, HostTyped
<1>2. Len(chunk) = k /\ DOMAIN chunk = 1..k /\ \A i \in 1..k : chunk[i] = wire[i]
  BY <1>1, WireIsSeq
<1>3. \A i \in 1..k : WellFormed(chunk[i]) /\ chunk[i].sequence \in Nat /\ chunk[i].type \in EventTypes
  BY <1>1, <1>2 DEF TypeOK, StreamTyped, WellFormed
<1>4. \/ Loop(chunk)
      \/ Raise("ProtocolError") /\ UNCHANGED last
  BY DEF Read
<1> HIDE DEF chunk
<1>5. CASE Raise("ProtocolError") /\ UNCHANGED last
  BY <1>1, <1>5 DEF Failed, HostErrors
<1>6. CASE Loop(chunk) /\ Stops(chunk) = {}
  <2>1. Waiting /\ last' = chunk[k].sequence
    BY <1>2, <1>6 DEF Loop
  <2>2. \A i \in 1..k : ~Refused(chunk, i)
    BY <1>2, <1>6 DEF Stops
  <2>3. last < chunk[k].sequence
    <3>1. k \in Nat /\ k \in 1..k
      BY <1>1
    <3>2. \A i \in 1..k : chunk[i].sequence \in Nat
      BY <1>3
    <3> QED
      BY <1>1, <2>2, <3>1, <3>2, AcceptedAreNew, Zenon
  <2> QED
    BY <2>1, <2>3, <1>1, <1>3
<1>7. CASE Loop(chunk) /\ Stops(chunk) # {}
  <2> DEFINE i == Min(Stops(chunk))
  <2>1. Stops(chunk) \subseteq 1..k /\ Stops(chunk) \subseteq Nat
    BY <1>1, <1>2 DEF Stops
  <2>2. i \in Stops(chunk) /\ \A j \in Stops(chunk) : i <= j
    BY <1>7, <2>1, MinIsLeast, Zenon
  <2>3. \/ Refused(chunk, i) /\ Raise("ProtocolError") /\ UNCHANGED last
        \/ /\ ~Refused(chunk, i) /\ last' = chunk[i].sequence
           /\ \/ chunk[i].type \in Wanted[pc] /\ Accept(chunk[i])
              \/ Raise("EndpointError")
    BY <1>7, Zenon DEF Loop
  <2> HIDE DEF i
  <2>4. i \in 1..k /\ i \in DOMAIN wire /\ chunk[i] = wire[i] /\ chunk[i].sequence \in Nat
    BY <1>1, <1>2, <1>3, <2>1, <2>2
  <2>5. CASE Refused(chunk, i) /\ Raise("ProtocolError") /\ UNCHANGED last
    BY <1>1, <2>5 DEF Failed, HostErrors
  <2>6. CASE ~Refused(chunk, i) /\ last' = chunk[i].sequence /\ Raise("EndpointError")
    BY <2>4, <2>6 DEF Failed, HostErrors
  <2>7. CASE /\ ~Refused(chunk, i) /\ last' = chunk[i].sequence
             /\ chunk[i].type \in Wanted[pc] /\ Accept(chunk[i])
    <3>1. \A j \in 1..i : ~Refused(chunk, j)
      <4> SUFFICES ASSUME NEW j \in 1..i, Refused(chunk, j) PROVE FALSE
        OBVIOUS
      <4>1. j \in Stops(chunk)
        BY <1>2, <2>4 DEF Stops
      <4>2. j = i
        BY <2>2, <2>4, <4>1
      <4> QED
        BY <2>7, <4>2
    <3>2. chunk[i].txid = txid /\ last < chunk[i].sequence
      <4>1. k \in Nat /\ i \in 1..i
        BY <1>1, <2>4
      <4>2. \A j \in 1..k : chunk[j].sequence \in Nat
        BY <1>3
      <4> QED
        BY <1>1, <2>4, <3>1, <4>1, <4>2, AcceptedAreNew, Zenon
    <3>3. Taken(i)
      BY <2>4, <2>7, <3>2, Zenon DEF Taken
    <3> QED
      BY <2>4, <2>7, <3>3
  <2> QED
    BY <2>3, <2>5, <2>6, <2>7
<1> QED
  BY <1>4, <1>5, <1>6, <1>7

(***************************************************************************)
(* Types.                                                                  *)
(***************************************************************************)

\* A raised exception leaves a typed endpoint.
LEMMA FailedTyped ==
    ASSUME HostTyped, Failed, last' \in Nat, txid' = txid
    PROVE  HostTyped'
<1>1. PICK e \in HostErrors : Raise(e)
  BY DEF Failed
<1>2. pc' = "raised" /\ error' = e /\ offer' = NoMon /\ party' = <<>>
      /\ selected_slot' = 0 /\ selected' = NoMon
  BY <1>1 DEF Raise
<1>3. link_closed' \in BOOLEAN
  BY <1>1 DEF Raise
<1>4. txid' \in 0..MaxHosts
  BY DEF HostTyped
<1> QED
  BY <1>2, <1>3, <1>4 DEF HostTyped

\* So does a frame that trade_once goes on with.
LEMMA TakenTyped ==
    ASSUME TypeOK, NEW i \in DOMAIN wire, Taken(i), last' \in Nat, txid' = txid, pc \in Waits
    PROVE  HostTyped'
<1> DEFINE f == wire[i]
<1>1. WellFormed(f) /\ f.type \in Wanted[pc]
  BY DEF TypeOK, StreamTyped, Taken
<1>2. Accept(f)
  BY DEF Taken
<1> HIDE DEF f
<1>3. CASE Failed
  BY <1>3, FailedTyped DEF TypeOK
<1>4. CASE ~Failed
  <2>1. /\ ~Contradicts(f)
        /\ pc' = NextWait[pc]
        /\ party' = IF pc = "party" THEN f.body[1] ELSE party
        /\ selected_slot' = IF pc = "slot" THEN f.body[1] ELSE selected_slot
        /\ selected' = IF pc = "mon" THEN f.body[1] ELSE selected
        /\ link_closed' = IF pc = "closed" THEN f.type = "TRADE_LINK_CLOSED" /\ f.body = <<0>>
                          ELSE link_closed
        /\ UNCHANGED <<offer, error>>
    BY <1>2, <1>4 DEF Accept, Failed, HostErrors
  <2>2. pc = "party" => f.body[1] \in Parties
    BY <1>1 DEF WellFormed, Wanted
  <2>3. pc = "slot" => f.body[1] \in 0..5
    BY <1>1 DEF WellFormed, Wanted
  <2>4. pc = "mon" => f.body[1] \in Mons
    BY <1>1 DEF WellFormed, Wanted
  <2>5. pc \in {"capabilities", "offer_ready", "started", "party", "slot", "mon", "committed", "closed"}
    BY DEF Waits, Wanted
  <2>6. pc' \in Waits \cup {"down", "connected", "returned", "raised"}
        /\ (pc' \in {"committed", "closed", "returned"} => pc \in {"mon", "committed", "closed"})
    BY <2>1, <2>5 DEF NextWait, Waits, Wanted
  <2>7. selected' \in Mons \cup {NoMon}
        /\ (pc' \in {"committed", "closed", "returned"} => selected' \in Mons)
    BY <2>1, <2>4, <2>6 DEF TypeOK, HostTyped
  <2>8. party' \in Parties \cup {<<>>} /\ selected_slot' \in 0..5
    BY <2>1, <2>2, <2>3 DEF TypeOK, HostTyped
  <2>9. link_closed' \in BOOLEAN
    <3>1. link_closed \in BOOLEAN
      BY DEF TypeOK, HostTyped
    <3>2. CASE pc = "closed"
      <4>1. link_closed' = (f.type = "TRADE_LINK_CLOSED" /\ f.body = <<0>>)
        BY <2>1, <3>2, Zenon
      <4> QED
        BY <4>1, Zenon
    <3>3. CASE pc # "closed"
      BY <2>1, <3>1, <3>3, Zenon
    <3> QED
      BY <3>2, <3>3
  <2> QED
    <3>1. txid' \in 0..MaxHosts /\ offer' \in Offers \cup {NoMon} /\ error' \in HostErrors
      BY <2>1 DEF TypeOK, HostTyped
    <3> QED
      BY <3>1, <2>6, <2>7, <2>8, <2>9 DEF HostTyped
<1> QED
  BY <1>3, <1>4

\* The bridge takes commands from the front.
LEMMA HandledTyped ==
    ASSUME TypeOK, NEW type, Handled(type)
    PROVE  Head(cmds) \in Commands /\ Head(cmds).type = type /\ cmds' \in Seq(Commands)
BY TailElements DEF Handled, TypeOK, StreamTyped

\* Every frame that the bridge sends under its own number is well-formed.
LEMMA FrameWellFormed ==
    ASSUME BridgeTyped, NEW n \in {1, 2}, NEW type \in EventTypes, NEW body,
           type = "PARTNER_PARTY" => body[1] \in Parties,
           type = "PARTNER_SELECTED_SLOT" => body[1] \in 0..5,
           type = "PARTNER_SELECTED_MON" => body[1] \in Mons
    PROVE  WellFormed(Frame(n, type, body))
BY DEF WellFormed, Frame, BridgeTyped

\* The types of the frames that the bridge sends.
LEMMA BridgeTypes ==
    {"CAPABILITIES", "OFFER_READY", "TRADE_SESSION_STARTED", "PARTNER_PARTY",
     "PARTNER_SELECTED_SLOT", "PARTNER_SELECTED_MON", "TRADE_COMMITTED",
     "TRADE_LINK_CLOSED", "ERROR", "HELLO"} \subseteq EventTypes
<1>1. Waits = {"capabilities", "offer_ready", "started", "party", "slot", "mon", "committed", "closed"}
  BY DEF Waits, Wanted
<1> QED
  BY <1>1 DEF EventTypes, Wanted

\* A party has six records.
LEMMA PartyMons ==
    ASSUME NEW p \in Parties, NEW n \in 0..5
    PROVE  p[n] \in Mons
BY DEF Mons

\* Send, of a frame that is well-formed.
LEMMA SendSends ==
    ASSUME TypeOK, NEW type \in EventTypes, NEW body, Send(type, body),
           type = "PARTNER_PARTY" => body[1] \in Parties,
           type \notin {"PARTNER_SELECTED_SLOT", "PARTNER_SELECTED_MON"}
    PROVE  /\ Sent({Frame(1, type, body)})
           /\ m_sendSequence' = m_sendSequence + 1 /\ m_sendSequence' \in Nat
           /\ m_transactionId' = m_transactionId
<1>1. WellFormed(Frame(1, type, body))
  BY FrameWellFormed DEF TypeOK
<1>2. wire' = Append(wire, Frame(1, type, body))
  BY DEF Send
<1> QED
  BY <1>1, <1>2, AppendSends DEF Send, TypeOK, BridgeTyped

\* The bridge's answer to HELLO is the first frame of its transaction.
Hello(t) == [type |-> "HELLO", txid |-> t, sequence |-> 1, intact |-> TRUE, body |-> <<>>]

LEMMA HelloSends ==
    ASSUME TypeOK, HandleHello
    PROVE  Sent({Hello(Head(cmds).txid)})
<1>1. Head(cmds) \in Commands
  BY HandledTyped DEF HandleHello
<1>2. WellFormed(Hello(Head(cmds).txid))
  BY <1>1, BridgeTypes DEF WellFormed, Hello, Commands
<1>3. wire' = Append(wire, Hello(Head(cmds).txid))
  BY DEF HandleHello, Hello
<1> QED
  BY <1>2, <1>3, AppendSends

\* The stream stays typed when well-formed frames are sent.
LEMMA SentTyped ==
    ASSUME NEW new, Sent(new), cmds' \in Seq(Commands), faults' \in FaultsSoFar
    PROVE  StreamTyped'
BY DEF Sent, StreamTyped, WellFormed

\* Every step keeps the types.
LEMMA TypeStep ==
    ASSUME TypeOK, [Next]_vars
    PROVE  TypeOK'
<1> USE BoundsAssumption
<1>1. CASE Connect
  <2>1. txid' = txid + 1 /\ txid' \in 1..MaxHosts /\ pc' = "capabilities" /\ UNCHANGED objectVars
    BY <1>1 DEF Connect, TypeOK, HostTyped
  <2>2. HostTyped'
    <3>1. pc' \in Waits
      BY <2>1 DEF Waits, Wanted
    <3> QED
      BY <2>1, <3>1 DEF TypeOK, HostTyped, objectVars
  <2>3. cmds' \in Seq(Commands)
    <3> DEFINE h == Command("HELLO", 1, NoMon)
    <3> DEFINE g == Command("GET_CAPABILITIES", 2, NoMon)
    <3>1. h \in Commands /\ g \in Commands
      BY <2>1 DEF Command, Commands, CommandTypes
    <3>2. cmds' = cmds \o <<h, g>>
      BY <1>1 DEF Connect
    <3> HIDE DEF h, g
    <3>3. cmds' \in Seq(Commands \cup {h, g})
      BY <3>2, ConcatElements DEF TypeOK, StreamTyped
    <3>4. Commands \cup {h, g} = Commands
      BY <3>1
    <3> QED
      BY <3>3, <3>4
  <2>4. Sent({})
    <3>1. CASE wire' = wire
      BY <3>1, NothingSent
    <3>2. CASE wire' = <<>>
      BY <3>2 DEF Sent
    <3> QED
      BY <1>1, <3>1, <3>2 DEF Connect
  <2>5. faults' \in FaultsSoFar /\ UNCHANGED <<bridgeVars, gbaVars>>
    BY <1>1 DEF Connect, TypeOK, StreamTyped
  <2> QED
    BY <2>2, <2>3, <2>4, <2>5, SentTyped
       DEF TypeOK, BridgeTyped, GbaTyped, bridgeVars, codecVars, gbaVars
<1>2. CASE WaitFails
  <2>1. Failed /\ txid' = txid /\ last' \in Nat
    BY <1>2 DEF WaitFails, Failed, HostErrors, TypeOK, HostTyped
  <2>2. HostTyped'
    BY <2>1, FailedTyped DEF TypeOK
  <2> QED
    BY <1>2, <2>2 DEF WaitFails, TypeOK, StreamTyped, WellFormed, BridgeTyped, GbaTyped,
                      streamVars, bridgeVars, codecVars, gbaVars
<1>3. CASE Close
  <2>1. HostTyped'
    <3>1. link_closed' \in BOOLEAN
      BY <1>3 DEF Close
    <3>2. pc' = "down" /\ last' = 0 /\ offer' = NoMon /\ party' = <<>> /\ selected_slot' = 0
          /\ selected' = NoMon /\ error' = "none" /\ txid' = txid
      BY <1>3 DEF Close
    <3> QED
      BY <3>1, <3>2 DEF TypeOK, HostTyped, HostErrors
  <2> QED
    BY <1>3, <2>1 DEF Close, TypeOK, StreamTyped, WellFormed, BridgeTyped, GbaTyped,
                      streamVars, bridgeVars, codecVars, gbaVars
<1>4. ASSUME NEW m \in Offers, SetOffer(m) PROVE TypeOK'
  <2>1. HostTyped'
    <3>1. pc' \in Waits /\ pc' = "offer_ready"
      BY <1>4 DEF SetOffer, Waits, Wanted
    <3> QED
      BY <1>4, <3>1 DEF SetOffer, TypeOK, HostTyped
  <2>2. cmds' \in Seq(Commands)
    <3>1. txid \in 0..MaxHosts
      BY DEF TypeOK, HostTyped
    <3>2. Command("SET_OFFER_MON", 3, m) \in Commands
      BY <1>4, <3>1 DEF SetOffer, Command, Commands, CommandTypes
    <3> QED
      BY <1>4, <3>2 DEF SetOffer, TypeOK, StreamTyped
  <2>3. Sent({}) /\ faults' \in FaultsSoFar /\ UNCHANGED <<bridgeVars, gbaVars>>
    BY <1>4, NothingSent DEF SetOffer, TypeOK, StreamTyped
  <2> QED
    BY <2>1, <2>2, <2>3, SentTyped
       DEF TypeOK, BridgeTyped, GbaTyped, bridgeVars, codecVars, gbaVars
<1>5. ASSUME NEW k \in DOMAIN wire, Read(k) PROVE TypeOK'
  <2>1. /\ pc \in Waits /\ wire' = SubSeq(wire, k + 1, Len(wire))
        /\ UNCHANGED <<txid, cmds, faults, bridgeVars, gbaVars>>
    BY <1>5 DEF Read
  <2>2. HostTyped'
    <3>1. CASE Failed
      BY <1>5, <2>1, <3>1, ReadOutcome, FailedTyped DEF TypeOK
    <3>2. CASE Waiting
      BY <1>5, <2>1, <3>2, ReadOutcome DEF Waiting, TypeOK, HostTyped
    <3>3. ASSUME NEW i \in DOMAIN wire, Taken(i) PROVE HostTyped'
      BY <1>5, <2>1, <3>3, ReadOutcome, TakenTyped
    <3> QED
      BY <1>5, <3>1, <3>2, <3>3, ReadOutcome
  <2>3. Sent({})
    BY <1>5, <2>1, ReadSendsNothing
  <2>4. cmds' \in Seq(Commands) /\ faults' \in FaultsSoFar
    BY <2>1 DEF TypeOK, StreamTyped
  <2> QED
    BY <2>1, <2>2, <2>3, <2>4, SentTyped
       DEF TypeOK, BridgeTyped, GbaTyped, bridgeVars, codecVars, gbaVars
<1>6. CASE Discard
  <2>1. cmds' \in Seq(Commands) /\ Sent({}) /\ faults' \in FaultsSoFar
    BY <1>6, TailElements, NothingSent DEF Discard, TypeOK, StreamTyped
  <2> QED
    BY <1>6, <2>1, SentTyped
       DEF Discard, TypeOK, HostTyped, BridgeTyped, GbaTyped, hostVars, objectVars, bridgeVars,
           codecVars, gbaVars
<1>7. CASE HandleHello
  <2>1. Head(cmds) \in Commands /\ cmds' \in Seq(Commands)
    BY <1>7, HandledTyped DEF HandleHello
  <2>2. \E new : Sent(new)
    BY <1>7, HelloSends
  <2>3. StreamTyped'
    BY <1>7, <2>1, <2>2, SentTyped DEF HandleHello, TypeOK, StreamTyped
  <2>4. BridgeTyped'
    BY <1>7, <2>1 DEF HandleHello, TypeOK, BridgeTyped, Commands
  <2> QED
    BY <1>7, <2>3, <2>4 DEF HandleHello, TypeOK, HostTyped, GbaTyped, hostVars, objectVars, gbaVars
<1>8. CASE HandleGetCapabilities
  <2>1. Head(cmds) \in Commands /\ cmds' \in Seq(Commands)
    BY <1>8, HandledTyped DEF HandleGetCapabilities
  <2>2. Sent({Frame(1, "CAPABILITIES", <<TRUE>>)}) /\ m_sendSequence' \in Nat
        /\ m_transactionId' = m_transactionId
    BY <1>8, SendSends, BridgeTypes DEF HandleGetCapabilities
  <2>3. StreamTyped'
    BY <1>8, <2>1, <2>2, SentTyped DEF HandleGetCapabilities, TypeOK, StreamTyped
  <2>4. BridgeTyped'
    BY <1>8, <2>1, <2>2 DEF HandleGetCapabilities, TypeOK, BridgeTyped, Commands
  <2> QED
    BY <1>8, <2>3, <2>4
       DEF HandleGetCapabilities, TypeOK, HostTyped, GbaTyped, hostVars, objectVars, gbaVars
<1>9. CASE HandleSetOffer
  <2>1. Head(cmds) \in Commands /\ cmds' \in Seq(Commands)
    BY <1>9, HandledTyped DEF HandleSetOffer
  <2>2. Sent({Frame(1, "OFFER_READY", <<0, Head(cmds).mon>>)}) /\ m_sendSequence' \in Nat
        /\ m_transactionId' = m_transactionId
    BY <1>9, SendSends, BridgeTypes DEF HandleSetOffer
  <2>3. StreamTyped'
    BY <1>9, <2>1, <2>2, SentTyped DEF HandleSetOffer, TypeOK, StreamTyped
  <2>4. BridgeTyped'
    BY <1>9, <2>1, <2>2 DEF HandleSetOffer, TypeOK, BridgeTyped, Commands
  <2> QED
    BY <1>9, <2>3, <2>4
       DEF HandleSetOffer, TypeOK, HostTyped, GbaTyped, hostVars, objectVars, gbaVars
<1>10. ASSUME NEW p \in Parties, SessionStarted(p) PROVE TypeOK'
  <2>1. Sent({Frame(1, "TRADE_SESSION_STARTED", <<>>)}) /\ m_sendSequence' \in Nat
        /\ m_transactionId' = m_transactionId
    BY <1>10, SendSends, BridgeTypes DEF SessionStarted
  <2>2. StreamTyped'
    BY <1>10, <2>1, SentTyped DEF SessionStarted, TypeOK, StreamTyped
  <2>3. BridgeTyped'
    BY <1>10, <2>1 DEF SessionStarted, TypeOK, BridgeTyped
  <2>4. GbaTyped'
    BY <1>10 DEF SessionStarted, TypeOK, GbaTyped, Sessions
  <2> QED
    BY <1>10, <2>2, <2>3, <2>4 DEF SessionStarted, TypeOK, HostTyped, hostVars, objectVars
<1>11. CASE PartnerPartyReady
  <2>1. gbaParty \in Parties
    BY <1>11 DEF PartnerPartyReady, TypeOK, GbaTyped
  <2>2. Sent({Frame(1, "PARTNER_PARTY", <<gbaParty>>)}) /\ m_sendSequence' \in Nat
        /\ m_transactionId' = m_transactionId
    BY <1>11, <2>1, SendSends, BridgeTypes DEF PartnerPartyReady
  <2>3. StreamTyped'
    BY <1>11, <2>2, SentTyped DEF PartnerPartyReady, TypeOK, StreamTyped
  <2>4. BridgeTyped'
    BY <1>11, <2>2 DEF PartnerPartyReady, TypeOK, BridgeTyped
  <2>5. GbaTyped'
    BY <1>11, <2>1 DEF PartnerPartyReady, TypeOK, GbaTyped, Sessions
  <2> QED
    BY <1>11, <2>3, <2>4, <2>5 DEF PartnerPartyReady, TypeOK, HostTyped, hostVars, objectVars
<1>12. ASSUME NEW n \in PartnerSlots, Select(n) PROVE TypeOK'
  <2>1. n \in 0..255 /\ gbaParty \in Parties /\ \A q \in 0..5 : gbaParty[q] \in Mons
    BY <1>12, SelectAssumption, PartyMons DEF Select, TypeOK, GbaTyped
  <2>2. (\E new : Sent(new)) /\ BridgeTyped' /\ session' \in {"selected", "refused"}
    <3>1. CASE m_offerReady /\ n <= 5
      <4> DEFINE f == Frame(1, "PARTNER_SELECTED_SLOT", <<n>>)
      <4> DEFINE g == Frame(2, "PARTNER_SELECTED_MON", <<gbaParty[n]>>)
      <4>0. n \in 0..5 /\ gbaParty[n] \in Mons
        BY <2>1, <3>1
      <4>1. wire' = wire \o <<f, g>> /\ m_sendSequence' = m_sendSequence + 2
            /\ m_selected' = gbaParty[n] /\ m_transactionId' = m_transactionId
            /\ session' = "selected"
        BY <1>12, <3>1 DEF Select
      <4>2. WellFormed(f) /\ WellFormed(g)
        BY <4>0, FrameWellFormed, BridgeTypes DEF TypeOK
      <4> HIDE DEF f, g
      <4>3. Sent({f, g})
        BY <4>1, <4>2, PairSends
      <4> QED
        BY <1>12, <4>0, <4>1, <4>3 DEF Select, TypeOK, BridgeTyped
    <3>2. CASE ~(m_offerReady /\ n <= 5)
      <4>1. Send("ERROR", <<4>>) /\ UNCHANGED m_selected /\ session' = "refused"
        BY <1>12, <3>2 DEF Select
      <4>2. Sent({Frame(1, "ERROR", <<4>>)}) /\ m_sendSequence' \in Nat
            /\ m_transactionId' = m_transactionId
        BY <4>1, SendSends, BridgeTypes
      <4> QED
        BY <1>12, <4>1, <4>2 DEF Select, TypeOK, BridgeTyped
    <3> QED
      BY <3>1, <3>2
  <2>3. StreamTyped'
    BY <1>12, <2>2, SentTyped DEF Select, TypeOK, StreamTyped
  <2>4. partnerSlot' \in 0..5 /\ slot0' \in Mons
    <3>1. CASE n <= 5
      <4>1. partnerSlot' = n /\ slot0' = gbaParty[n]
        BY <1>12, <3>1 DEF Select
      <4>2. n \in 0..5
        BY <2>1, <3>1
      <4> QED
        BY <2>1, <4>1, <4>2
    <3>2. CASE ~(n <= 5)
      BY <1>12, <3>2 DEF Select
    <3> QED
      BY <3>1, <3>2
  <2>5. GbaTyped'
    BY <1>12, <2>1, <2>2, <2>4 DEF Select, TypeOK, GbaTyped, Sessions
  <2> QED
    BY <1>12, <2>2, <2>3, <2>5 DEF Select, TypeOK, HostTyped, hostVars, objectVars
<1>13. CASE Swap
  <2>1. gbaParty \in Parties /\ gbaParty[partnerSlot] \in Mons
    BY <1>13, PartyMons DEF Swap, TypeOK, GbaTyped
  <2>2. GbaTyped'
    BY <1>13, <2>1 DEF Swap, TypeOK, GbaTyped, BridgeTyped, Trade, Sessions
  <2> QED
    BY <1>13, <2>2 DEF Swap, TypeOK, HostTyped, StreamTyped, WellFormed, BridgeTyped,
                       hostVars, objectVars, streamVars, bridgeVars, codecVars
<1>14. CASE Committed
  <2>1. Sent({Frame(1, "TRADE_COMMITTED", <<m_offer, m_selected>>)}) /\ m_sendSequence' \in Nat
        /\ m_transactionId' = m_transactionId
    BY <1>14, SendSends, BridgeTypes DEF Committed
  <2>2. StreamTyped'
    BY <1>14, <2>1, SentTyped DEF Committed, TypeOK, StreamTyped
  <2>3. BridgeTyped'
    BY <1>14, <2>1 DEF Committed, TypeOK, BridgeTyped
  <2>4. closes' \subseteq BareClose
    BY <1>14 DEF Committed, TypeOK, GbaTyped, BridgeTyped, BareClose
  <2>5. GbaTyped'
    BY <1>14, <2>4 DEF Committed, TypeOK, GbaTyped, Sessions
  <2> QED
    BY <1>14, <2>2, <2>3, <2>5 DEF Committed, TypeOK, HostTyped, hostVars, objectVars
<1>15. CASE LinkClosed
  <2>1. Sent({Frame(1, "TRADE_LINK_CLOSED", <<0>>)}) /\ m_sendSequence' \in Nat
        /\ m_transactionId' = m_transactionId
    BY <1>15, SendSends, BridgeTypes DEF LinkClosed
  <2>2. StreamTyped'
    BY <1>15, <2>1, SentTyped DEF LinkClosed, TypeOK, StreamTyped
  <2>3. BridgeTyped'
    BY <1>15, <2>1 DEF LinkClosed, TypeOK, BridgeTyped
  <2>4. GbaTyped'
    BY <1>15 DEF LinkClosed, TypeOK, GbaTyped, Sessions
  <2> QED
    BY <1>15, <2>2, <2>3, <2>4 DEF LinkClosed, TypeOK, HostTyped, hostVars, objectVars
<1>16. ASSUME NEW fault \in Faults, NEW i \in DOMAIN wire, StreamFault(fault, i) PROVE TypeOK'
  <2>1. StreamTyped'
    <3>1. Sent({})
      BY <1>16, FaultSendsNothing
    <3>2. cmds' \in Seq(Commands) /\ faults' \in FaultsSoFar
      BY <1>16, BoundsAssumption DEF StreamFault, TypeOK, StreamTyped, FaultsSoFar
    <3> QED
      BY <3>1, <3>2, SentTyped
  <2> QED
    BY <1>16, <2>1 DEF StreamFault, TypeOK, HostTyped, BridgeTyped, GbaTyped, hostVars, objectVars,
                       bridgeVars, codecVars, gbaVars
<1>17. ASSUME NEW fault \in Faults \ {"damage"}, NEW i \in DOMAIN cmds, CommandFault(fault, i)
       PROVE  TypeOK'
  <2>1. cmds \in Seq(Commands) /\ i \in 1..Len(cmds) /\ cmds[i] \in Commands
    BY <1>17 DEF TypeOK, StreamTyped
  <2>2. cmds' \in Seq(Commands)
    BY <1>17, <2>1, WithoutElements DEF CommandFault
  <2>3. faults' \in FaultsSoFar
    <3> DEFINE h == faults.hello \/ (fault = "duplicate" /\ cmds[i].type = "HELLO")
    <3>1. h \in BOOLEAN
      BY Zenon
    <3>2. faults' = [number |-> faults.number + 1, hello |-> h]
      BY <1>17, Zenon DEF CommandFault
    <3> HIDE DEF h
    <3> QED
      BY <1>17, <3>1, <3>2, BoundsAssumption DEF CommandFault, TypeOK, StreamTyped, FaultsSoFar
  <2>4. StreamTyped'
    BY <1>17, <2>2, <2>3, NothingSent, SentTyped DEF CommandFault, TypeOK
  <2> QED
    BY <1>17, <2>4 DEF CommandFault, TypeOK, HostTyped, BridgeTyped, GbaTyped, hostVars, objectVars,
                       bridgeVars, codecVars, gbaVars
<1>18. CASE UNCHANGED vars
  BY <1>18 DEF TypeOK, HostTyped, StreamTyped, WellFormed, BridgeTyped, GbaTyped, vars, hostVars,
               objectVars, streamVars, bridgeVars, codecVars, gbaVars
<1> QED
  BY <1>1, <1>2, <1>3, <1>4, <1>5, <1>6, <1>7, <1>8, <1>9, <1>10, <1>11, <1>12, <1>13, <1>14,
     <1>15, <1>16, <1>17, <1>18, Zenon DEF Next, Host, Device, Stream

\* Nothing is typed but what the code can hold.
LEMMA InitTyped == Init => TypeOK
<1> SUFFICES ASSUME Init PROVE TypeOK
  OBVIOUS
<1> USE BoundsAssumption DEF Init
<1>0. link_closed \in BOOLEAN /\ m_offerReady \in BOOLEAN
  BY Zenon
<1>1. HostTyped
  <2>1. pc = "down" /\ txid = 0 /\ last = 0 /\ offer = NoMon /\ party = <<>>
        /\ selected_slot = 0 /\ selected = NoMon /\ error = "none"
    OBVIOUS
  <2> QED
    BY <1>0, <2>1 DEF HostTyped, HostErrors
<1>2. StreamTyped
  BY DEF StreamTyped, FaultsSoFar
<1>3. BridgeTyped
  BY <1>0 DEF BridgeTyped
<1>4. GbaTyped
  BY DEF GbaTyped, Mons, Sessions
<1> QED
  BY <1>1, <1>2, <1>3, <1>4 DEF TypeOK

\* The state of GbLinkEndpoint, of the frames between it and the bridge, and of
\* the bridge stays typed; in particular trade_once goes on to the commit only
\* with a record in hand.
THEOREM EndpointTypes == Spec => []TypeOK
<1>1. TypeOK /\ [Next]_vars => TypeOK'
  BY TypeStep
<1> QED
  BY InitTyped, <1>1, PTL DEF Spec

(***************************************************************************)
(* Transactions and sequence numbers.                                      *)
(***************************************************************************)

\* Commands taken off the front keep the HELLOs behind them in order, and new.
LEMMA TailKeepsHellos ==
    ASSUME TypeOK, HellosAreNew, cmds # <<>>, cmds' = Tail(cmds), txid' = txid,
           \/ m_transactionId' = m_transactionId
           \/ Head(cmds).type = "HELLO" /\ m_transactionId' = Head(cmds).txid
    PROVE  HellosAreNew'
<1>1. cmds \in Seq(Commands) /\ txid \in Nat /\ m_transactionId \in Nat
  BY DEF TypeOK, StreamTyped, HostTyped, BridgeTyped
<1>2. \A i \in DOMAIN cmds : cmds[i].txid \in Nat
  <2>1. \A i \in DOMAIN cmds : cmds[i] \in Commands
    BY <1>1
  <2> QED
    BY <2>1, BoundsAssumption DEF Commands
<1>3. /\ 1 \in DOMAIN cmds /\ Head(cmds) = cmds[1]
      /\ \A i \in DOMAIN cmds' : i \in Int /\ i > 0 /\ i + 1 \in DOMAIN cmds /\ cmds'[i] = cmds[i + 1]
  <2>1. cmds' \in Seq(Commands)
    BY <1>1
  <2>2. DOMAIN cmds' = 1..Len(cmds') /\ Len(cmds') \in Nat
    BY <2>1
  <2>3. /\ 1 \in DOMAIN cmds /\ Head(cmds) = cmds[1]
        /\ \A i \in DOMAIN cmds' : i + 1 \in DOMAIN cmds /\ cmds'[i] = cmds[i + 1]
    BY <1>1, TailElements
  <2> QED
    BY <2>2, <2>3
<1>4. CASE m_transactionId' = m_transactionId
  <2>1. \A i, j \in DOMAIN cmds' :
          i < j /\ cmds'[i].type = "HELLO" /\ cmds'[j].type = "HELLO" => cmds'[i].txid < cmds'[j].txid
    BY <1>3 DEF HellosAreNew
  <2>2. \A i \in DOMAIN cmds' :
          /\ cmds'[i].txid <= txid
          /\ cmds'[i].type = "SET_OFFER_MON" => cmds'[i].sequence = 3
          /\ cmds'[i].type = "HELLO" => m_transactionId < cmds'[i].txid
    BY <1>3 DEF HellosAreNew
  <2> QED
    BY <1>4, <2>1, <2>2 DEF HellosAreNew
<1>5. CASE Head(cmds).type = "HELLO" /\ m_transactionId' = Head(cmds).txid
  <2>1. m_transactionId' <= txid
    BY <1>3, <1>5 DEF HellosAreNew
  <2>2. \A i \in DOMAIN cmds' : cmds'[i].type = "HELLO" => m_transactionId' < cmds'[i].txid
    BY <1>2, <1>3, <1>5 DEF HellosAreNew
  <2> QED
    <3>1. \A i, j \in DOMAIN cmds' :
            i < j /\ cmds'[i].type = "HELLO" /\ cmds'[j].type = "HELLO" => cmds'[i].txid < cmds'[j].txid
      BY <1>3 DEF HellosAreNew
    <3>2. \A i \in DOMAIN cmds' :
            /\ cmds'[i].txid <= txid
            /\ cmds'[i].type = "SET_OFFER_MON" => cmds'[i].sequence = 3
      BY <1>3 DEF HellosAreNew
    <3> QED
      BY <2>1, <2>2, <3>1, <3>2 DEF HellosAreNew
<1> QED
  BY <1>4, <1>5

\* A command at the end that is no HELLO changes nothing for the HELLOs.
LEMMA AppendKeepsHellos ==
    ASSUME TypeOK, HellosAreNew, NEW c \in Commands, cmds' = Append(cmds, c),
           c.type # "HELLO", c.txid <= txid, c.type = "SET_OFFER_MON" => c.sequence = 3,
           txid' = txid, m_transactionId' = m_transactionId
    PROVE  HellosAreNew'
<1>1. cmds \in Seq(Commands)
  BY DEF TypeOK, StreamTyped
<1>2. \A i \in DOMAIN cmds' :
        \/ i \in DOMAIN cmds /\ cmds'[i] = cmds[i]
        \/ i = Len(cmds) + 1 /\ cmds'[i] = c
  BY <1>1, AppendElements
<1> QED
  BY <1>2 DEF HellosAreNew

\* A lost command leaves the others in order.
LEMMA WithoutKeepsHellos ==
    ASSUME TypeOK, HellosAreNew, NEW k \in DOMAIN cmds, cmds' = Without(cmds, k),
           txid' = txid, m_transactionId' = m_transactionId
    PROVE  HellosAreNew'
<1>1. cmds \in Seq(Commands) /\ k \in 1..Len(cmds)
  BY DEF TypeOK, StreamTyped
<1>2. DOMAIN cmds \subseteq Int /\ DOMAIN cmds' \subseteq Int /\ k \in Int
  BY <1>1, WithoutElements
<1>3. \A i \in DOMAIN cmds' :
        \/ i < k /\ i \in DOMAIN cmds /\ cmds'[i] = cmds[i]
        \/ k <= i /\ i + 1 \in DOMAIN cmds /\ cmds'[i] = cmds[i + 1]
  BY <1>1, WithoutElements
<1>4. ASSUME NEW i \in DOMAIN cmds', NEW j \in DOMAIN cmds', i < j,
             cmds'[i].type = "HELLO", cmds'[j].type = "HELLO"
      PROVE  cmds'[i].txid < cmds'[j].txid
  <2>1. PICK a \in DOMAIN cmds : cmds'[i] = cmds[a] /\ ((a = i /\ i < k) \/ (a = i + 1 /\ k <= i))
    BY <1>3, Zenon
  <2>2. PICK b \in DOMAIN cmds : cmds'[j] = cmds[b] /\ ((b = j /\ j < k) \/ (b = j + 1 /\ k <= j))
    BY <1>3, Zenon
  <2>3. a < b
    BY <1>2, <1>4, <2>1, <2>2
  <2> QED
    BY <1>4, <2>1, <2>2, <2>3 DEF HellosAreNew
<1>5. \A i \in DOMAIN cmds' : \E a \in DOMAIN cmds : cmds'[i] = cmds[a]
  BY <1>3
<1> QED
  BY <1>4, <1>5 DEF HellosAreNew

\* Frames keep their numbers, and a new one has the bridge's next.
LEMMA SentKeepsNumbers ==
    ASSUME TypeOK, TypeOK', FramesAreNumbered, NEW new, Sent(new),
           m_transactionId' = m_transactionId, m_sendSequence <= m_sendSequence',
           \A f \in new : f.txid = m_transactionId /\ f.sequence <= m_sendSequence'
    PROVE  FramesAreNumbered'
<1> SUFFICES ASSUME NEW i \in DOMAIN wire'
             PROVE  /\ wire'[i].txid <= m_transactionId'
                    /\ wire'[i].txid = m_transactionId' => wire'[i].sequence <= m_sendSequence'
  BY DEF FramesAreNumbered
<1>0. m_transactionId \in Nat /\ m_sendSequence \in Nat /\ m_sendSequence' \in Nat
  BY DEF TypeOK, BridgeTyped
<1>1. CASE wire'[i] \in new
  BY <1>0, <1>1
<1>2. CASE Old(wire'[i])
  <2>1. PICK k \in DOMAIN wire : wire'[i].txid = wire[k].txid /\ wire'[i].sequence = wire[k].sequence
    BY <1>2 DEF Old
  <2>2. wire[k].sequence \in Nat
    BY DEF TypeOK, StreamTyped, WellFormed
  <2> QED
    BY <1>0, <2>1, <2>2 DEF FramesAreNumbered
<1> QED
  BY <1>1, <1>2 DEF Sent

(***************************************************************************)
(* What the bridge, the player and the stream do keeps the waits sound.    *)
(***************************************************************************)

\* The frames that trade_once draws its conclusions from.
Marks == {"OFFER_READY", "TRADE_SESSION_STARTED", "TRADE_COMMITTED"}

\* No trade, and no bare close, is ever taken back.
LEMMA BacksGrows ==
    ASSUME NEW S, NEW T, S \subseteq T, NEW t, NEW body, Backs(S, t, body)
    PROVE  Backs(T, t, body)
BY DEF Backs

\* A step that takes neither offer nor evidence back, swaps only what it reports,
\* and sends the frames in new: at most one that trade_once relies on, with the
\* bridge's next number, and backed.
Harmless(new) ==
    /\ txid' = txid /\ Sent(new)
    /\ Evidence \subseteq Evidence'
    /\ OfferStands => OfferStands'
    /\ /\ OfferStands /\ session' = "swapped"
       /\ session = "swapped" => Backs(Evidence, txid, <<m_offer, m_selected>>)
       => Backs(Evidence', txid, <<m_offer', m_selected'>>)
    /\ \A f \in new :
        /\ f.type \in Marks =>
            f.txid = m_transactionId /\ f.sequence = m_sendSequence + 1 /\ new = {f}
        /\ f.type = "OFFER_READY" /\ f.txid = txid => OfferStands'
        /\ f.type = "TRADE_SESSION_STARTED" => session' # "swapped"
        /\ f.type = "TRADE_COMMITTED" =>
            \/ session = "swapped" /\ f.body = <<m_offer, m_selected>>
            \/ Backs(Evidence', f.txid, f.body)

\* After such a step everything that was sound is sound.
LEMMA HarmlessKeepsSound ==
    ASSUME TypeOK, TypeOK', FramesAreNumbered, NEW new, Harmless(new)
    PROVE  /\ \A n \in Nat : Sound(n) => Sound(n)'
           /\ \A n \in Nat : SoundOnceStarted(n) => SoundOnceStarted(n)'
           /\ OffersAreSound => OffersAreSound'
<1> USE DEF Harmless
<1>0. /\ txid' = txid /\ m_sendSequence \in Nat
      /\ \A i \in DOMAIN wire : wire[i].sequence \in Nat
      /\ \A i \in DOMAIN wire' : wire'[i].sequence \in Nat
  BY DEF TypeOK, BridgeTyped, StreamTyped, WellFormed
<1>1. ASSUME NEW i \in DOMAIN wire', wire'[i] \notin new
      PROVE  \E k \in DOMAIN wire :
                /\ wire'[i].type = wire[k].type /\ wire'[i].txid = wire[k].txid
                /\ wire'[i].sequence = wire[k].sequence /\ wire'[i].body = wire[k].body
  BY <1>1, Zenon DEF Sent, Old
<1>2. ASSUME NEW n \in Nat, Sound(n)
      PROVE  Sound(n)'
  <2>1. OfferStands' /\ (session' = "swapped" => Backs(Evidence', txid', <<m_offer', m_selected'>>))
    BY <1>0, <1>2 DEF Sound
  <2>2. ASSUME NEW i \in DOMAIN wire', wire'[i].type = "TRADE_COMMITTED", wire'[i].txid = txid,
               n < wire'[i].sequence
        PROVE  Backs(Evidence', txid', wire'[i].body)
    <3>1. CASE wire'[i] \in new
      <4>1. CASE session = "swapped" /\ wire'[i].body = <<m_offer, m_selected>>
        <5>1. Backs(Evidence, txid, wire'[i].body)
          BY <1>2, <4>1 DEF Sound
        <5> QED
          BY <1>0, <5>1, BacksGrows
      <4>2. CASE Backs(Evidence', wire'[i].txid, wire'[i].body)
        BY <1>0, <2>2, <4>2
      <4> QED
        BY <2>2, <3>1, <4>1, <4>2
    <3>2. CASE wire'[i] \notin new
      <4>1. PICK k \in DOMAIN wire :
                /\ wire'[i].type = wire[k].type /\ wire'[i].txid = wire[k].txid
                /\ wire'[i].sequence = wire[k].sequence /\ wire'[i].body = wire[k].body
        BY <1>1, <3>2
      <4>2. Backs(Evidence, txid, wire[k].body)
        BY <1>2, <2>2, <4>1 DEF Sound, Arriving
      <4> QED
        BY <1>0, <4>1, <4>2, BacksGrows
    <3> QED
      BY <3>1, <3>2
  <2> QED
    BY <1>0, <2>1, <2>2 DEF Sound, Arriving
<1>3. ASSUME NEW i \in DOMAIN wire', wire'[i] \in new, wire'[i].type \in Marks, wire'[i].txid = txid
      PROVE  \A j \in DOMAIN wire' :
                wire'[j].txid = txid /\ wire'[j].type \in Marks => wire'[j].sequence <= wire'[i].sequence
  <2> SUFFICES ASSUME NEW j \in DOMAIN wire', wire'[j].txid = txid, wire'[j].type \in Marks
               PROVE  wire'[j].sequence <= wire'[i].sequence
    OBVIOUS
  <2>1. wire'[i].sequence = m_sendSequence + 1 /\ txid = m_transactionId
    BY <1>3
  <2>2. CASE wire'[j] \in new
    BY <1>0, <2>1, <2>2
  <2>3. CASE wire'[j] \notin new
    <3>1. PICK k \in DOMAIN wire :
              wire'[j].txid = wire[k].txid /\ wire'[j].sequence = wire[k].sequence
      BY <1>1, <2>3
    <3>2. wire[k].sequence <= m_sendSequence
      BY <2>1, <3>1 DEF FramesAreNumbered
    <3> QED
      BY <1>0, <2>1, <3>1, <3>2
  <2> QED
    BY <2>2, <2>3
<1>4. ASSUME NEW n \in Nat, SoundOnceStarted(n)
      PROVE  SoundOnceStarted(n)'
  <2>1. OfferStands /\ OfferStands'
    BY <1>4 DEF SoundOnceStarted
  <2>2. ASSUME NEW i \in DOMAIN wire', Arriving("TRADE_SESSION_STARTED", n, i)'
        PROVE  Sound(wire[i].sequence)'
    <3>1. wire'[i].type = "TRADE_SESSION_STARTED" /\ wire'[i].txid = txid /\ n < wire'[i].sequence
      BY <1>0, <2>2 DEF Arriving
    <3>2. CASE wire'[i] \in new
      <4>1. session' # "swapped"
        BY <3>1, <3>2
      <4>2. \A j \in DOMAIN wire' :
              wire'[j].txid = txid /\ wire'[j].type = "TRADE_COMMITTED" => wire'[j].sequence <= wire'[i].sequence
        BY <1>3, <3>1, <3>2 DEF Marks
      <4> QED
        BY <1>0, <2>1, <4>1, <4>2 DEF Sound, Arriving
    <3>3. CASE wire'[i] \notin new
      <4>1. PICK k \in DOMAIN wire :
                /\ wire'[i].type = wire[k].type /\ wire'[i].txid = wire[k].txid
                /\ wire'[i].sequence = wire[k].sequence
        BY <1>1, <3>3
      <4>2. PICK m \in Nat : m = wire[k].sequence
        BY <1>0
      <4>3. Sound(m)
        BY <1>4, <3>1, <4>1, <4>2 DEF SoundOnceStarted, Arriving
      <4>4. Sound(m)'
        BY <1>2, <4>3
      <4> QED
        BY <4>1, <4>2, <4>4 DEF Sound, Arriving
    <3> QED
      BY <3>2, <3>3
  <2> QED
    BY <2>1, <2>2 DEF SoundOnceStarted
<1>5. ASSUME OffersAreSound, NEW i \in DOMAIN wire', Arriving("OFFER_READY", 0, i)'
      PROVE  SoundOnceStarted(wire[i].sequence)'
  <2>1. wire'[i].type = "OFFER_READY" /\ wire'[i].txid = txid /\ 0 < wire'[i].sequence
    BY <1>0, <1>5 DEF Arriving
  <2>2. CASE wire'[i] \in new
    <3>1. OfferStands'
      BY <2>1, <2>2
    <3>2. \A j \in DOMAIN wire' :
            wire'[j].txid = txid /\ wire'[j].type = "TRADE_SESSION_STARTED" =>
                wire'[j].sequence <= wire'[i].sequence
      BY <1>3, <2>1, <2>2 DEF Marks
    <3> QED
      BY <1>0, <3>1, <3>2 DEF SoundOnceStarted, Arriving
  <2>3. CASE wire'[i] \notin new
    <3>1. PICK k \in DOMAIN wire :
              /\ wire'[i].type = wire[k].type /\ wire'[i].txid = wire[k].txid
              /\ wire'[i].sequence = wire[k].sequence
      BY <1>1, <2>3
    <3>2. PICK m \in Nat : m = wire[k].sequence
      BY <1>0
    <3>3. SoundOnceStarted(m)
      BY <1>5, <2>1, <3>1, <3>2 DEF OffersAreSound, Arriving
    <3>4. SoundOnceStarted(m)'
      BY <1>4, <3>3
    <3> QED
      BY <3>1, <3>2, <3>4 DEF SoundOnceStarted, Arriving
  <2> QED
    BY <2>2, <2>3
<1> QED
  BY <1>2, <1>4, <1>5 DEF OffersAreSound

\* If the endpoint takes no part in it, its waits stay sound.
LEMMA WaitsStaySound ==
    ASSUME TypeOK, TypeOK', FramesAreNumbered, WaitsAreSound, UNCHANGED hostVars,
           NEW new, Harmless(new)
    PROVE  WaitsAreSound'
<1>1. /\ pc' = pc /\ txid' = txid /\ last' = last /\ offer' = offer /\ selected' = selected
      /\ Evidence \subseteq Evidence'
  BY DEF hostVars, objectVars, Harmless
<1>2. PICK n \in Nat : n = last
  BY DEF TypeOK, HostTyped
<1>3. (pc = "started")' => SoundOnceStarted(last)'
  <2> SUFFICES ASSUME pc = "started" PROVE SoundOnceStarted(last)'
    BY <1>1
  <2>1. SoundOnceStarted(n)
    BY <1>2 DEF WaitsAreSound
  <2>2. SoundOnceStarted(n)'
    BY <2>1, HarmlessKeepsSound
  <2> QED
    BY <1>1, <1>2, <2>2 DEF SoundOnceStarted, Arriving
<1>4. (pc \in {"party", "slot", "mon", "committed"})' => Sound(last)'
  <2> SUFFICES ASSUME pc \in {"party", "slot", "mon", "committed"} PROVE Sound(last)'
    BY <1>1
  <2>1. Sound(n)
    BY <1>2 DEF WaitsAreSound
  <2>2. Sound(n)'
    BY <2>1, HarmlessKeepsSound
  <2> QED
    BY <1>1, <1>2, <2>2 DEF Sound, Arriving
<1>5. (pc \in {"closed", "returned"})' => Backs(Evidence', txid', <<offer', selected'>>)
  BY <1>1, BacksGrows DEF WaitsAreSound
<1> QED
  BY <1>3, <1>4, <1>5 DEF WaitsAreSound

\* The endpoint moves on only to what the frame it goes on with bears out.
LEMMA ReadKeepsWaits ==
    ASSUME TypeOK, TypeOK', FramesAreNumbered, OffersAreSound, WaitsAreSound,
           NEW k \in DOMAIN wire, Read(k)
    PROVE  Harmless({}) /\ WaitsAreSound'
<1>1. /\ pc \in Waits /\ txid' = txid /\ Evidence' = Evidence /\ session' = session
      /\ m_offer' = m_offer /\ m_selected' = m_selected /\ m_transactionId' = m_transactionId
      /\ m_lastReceivedSequence' = m_lastReceivedSequence
  BY DEF Read, bridgeVars, codecVars, gbaVars, Evidence
<1>2. Harmless({})
  BY <1>1, ReadSendsNothing DEF Read, Harmless, OfferStands
<1>3. CASE Failed
  BY <1>2, <1>3 DEF Failed, Raise, WaitsAreSound
<1>4. CASE Waiting /\ last < last'
  <2>1. pc' = pc /\ offer' = offer /\ selected' = selected
    BY <1>4 DEF Waiting
  <2>2. PICK n \in Nat : n = last
    BY DEF TypeOK, HostTyped
  <2>3. last' \in Nat /\ \A i \in DOMAIN wire' : wire'[i].sequence \in Nat
    BY DEF TypeOK, HostTyped, StreamTyped, WellFormed
  <2>4. (pc = "started")' => SoundOnceStarted(last)'
    <3> SUFFICES ASSUME pc = "started" PROVE SoundOnceStarted(last)'
      BY <2>1
    <3>1. SoundOnceStarted(n)'
      BY <1>2, <2>2, HarmlessKeepsSound DEF WaitsAreSound
    <3> QED
      BY <1>4, <2>2, <2>3, <3>1 DEF SoundOnceStarted, Arriving
  <2>5. (pc \in {"party", "slot", "mon", "committed"})' => Sound(last)'
    <3> SUFFICES ASSUME pc \in {"party", "slot", "mon", "committed"} PROVE Sound(last)'
      BY <2>1
    <3>1. Sound(n)'
      BY <1>2, <2>2, HarmlessKeepsSound DEF WaitsAreSound
    <3> QED
      BY <1>4, <2>2, <2>3, <3>1 DEF Sound, Arriving
  <2>6. (pc \in {"closed", "returned"})' => Backs(Evidence', txid', <<offer', selected'>>)
    BY <1>1, <2>1 DEF WaitsAreSound
  <2> QED
    BY <1>2, <2>4, <2>5, <2>6 DEF WaitsAreSound
<1>5. ASSUME NEW i \in DOMAIN wire, Taken(i), ~Failed
      PROVE  WaitsAreSound'
  <2> DEFINE f == wire[i]
  <2>1. /\ f.type \in Wanted[pc] /\ f.txid = txid /\ last < f.sequence /\ last' = f.sequence
        /\ f.sequence \in Nat /\ last \in Nat
    BY <1>5 DEF Taken, TypeOK, HostTyped, StreamTyped, WellFormed
  <2>2. Accept(f)
    BY <1>5 DEF Taken
  <2>3. /\ ~Contradicts(f)
        /\ pc = "committed" => f.type = "TRADE_COMMITTED"
        /\ pc' = NextWait[pc]
        /\ selected' = IF pc = "mon" THEN f.body[1] ELSE selected
        /\ offer' = offer
    BY <1>5, <2>2 DEF Accept, Failed, HostErrors
  <2>4. PICK m \in Nat : m = f.sequence
    BY <2>1
  <2>5. PICK n \in Nat : n = last
    BY <2>1
  <2>6. \A j \in DOMAIN wire' : wire'[j].sequence \in Nat
    BY DEF TypeOK, StreamTyped, WellFormed
  <2>7. pc \in {"capabilities", "offer_ready", "started", "party", "slot", "mon", "committed", "closed"}
    BY <1>1 DEF Waits, Wanted
  <2>8. CASE pc = "capabilities"
    BY <2>3, <2>8 DEF NextWait, WaitsAreSound
  <2>9. CASE pc = "offer_ready"
    <3>1. f.type = "OFFER_READY" /\ Arriving("OFFER_READY", 0, i)
      BY <2>1, <2>9 DEF Wanted, Arriving
    <3>2. SoundOnceStarted(m)
      BY <2>4, <3>1 DEF OffersAreSound
    <3>3. SoundOnceStarted(m)'
      BY <1>2, <3>2, HarmlessKeepsSound
    <3>4. SoundOnceStarted(last)'
      BY <2>1, <2>4, <3>3 DEF SoundOnceStarted, Arriving
    <3>5. pc' = "started"
      BY <2>3, <2>9 DEF NextWait
    <3> QED
      BY <3>4, <3>5 DEF WaitsAreSound
  <2>10. CASE pc = "started"
    <3>1. Arriving("TRADE_SESSION_STARTED", last, i)
      BY <2>1, <2>10 DEF Wanted, Arriving
    <3>2. Sound(m)
      BY <2>4, <2>10, <3>1 DEF WaitsAreSound, SoundOnceStarted
    <3>3. Sound(m)'
      BY <1>2, <3>2, HarmlessKeepsSound
    <3>4. Sound(last)'
      BY <2>1, <2>4, <3>3 DEF Sound, Arriving
    <3>5. pc' = "party"
      BY <2>3, <2>10 DEF NextWait
    <3> QED
      BY <3>4, <3>5 DEF WaitsAreSound
  <2>11. CASE pc \in {"party", "slot", "mon"}
    <3>1. Sound(n)
      BY <2>5, <2>11 DEF WaitsAreSound
    <3>2. Sound(n)'
      BY <1>2, <3>1, HarmlessKeepsSound
    <3>3. Sound(last)'
      BY <2>1, <2>5, <2>6, <3>2 DEF Sound, Arriving
    <3>4. pc' \in {"slot", "mon", "committed"}
      BY <2>3, <2>11 DEF NextWait
    <3> QED
      BY <3>3, <3>4 DEF WaitsAreSound
  <2>12. CASE pc = "committed"
    <3>1. Arriving("TRADE_COMMITTED", last, i)
      BY <2>1, <2>3, <2>12 DEF Arriving
    <3>2. Backs(Evidence, txid, f.body)
      BY <2>12, <3>1 DEF WaitsAreSound, Sound
    <3>3. f.body = <<offer, selected>>
      BY <2>3, <2>12 DEF Contradicts
    <3>4. pc' = "closed"
      BY <2>3, <2>12 DEF NextWait
    <3> QED
      BY <1>1, <2>3, <2>12, <3>2, <3>3, <3>4 DEF WaitsAreSound
  <2>13. CASE pc = "closed"
    BY <1>1, <2>3, <2>13 DEF NextWait, WaitsAreSound
  <2> QED
    BY <2>7, <2>8, <2>9, <2>10, <2>11, <2>12, <2>13
<1> QED
  BY <1>2, <1>3, <1>4, <1>5, ReadOutcome

(***************************************************************************)
(* The invariant.                                                          *)
(***************************************************************************)

\* Every frame the bridge sends has the number it counts up to.
LEMMA SendCounts ==
    ASSUME TypeOK, TypeOK', FramesAreNumbered, NEW type \in EventTypes, NEW body, Send(type, body),
           type = "PARTNER_PARTY" => body[1] \in Parties,
           type \notin {"PARTNER_SELECTED_SLOT", "PARTNER_SELECTED_MON"}
    PROVE  /\ FramesAreNumbered'
           /\ Sent({Frame(1, type, body)})
           /\ m_transactionId' = m_transactionId
<1>1. /\ Sent({Frame(1, type, body)}) /\ m_sendSequence' = m_sendSequence + 1
      /\ m_transactionId' = m_transactionId
  BY SendSends
<1>2. m_sendSequence \in Nat /\ m_sendSequence' \in Nat
  BY DEF TypeOK, BridgeTyped
<1>3. \A f \in {Frame(1, type, body)} : f.txid = m_transactionId /\ f.sequence <= m_sendSequence'
  BY <1>1, <1>2 DEF Frame
<1> QED
  BY <1>1, <1>2, <1>3, SentKeepsNumbers

\* What a frame says, and that Send sends no frame that trade_once relies on
\* unless its type says so.
LEMMA FrameFields ==
    ASSUME NEW n, NEW type, NEW body
    PROVE  /\ Frame(n, type, body).type = type /\ Frame(n, type, body).txid = m_transactionId
           /\ Frame(n, type, body).sequence = m_sendSequence + n
           /\ Frame(n, type, body).body = body
BY DEF Frame

\* The offer that stands is not replaced: its number was the last.
LEMMA OfferIsLast ==
    ASSUME TypeOK, Handled("SET_OFFER_MON")
    PROVE  ~OfferStands
BY HandledTyped DEF Handled, Passes, OfferStands, Commands

LEMMA EvidenceStep ==
    ASSUME TypeOK, NumbersAreSound, [Next]_vars, ~faults'.hello
    PROVE  NumbersAreSound'
<1>0. TypeOK /\ TypeOK' /\ HellosAreNew /\ FramesAreNumbered /\ ReportsChosen
      /\ OffersAreSound /\ WaitsAreSound
  BY TypeStep DEF NumbersAreSound
<1> USE <1>0
<1> USE DEF bridgeVars, codecVars, gbaVars, Evidence
<1>a. ASSUME NEW new, Harmless(new), UNCHANGED hostVars, HellosAreNew', FramesAreNumbered', ReportsChosen'
      PROVE  NumbersAreSound'
  BY <1>a, HarmlessKeepsSound, WaitsStaySound DEF NumbersAreSound
<1>1. CASE Connect
  <2>1. /\ txid' = txid + 1 /\ txid' \in Nat /\ txid \in Nat /\ pc' = "capabilities"
        /\ m_transactionId \in Nat
        /\ UNCHANGED <<bridgeVars, gbaVars>>
    BY <1>1 DEF Connect, TypeOK, HostTyped, BridgeTyped
  <2>2. Sent({})
    <3>1. CASE wire' = wire
      BY <3>1, NothingSent
    <3>2. CASE wire' = <<>>
      BY <3>2 DEF Sent
    <3> QED
      BY <1>1, <3>1, <3>2 DEF Connect
  <2>3. FramesAreNumbered'
    BY <2>1, <2>2, SentKeepsNumbers DEF TypeOK, BridgeTyped
  <2>4. HellosAreNew'
    <3> DEFINE h == Command("HELLO", 1, NoMon)
    <3> DEFINE g == Command("GET_CAPABILITIES", 2, NoMon)
    <3>1. h.type = "HELLO" /\ h.txid = txid + 1 /\ g.type = "GET_CAPABILITIES" /\ g.txid = txid + 1
      BY <2>1 DEF Command
    <3>2. cmds' = cmds \o <<h, g>> /\ cmds \in Seq(Commands)
      BY <1>1 DEF Connect, TypeOK, StreamTyped
    <3> HIDE DEF h, g
    <3>3. \A i \in DOMAIN cmds' :
            \/ i \in DOMAIN cmds /\ cmds'[i] = cmds[i]
            \/ i = Len(cmds) + 1 /\ cmds'[i] = h
            \/ i = Len(cmds) + 2 /\ cmds'[i] = g
      BY <3>2, ConcatElements
    <3>4. \A i \in DOMAIN cmds : i \in 1..Len(cmds) /\ cmds[i].txid \in Nat
      <4>1. \A i \in DOMAIN cmds : i \in 1..Len(cmds) /\ cmds[i] \in Commands
        BY <3>2
      <4> QED
        BY <4>1, BoundsAssumption DEF Commands
    <3>5. Len(cmds) \in Nat
      BY <3>2
    <3>6. \A i \in DOMAIN cmds' :
            /\ cmds'[i].txid <= txid'
            /\ cmds'[i].type = "SET_OFFER_MON" => cmds'[i].sequence = 3
            /\ cmds'[i].type = "HELLO" => m_transactionId < cmds'[i].txid
      BY <2>1, <3>1, <3>3, <3>4 DEF HellosAreNew
    <3>7. ASSUME NEW i \in DOMAIN cmds', NEW j \in DOMAIN cmds', i < j,
                 cmds'[i].type = "HELLO", cmds'[j].type = "HELLO"
          PROVE  cmds'[i].txid < cmds'[j].txid
      <4>1. i \in DOMAIN cmds /\ cmds'[i] = cmds[i]
        BY <3>1, <3>3, <3>4, <3>5, <3>7
      <4>2. CASE j \in DOMAIN cmds /\ cmds'[j] = cmds[j]
        BY <3>7, <4>1, <4>2 DEF HellosAreNew
      <4>3. CASE cmds'[j] = h
        BY <2>1, <3>1, <3>4, <4>1, <4>3 DEF HellosAreNew
      <4> QED
        BY <3>1, <3>3, <3>7, <4>2, <4>3
    <3> QED
      BY <2>1, <3>6, <3>7 DEF HellosAreNew
  <2>5. ReportsChosen'
    BY <2>1 DEF ReportsChosen
  <2>6. \A i \in DOMAIN wire' : wire'[i].txid # txid'
    BY <2>1, <2>3 DEF FramesAreNumbered, HellosAreNew
  <2> QED
    BY <2>1, <2>3, <2>4, <2>5, <2>6 DEF NumbersAreSound, OffersAreSound, WaitsAreSound, Arriving
<1>b. ASSUME UNCHANGED <<txid, wire, bridgeVars, gbaVars>>
      PROVE  Harmless({}) /\ FramesAreNumbered' /\ ReportsChosen'
  BY <1>b, NothingSent DEF Harmless, FramesAreNumbered, ReportsChosen, OfferStands
<1>2. CASE WaitFails
  <2>1. UNCHANGED <<txid, wire, cmds, bridgeVars, gbaVars>> /\ pc' = "raised"
    BY <1>2 DEF WaitFails, Raise, streamVars
  <2> QED
    BY <1>b, <2>1, HarmlessKeepsSound DEF NumbersAreSound, HellosAreNew, WaitsAreSound
<1>3. CASE Close
  <2>1. UNCHANGED <<txid, wire, cmds, bridgeVars, gbaVars>> /\ pc' = "down"
    BY <1>3 DEF Close, streamVars
  <2> QED
    BY <1>b, <2>1, HarmlessKeepsSound DEF NumbersAreSound, HellosAreNew, WaitsAreSound
<1>4. ASSUME NEW m \in Offers, SetOffer(m) PROVE NumbersAreSound'
  <2> DEFINE c == Command("SET_OFFER_MON", 3, m)
  <2>1. UNCHANGED <<txid, wire, bridgeVars, gbaVars>> /\ pc' = "offer_ready" /\ cmds' = Append(cmds, c)
    BY <1>4 DEF SetOffer
  <2>2. txid \in 0..MaxHosts /\ txid <= txid
    BY DEF TypeOK, HostTyped
  <2>3. c \in Commands /\ c.type = "SET_OFFER_MON" /\ c.txid = txid /\ c.sequence = 3
    BY <2>1, <2>2 DEF Command, Commands, CommandTypes
  <2> HIDE DEF c
  <2>4. HellosAreNew'
    BY <2>1, <2>2, <2>3, AppendKeepsHellos
  <2> QED
    BY <1>b, <2>1, <2>4, HarmlessKeepsSound DEF NumbersAreSound, WaitsAreSound
<1>5. ASSUME NEW k \in DOMAIN wire, Read(k) PROVE NumbersAreSound'
  <2>1. UNCHANGED <<txid, cmds, bridgeVars, gbaVars>> /\ wire' = SubSeq(wire, k + 1, Len(wire))
    BY <1>5 DEF Read
  <2>2. Harmless({}) /\ WaitsAreSound'
    BY <1>5, ReadKeepsWaits
  <2>3. FramesAreNumbered'
    BY <2>1, <2>2, SentKeepsNumbers DEF Harmless, TypeOK, BridgeTyped
  <2> QED
    BY <2>1, <2>2, <2>3, HarmlessKeepsSound DEF NumbersAreSound, HellosAreNew, ReportsChosen
<1>6. CASE Discard
  <2>1. UNCHANGED <<txid, wire, bridgeVars, gbaVars>> /\ UNCHANGED hostVars
        /\ cmds # <<>> /\ cmds' = Tail(cmds)
    BY <1>6 DEF Discard, hostVars
  <2> QED
    BY <1>a, <1>b, <2>1, TailKeepsHellos
<1>7. CASE HandleHello
  <2> DEFINE h == Head(cmds)
  <2>1. /\ cmds # <<>> /\ h.type = "HELLO" /\ cmds' = Tail(cmds) /\ UNCHANGED <<hostVars, gbaVars>>
        /\ m_transactionId' = h.txid /\ m_sendSequence' = 1 /\ txid' = txid
        /\ UNCHANGED <<m_offer, m_offerReady, m_selected>>
    BY <1>7 DEF HandleHello, Handled, hostVars
  <2>2. m_transactionId < h.txid /\ h.txid <= txid /\ h.txid \in Nat /\ m_transactionId \in Nat /\ txid \in Nat
    <3>1. 1 \in DOMAIN cmds /\ h = cmds[1] /\ h \in Commands
      BY <2>1, TailElements DEF TypeOK, StreamTyped
    <3> QED
      BY <2>1, <3>1, BoundsAssumption DEF HellosAreNew, Commands, TypeOK, BridgeTyped, HostTyped
  <2>3. HellosAreNew'
    BY <2>1, TailKeepsHellos
  <2>4. ~OfferStands
    BY <2>2 DEF OfferStands
  <2>5. Sent({Hello(h.txid)}) /\ Hello(h.txid).type = "HELLO" /\ Hello(h.txid).sequence = 1
        /\ Hello(h.txid).txid = h.txid
    BY <1>7, HelloSends DEF Hello
  <2>6. Harmless({Hello(h.txid)})
    BY <2>1, <2>4, <2>5 DEF Harmless, Marks
  <2>7. FramesAreNumbered'
    <3> SUFFICES ASSUME NEW i \in DOMAIN wire'
                 PROVE  /\ wire'[i].txid <= h.txid
                        /\ wire'[i].txid = h.txid => wire'[i].sequence <= 1
      BY <2>1 DEF FramesAreNumbered
    <3>1. CASE wire'[i] = Hello(h.txid)
      BY <2>2, <2>5, <3>1
    <3>2. CASE Old(wire'[i])
      <4>1. PICK k \in DOMAIN wire : wire'[i].txid = wire[k].txid
        BY <3>2 DEF Old
      <4>2. wire[k].txid \in Nat /\ wire[k].txid <= m_transactionId
        BY BoundsAssumption DEF TypeOK, StreamTyped, WellFormed, FramesAreNumbered
      <4> QED
        BY <2>2, <4>1, <4>2
    <3> QED
      BY <2>5, <3>1, <3>2 DEF Sent
  <2>8. ReportsChosen'
    BY <2>1 DEF ReportsChosen
  <2> QED
    BY <1>a, <2>1, <2>3, <2>6, <2>7, <2>8
<1>8. CASE HandleGetCapabilities
  <2> DEFINE f == Frame(1, "CAPABILITIES", <<TRUE>>)
  <2>1. /\ cmds # <<>> /\ cmds' = Tail(cmds) /\ UNCHANGED <<hostVars, gbaVars>> /\ txid' = txid
        /\ UNCHANGED <<m_offer, m_offerReady, m_selected>>
        /\ m_lastReceivedSequence' = Head(cmds).sequence
    BY <1>8 DEF HandleGetCapabilities, Handled, hostVars
  <2>2. FramesAreNumbered' /\ Sent({f}) /\ m_transactionId' = m_transactionId
    BY <1>8, BridgeTypes, SendCounts DEF HandleGetCapabilities
  <2>3. ~OfferStands
    BY <1>8, HandledTyped DEF HandleGetCapabilities, Handled, Passes, OfferStands, Commands
  <2>4. Harmless({f})
    BY <2>1, <2>2, <2>3, FrameFields DEF Harmless, Marks
  <2>5. HellosAreNew' /\ ReportsChosen'
    BY <2>1, <2>2, TailKeepsHellos DEF ReportsChosen
  <2> QED
    BY <1>a, <2>1, <2>2, <2>4, <2>5
<1>9. CASE HandleSetOffer
  <2> DEFINE f == Frame(1, "OFFER_READY", <<0, Head(cmds).mon>>)
  <2>1. /\ cmds # <<>> /\ cmds' = Tail(cmds) /\ UNCHANGED <<hostVars, gbaVars>> /\ txid' = txid
        /\ m_lastReceivedSequence' = Head(cmds).sequence
        /\ m_offerReady' = TRUE /\ m_selected' = m_selected
    BY <1>9 DEF HandleSetOffer, Handled, hostVars
  <2>2. FramesAreNumbered' /\ Sent({f}) /\ m_transactionId' = m_transactionId
    BY <1>9, BridgeTypes, SendCounts DEF HandleSetOffer
  <2>3. ~OfferStands
    BY <1>9, OfferIsLast DEF HandleSetOffer
  <2>4. m_lastReceivedSequence' = 3
    <3>1. 1 \in DOMAIN cmds /\ Head(cmds) = cmds[1] /\ Head(cmds).type = "SET_OFFER_MON"
      BY <1>9, <2>1, TailElements DEF HandleSetOffer, Handled, TypeOK, StreamTyped
    <3> QED
      BY <2>1, <3>1 DEF HellosAreNew
  <2>5. f.type = "OFFER_READY" /\ f.txid = m_transactionId /\ f.sequence = m_sendSequence + 1
    BY FrameFields
  <2> HIDE DEF f
  <2>6. Harmless({f})
    BY <2>1, <2>2, <2>3, <2>4, <2>5 DEF Harmless, Marks, OfferStands
  <2>7. HellosAreNew' /\ ReportsChosen'
    BY <2>1, <2>2, TailKeepsHellos DEF ReportsChosen
  <2> QED
    BY <1>a, <2>1, <2>2, <2>6, <2>7
<1>10. ASSUME NEW p \in Parties, SessionStarted(p) PROVE NumbersAreSound'
  <2> DEFINE f == Frame(1, "TRADE_SESSION_STARTED", <<>>)
  <2>1. /\ UNCHANGED <<hostVars, cmds, m_lastReceivedSequence, m_offer, m_offerReady, m_selected, trades, closes>>
        /\ txid' = txid /\ session' = "started"
    BY <1>10 DEF SessionStarted, hostVars
  <2>2. FramesAreNumbered' /\ Sent({f}) /\ m_transactionId' = m_transactionId
    BY <1>10, BridgeTypes, SendCounts DEF SessionStarted
  <2>3. f.type = "TRADE_SESSION_STARTED" /\ f.txid = m_transactionId /\ f.sequence = m_sendSequence + 1
    BY FrameFields
  <2> HIDE DEF f
  <2>4. Harmless({f})
    BY <2>1, <2>2, <2>3 DEF Harmless, Marks, OfferStands
  <2>5. HellosAreNew' /\ ReportsChosen'
    BY <2>1, <2>2 DEF HellosAreNew, ReportsChosen
  <2> QED
    BY <1>a, <2>1, <2>2, <2>4, <2>5
<1>11. CASE PartnerPartyReady
  <2> DEFINE f == Frame(1, "PARTNER_PARTY", <<gbaParty>>)
  <2>1. /\ UNCHANGED <<hostVars, cmds, m_lastReceivedSequence, m_offer, m_offerReady, m_selected, trades, closes>>
        /\ txid' = txid /\ session' = "party"
    BY <1>11 DEF PartnerPartyReady, hostVars
  <2>2. gbaParty \in Parties
    BY <1>11 DEF PartnerPartyReady, TypeOK, GbaTyped
  <2>3. FramesAreNumbered' /\ Sent({f}) /\ m_transactionId' = m_transactionId
    BY <1>11, <2>2, BridgeTypes, SendCounts DEF PartnerPartyReady
  <2>4. f.type = "PARTNER_PARTY"
    BY FrameFields
  <2> HIDE DEF f
  <2>5. Harmless({f})
    BY <2>1, <2>3, <2>4 DEF Harmless, Marks, OfferStands
  <2>6. HellosAreNew' /\ ReportsChosen'
    BY <2>1, <2>3 DEF HellosAreNew, ReportsChosen
  <2> QED
    BY <1>a, <2>1, <2>3, <2>5, <2>6
<1>12. ASSUME NEW n \in PartnerSlots, Select(n) PROVE NumbersAreSound'
  <2>1. /\ UNCHANGED <<hostVars, cmds, m_lastReceivedSequence, m_offer, m_offerReady, trades, closes, gbaParty>>
        /\ txid' = txid
    BY <1>12 DEF Select, hostVars
  <2>2. CASE m_offerReady /\ n <= 5
    <3> DEFINE f == Frame(1, "PARTNER_SELECTED_SLOT", <<n>>)
    <3> DEFINE g == Frame(2, "PARTNER_SELECTED_MON", <<gbaParty[n]>>)
    <3>1. /\ wire' = wire \o <<f, g>> /\ m_sendSequence' = m_sendSequence + 2
          /\ m_selected' = gbaParty[n] /\ m_transactionId' = m_transactionId
          /\ session' = "selected" /\ partnerSlot' = n
      BY <1>12, <2>2 DEF Select
    <3>2. WellFormed(f) /\ WellFormed(g)
      <4>1. n \in 0..5 /\ gbaParty[n] \in Mons
        BY <1>12, <2>2, SelectAssumption, PartyMons DEF Select, TypeOK, GbaTyped
      <4> QED
        BY <4>1, FrameWellFormed, BridgeTypes DEF TypeOK
    <3>3. /\ f.type = "PARTNER_SELECTED_SLOT" /\ f.txid = m_transactionId /\ f.sequence = m_sendSequence + 1
          /\ g.type = "PARTNER_SELECTED_MON" /\ g.txid = m_transactionId /\ g.sequence = m_sendSequence + 2
      BY FrameFields
    <3> HIDE DEF f, g
    <3>4. Sent({f, g})
      BY <3>1, <3>2, PairSends
    <3>5. FramesAreNumbered'
      BY <3>1, <3>3, <3>4, SentKeepsNumbers DEF TypeOK, BridgeTyped
    <3>6. Harmless({f, g})
      BY <2>1, <3>1, <3>3, <3>4 DEF Harmless, Marks, OfferStands
    <3>7. HellosAreNew' /\ ReportsChosen'
      BY <2>1, <2>2, <3>1 DEF HellosAreNew, ReportsChosen
    <3> QED
      BY <1>a, <2>1, <3>5, <3>6, <3>7
  <2>3. CASE ~(m_offerReady /\ n <= 5)
    <3> DEFINE f == Frame(1, "ERROR", <<4>>)
    <3>1. Send("ERROR", <<4>>) /\ m_selected' = m_selected /\ session' = "refused"
      BY <1>12, <2>3 DEF Select
    <3>2. FramesAreNumbered' /\ Sent({f}) /\ m_transactionId' = m_transactionId
      BY <3>1, BridgeTypes, SendCounts
    <3>3. f.type = "ERROR"
      BY FrameFields
    <3> HIDE DEF f
    <3>4. Harmless({f})
      BY <2>1, <3>1, <3>2, <3>3 DEF Harmless, Marks, OfferStands
    <3>5. HellosAreNew' /\ ReportsChosen'
      BY <2>1, <2>3, <3>1, <3>2 DEF HellosAreNew, ReportsChosen
    <3> QED
      BY <1>a, <2>1, <3>2, <3>4, <3>5
  <2> QED
    BY <2>2, <2>3
<1>13. CASE Swap
  <2> DEFINE t == [txid |-> m_transactionId, offer |-> m_offer,
                   given |-> gbaParty[partnerSlot], got |-> shown]
  <2>1. /\ UNCHANGED <<hostVars, cmds, wire, bridgeVars, gbaParty, partnerSlot, closes>> /\ txid' = txid
        /\ (session' = "swapped" /\ session = "selected") \/ session' = "unseen"
        /\ trades' = trades \cup {t}
    BY <1>13 DEF Swap, hostVars, streamVars
  <2>2. OfferStands /\ session' = "swapped" => Backs(Evidence', txid, <<m_offer', m_selected'>>)
    <3> SUFFICES ASSUME OfferStands, session' = "swapped"
                 PROVE  Backs(Evidence', txid, <<m_offer', m_selected'>>)
      OBVIOUS
    <3>1. m_selected = gbaParty[partnerSlot]
      BY <2>1 DEF ReportsChosen
    <3>2. t \in Evidence' /\ t.txid = m_transactionId /\ t.offer = m_offer /\ t.given = m_selected
      BY <2>1, <3>1
    <3> HIDE DEF t
    <3> QED
      BY <2>1, <3>2 DEF Backs, OfferStands
  <2>3. Harmless({})
    BY <2>1, <2>2, NothingSent DEF Harmless, OfferStands
  <2>4. HellosAreNew' /\ FramesAreNumbered' /\ ReportsChosen'
    BY <2>1 DEF HellosAreNew, FramesAreNumbered, ReportsChosen
  <2> QED
    BY <1>a, <2>1, <2>3, <2>4
<1>14. CASE Committed
  <2> DEFINE f == Frame(1, "TRADE_COMMITTED", <<m_offer, m_selected>>)
  <2>1. /\ UNCHANGED <<hostVars, cmds, m_lastReceivedSequence, m_offer, m_offerReady, m_selected, trades>>
        /\ txid' = txid /\ session' = "closing" /\ closes \subseteq closes'
    BY <1>14 DEF Committed, hostVars
  <2>2. FramesAreNumbered' /\ Sent({f}) /\ m_transactionId' = m_transactionId
    BY <1>14, BridgeTypes, SendCounts DEF Committed
  <2>3. f.type = "TRADE_COMMITTED" /\ f.txid = m_transactionId /\ f.sequence = m_sendSequence + 1
        /\ f.body = <<m_offer, m_selected>>
    BY FrameFields
  <2> HIDE DEF f
  <2>4. \/ session = "swapped" /\ f.body = <<m_offer, m_selected>>
        \/ Backs(Evidence', f.txid, f.body)
    <3> DEFINE e == [txid |-> m_transactionId, offer |-> m_offer, given |-> m_selected]
    <3>1. session # "swapped" => e \in Evidence'
      BY <1>14 DEF Committed
    <3>2. e.txid = f.txid /\ f.body = <<e.offer, e.given>>
      BY <2>3
    <3> HIDE DEF e
    <3> QED
      BY <2>3, <3>1, <3>2 DEF Backs
  <2>5. Harmless({f})
    BY <2>1, <2>2, <2>3, <2>4 DEF Harmless, Marks, OfferStands
  <2>6. HellosAreNew' /\ ReportsChosen'
    BY <2>1, <2>2 DEF HellosAreNew, ReportsChosen
  <2> QED
    BY <1>a, <2>1, <2>2, <2>5, <2>6
<1>15. CASE LinkClosed
  <2> DEFINE f == Frame(1, "TRADE_LINK_CLOSED", <<0>>)
  <2>1. /\ UNCHANGED <<hostVars, cmds, m_lastReceivedSequence, m_offer, m_offerReady, m_selected, trades, closes>>
        /\ txid' = txid /\ session' = "closed"
    BY <1>15 DEF LinkClosed, hostVars
  <2>2. FramesAreNumbered' /\ Sent({f}) /\ m_transactionId' = m_transactionId
    BY <1>15, BridgeTypes, SendCounts DEF LinkClosed
  <2>3. f.type = "TRADE_LINK_CLOSED"
    BY FrameFields
  <2> HIDE DEF f
  <2>4. Harmless({f})
    BY <2>1, <2>2, <2>3 DEF Harmless, Marks, OfferStands
  <2>5. HellosAreNew' /\ ReportsChosen'
    BY <2>1, <2>2 DEF HellosAreNew, ReportsChosen
  <2> QED
    BY <1>a, <2>1, <2>2, <2>4, <2>5
<1>16. ASSUME NEW fault \in Faults, NEW i \in DOMAIN wire, StreamFault(fault, i)
       PROVE  NumbersAreSound'
  <2>1. UNCHANGED <<hostVars, cmds, bridgeVars, gbaVars>> /\ txid' = txid
    BY <1>16 DEF StreamFault, hostVars
  <2>2. Sent({})
    BY <1>16, FaultSendsNothing
  <2>3. Harmless({})
    BY <2>1, <2>2 DEF Harmless, OfferStands
  <2>4. FramesAreNumbered'
    BY <2>1, <2>2, SentKeepsNumbers DEF TypeOK, BridgeTyped
  <2>5. HellosAreNew' /\ ReportsChosen'
    BY <2>1 DEF HellosAreNew, ReportsChosen
  <2> QED
    BY <1>a, <2>1, <2>3, <2>4, <2>5
<1>17. ASSUME NEW fault \in Faults \ {"damage"}, NEW i \in DOMAIN cmds, CommandFault(fault, i)
       PROVE  NumbersAreSound'
  <2>1. UNCHANGED <<hostVars, txid, wire, bridgeVars, gbaVars>>
    BY <1>17 DEF CommandFault, hostVars
  <2>2. cmds[i] \in Commands
    BY DEF TypeOK, StreamTyped
  <2>3. HellosAreNew'
    <3>1. CASE fault = "duplicate"
      <4>1. cmds' = Append(cmds, cmds[i]) /\ cmds[i].type # "HELLO"
        BY <1>17, <3>1 DEF CommandFault
      <4>2. cmds[i].txid <= txid /\ (cmds[i].type = "SET_OFFER_MON" => cmds[i].sequence = 3)
        BY DEF HellosAreNew
      <4> QED
        BY <2>1, <2>2, <4>1, <4>2, AppendKeepsHellos
    <3>2. CASE fault # "duplicate"
      BY <1>17, <2>1, <3>2, WithoutKeepsHellos DEF CommandFault
    <3> QED
      BY <3>1, <3>2
  <2> QED
    BY <1>a, <1>b, <2>1, <2>3
<1>18. CASE UNCHANGED vars
  BY <1>18, <1>a, <1>b DEF HellosAreNew, vars, hostVars, streamVars
<1> QED
  BY <1>1, <1>2, <1>3, <1>4, <1>5, <1>6, <1>7, <1>8, <1>9, <1>10, <1>11, <1>12, <1>13, <1>14,
     <1>15, <1>16, <1>17, <1>18, Zenon DEF Next, Host, Device, Stream

\* A HELLO that was repeated stays so.
LEMMA HellosStayRepeated ==
    ASSUME TypeOK, [Next]_vars, faults.hello
    PROVE  faults'.hello
<1>1. CASE Host
  <2>1. \A k : Read(k) => UNCHANGED faults
    BY DEF Read
  <2>2. Connect \/ WaitFails \/ Close => UNCHANGED faults
    BY DEF Connect, WaitFails, Close, streamVars
  <2>3. \A m : SetOffer(m) => UNCHANGED faults
    BY DEF SetOffer
  <2> QED
    BY <1>1, <2>1, <2>2, <2>3 DEF Host
<1>2. CASE Device
  <2>1. Discard \/ HandleHello \/ HandleGetCapabilities \/ HandleSetOffer => UNCHANGED faults
    BY DEF Discard, HandleHello, HandleGetCapabilities, HandleSetOffer
  <2>2. \A p : SessionStarted(p) => UNCHANGED faults
    BY DEF SessionStarted
  <2>3. \A n : Select(n) => UNCHANGED faults
    BY DEF Select
  <2>4. PartnerPartyReady \/ Swap \/ Committed \/ LinkClosed => UNCHANGED faults
    BY DEF PartnerPartyReady, Swap, Committed, LinkClosed, streamVars
  <2> QED
    BY <1>2, <2>1, <2>2, <2>3, <2>4 DEF Device
<1>3. ASSUME NEW fault \in Faults, NEW i \in DOMAIN wire, StreamFault(fault, i)
      PROVE  faults'.hello
  BY <1>3 DEF StreamFault, TypeOK, StreamTyped, FaultsSoFar
<1>4. ASSUME NEW fault \in Faults, NEW i \in DOMAIN cmds, CommandFault(fault, i)
      PROVE  faults'.hello
  BY <1>4 DEF CommandFault
<1>5. CASE UNCHANGED vars
  BY <1>5 DEF vars, streamVars
<1> QED
  BY <1>1, <1>2, <1>3, <1>4, <1>5 DEF Next, Stream

\* However often the stream loses, damages or repeats frames, transactions and
\* sequence numbers keep a TRADE_COMMITTED apart from any earlier session's or
\* endpoint's, until a HELLO is delivered twice and Bridge::handle starts the
\* numbers again.
THEOREM EvidenceIsInvariant == Spec => []EvidenceInvariant
<1>1. Init => EvidenceInvariant
  <2> SUFFICES ASSUME Init PROVE EvidenceInvariant
    OBVIOUS
  <2>1. HellosAreNew /\ FramesAreNumbered /\ ReportsChosen
    BY DEF Init, HellosAreNew, FramesAreNumbered, ReportsChosen
  <2>2. OffersAreSound /\ WaitsAreSound
    BY DEF Init, OffersAreSound, WaitsAreSound
  <2> QED
    BY <2>1, <2>2 DEF EvidenceInvariant, NumbersAreSound
<1>2. TypeOK /\ EvidenceInvariant /\ [Next]_vars => EvidenceInvariant'
  <2> SUFFICES ASSUME TypeOK, ~faults.hello => NumbersAreSound, [Next]_vars, ~faults'.hello
               PROVE  NumbersAreSound'
    BY DEF EvidenceInvariant
  <2>1. ~faults.hello
    BY HellosStayRepeated
  <2> QED
    BY <2>1, EvidenceStep
<1> QED
  BY <1>1, <1>2, EndpointTypes, PTL DEF Spec

\* What trade_once returns is a trade that really happened in its transaction,
\* for its offer and with the record it names, or the player closed the link
\* right there without it, the one thing committed() itself leaves open: for any
\* offers and parties, any number of endpoints, sessions, selections and refused
\* selections, and any number of frames lost, damaged or repeated, as long as no
\* HELLO was delivered twice.
THEOREM ReturnedTradesAreReal == Spec => [](~faults.hello => EvidenceIsReal)
<1>1. EvidenceInvariant => (~faults.hello => EvidenceIsReal)
  <2> SUFFICES ASSUME EvidenceInvariant, ~faults.hello, pc = "returned"
               PROVE  \E e \in trades \cup closes :
                        e.txid = txid /\ e.offer = offer /\ e.given = selected
    BY DEF EvidenceIsReal
  <2>1. Backs(trades \cup closes, txid, <<offer, selected>>)
    BY DEF EvidenceInvariant, NumbersAreSound, WaitsAreSound, Evidence
  <2> QED
    BY <2>1 DEF Backs
<1> QED
  BY <1>1, EvidenceIsInvariant, PTL

=============================================================================
