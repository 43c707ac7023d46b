------------------------- MODULE GbLinkEndpointInv -------------------------
(***************************************************************************)
(* Why the endpoint's evidence is real: an inductive invariant about the   *)
(* sequence numbers of the frames in the stream.  It holds until a HELLO   *)
(* is delivered twice, since HELLO starts the numbers of its transaction   *)
(* over; every other fault is allowed any number of times.                 *)
(***************************************************************************)
EXTENDS GbLinkEndpoint

\* The endpoint numbers its commands, and the bridge has not seen the
\* transactions that a HELLO on its way will open, one after the other.
HellosAreNew ==
    /\ m_transactionId <= txid
    /\ \A i \in DOMAIN cmds :
        /\ cmds[i].txid <= txid
        /\ cmds[i].type = "SET_OFFER_MON" => cmds[i].sequence = 3
        /\ cmds[i].type = "HELLO" => m_transactionId < cmds[i].txid
    /\ \A i, j \in DOMAIN cmds :
        i < j /\ cmds[i].type = "HELLO" /\ cmds[j].type = "HELLO" => cmds[i].txid < cmds[j].txid

\* No frame carries a number that the bridge has still to use.
FramesAreNumbered ==
    \A i \in DOMAIN wire :
        /\ wire[i].txid <= m_transactionId
        /\ wire[i].txid = m_transactionId => wire[i].sequence <= m_sendSequence

\* Once select has accepted it, the bridge has the record the player chose.
ReportsChosen == session \in {"selected", "swapped"} => m_selected = gbaParty[partnerSlot]

\* The trades made, and the links closed without one.
Evidence == trades \cup closes

\* One of these is of transaction t and says what the body of a TRADE_COMMITTED
\* says.
Backs(es, t, body) ==
    \E e \in es : e.txid = t /\ body = <<e.offer, e.given>>

\* A frame of this type and of the endpoint's transaction, numbered above n.
Arriving(type, n, i) ==
    wire[i].type = type /\ wire[i].txid = txid /\ n < wire[i].sequence

\* The bridge has the offer, and takes neither another nor a new transaction.
OfferStands == m_transactionId = txid /\ m_lastReceivedSequence = 3

\* Each TRADE_COMMITTED numbered above n is about a trade or a bare close of this
\* transaction, and so is the one that the bridge sends after a trade.
Sound(n) ==
    /\ OfferStands
    /\ session = "swapped" => Backs(Evidence, txid, <<m_offer, m_selected>>)
    /\ \A i \in DOMAIN wire :
        Arriving("TRADE_COMMITTED", n, i) => Backs(Evidence, txid, wire[i].body)

\* From the offer's OFFER_READY on, a session start makes what follows sound.
SoundOnceStarted(n) ==
    /\ OfferStands
    /\ \A i \in DOMAIN wire :
        Arriving("TRADE_SESSION_STARTED", n, i) => Sound(wire[i].sequence)

OffersAreSound ==
    \A i \in DOMAIN wire :
        Arriving("OFFER_READY", 0, i) => SoundOnceStarted(wire[i].sequence)

\* What trade_once may conclude from what arrives in each of its waits.
WaitsAreSound ==
    /\ pc = "started" => SoundOnceStarted(last)
    /\ pc \in {"party", "slot", "mon", "committed"} => Sound(last)
    /\ pc \in {"closed", "returned"} => Backs(Evidence, txid, <<offer, selected>>)

\* A TRADE_COMMITTED can only be accepted after an OFFER_READY, then a session
\* start, of the same transaction: numbers that never repeat make it evidence
\* for that offer.
NumbersAreSound ==
    /\ HellosAreNew
    /\ FramesAreNumbered
    /\ ReportsChosen
    /\ OffersAreSound
    /\ WaitsAreSound

\* As long as setTransaction has not run twice for one HELLO, whatever commit
\* ReplayWindow and the waits of trade_once would still let through is a trade,
\* or a link closed without one, in the endpoint's own transaction.  Inductive
\* once types are known.
EvidenceInvariant == ~faults.hello => NumbersAreSound

=============================================================================
