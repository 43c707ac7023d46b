--------------------------- MODULE GbLinkEndpoint ---------------------------
(***************************************************************************)
(* GbLinkEndpoint of broker/gba/gb_link.py, which turns frames from the    *)
(* GB-Link adapter into a GbaTradeResult, against the TradeBridge of       *)
(* firmware/gb-link and a GBA player who enters, selects, cancels, trades  *)
(* or leaves whenever she likes.                                           *)
(*                                                                         *)
(* Frames are whole: one read delivers one or more of them, the list that  *)
(* FrameDecoder.feed returns.  A frame's CRC is its field intact, a SHA-256 *)
(* is the record it was computed from, and offer_slot is 0, its default.   *)
(* Codec::consume as written discards every HELLO, whose transaction id it *)
(* has not seen yet; HelloOpens = TRUE lets HELLO through, so that what    *)
(* comes after the handshake can be studied at all.                        *)
(***************************************************************************)
EXTENDS Integers, Sequences, FiniteSetsExt

CONSTANTS
    Offers,        \* records the broker may offer
    Parties,       \* parties the GBA may bring: functions on 0..5
    Filler,        \* what the emulated party holds in slot 0 at boot
    NoMon,
    PartnerSlots,  \* what LINKCMD_READY_TO_TRADE may name, a byte
    HelloOpens,    \* FALSE: Codec::consume as written
    Faults,        \* what the USB stream may do to a frame
    MaxHosts,      \* bound: endpoints opened in one behaviour
    MaxSessions,   \* bound: trade sessions the GBA starts
    MaxInputs,     \* bound: selections, and parties sent once more
    MaxFaults,     \* bound: frames it does that to
    MaxWire        \* bound: frames in the stream at once

Mons == Offers \cup {Filler} \cup UNION {{p[n] : n \in 0..5} : p \in Parties}

ASSUME MonsAssumption == NoMon \notin Mons
ASSUME PartiesAssumption == \A p \in Parties : DOMAIN p = 0..5
ASSUME SelectAssumption == PartnerSlots \subseteq 0..255
ASSUME HelloAssumption == HelloOpens \in BOOLEAN
ASSUME FaultsAssumption == Faults \subseteq {"duplicate", "lose", "damage"}
ASSUME BoundsAssumption == {MaxHosts, MaxSessions, MaxInputs, MaxFaults, MaxWire} \subseteq Nat

VARIABLES
    (* the endpoint *)
    pc,            \* the wait trade_once is in
    txid,          \* self._txid
    last,          \* self._replay, for the own transaction id
    offer, party, selected_slot, selected, link_closed,
    error,         \* what was raised
    (* the stream *)
    cmds,          \* frames on their way to the device
    wire,          \* frames on their way to the endpoint
    faults,        \* observation: how many there were, and a HELLO repeated
    (* the bridge *)
    m_transactionId, m_sendSequence, m_lastReceivedSequence,
    m_offer, m_offerReady, m_selected,
    (* the emulated party and the GBA *)
    slot0,         \* the emulated slot 0
    shown,         \* its content when the session started: what the GBA sees
    session, sessions, inputs, gbaParty, partnerSlot,
    trades,        \* observation: the irreversible trades, as Trade
    closes         \* observation: links closed without the trade reported

objectVars  == <<last, offer, party, selected_slot, selected, link_closed, error>>
hostVars    == <<pc, txid, objectVars>>
streamVars  == <<cmds, wire, faults>>
codecVars   == <<m_transactionId, m_sendSequence, m_lastReceivedSequence>>
bridgeVars  == <<codecVars, m_offer, m_offerReady, m_selected>>
gbaVars     == <<slot0, shown, session, sessions, inputs, gbaParty, partnerSlot, trades, closes>>
vars        == <<hostVars, streamVars, bridgeVars, gbaVars>>

\* What each wait of connect and trade_once asks _wait_for.
Wanted ==
    [capabilities |-> {"CAPABILITIES"},
     offer_ready  |-> {"OFFER_READY"},
     started      |-> {"TRADE_SESSION_STARTED"},
     party        |-> {"PARTNER_PARTY"},
     slot         |-> {"PARTNER_SELECTED_SLOT"},
     mon          |-> {"PARTNER_SELECTED_MON"},
     committed    |-> {"TRADE_COMMITTED", "TRADE_ABORTED", "ERROR"},
     closed       |-> {"TRADE_LINK_CLOSED", "ERROR"}]

Waits == DOMAIN Wanted

EventTypes == {"HELLO"} \cup UNION {Wanted[w] : w \in Waits}

\* refused: select answered with an error, and the link goes on without it.
\* unseen: the trade that was made then.
Sessions == {"none", "started", "party", "selected", "refused", "swapped", "unseen",
             "closing", "closed"}
HostErrors == {"none", "ProtocolError", "EndpointError", "CommitNotConfirmed"}

CommandTypes == {"HELLO", "GET_CAPABILITIES", "SET_OFFER_MON"}
Commands == [type : CommandTypes, txid : 0..MaxHosts, sequence : 1..3, mon : Offers \cup {NoMon}]

\* What the bridge puts in the frames whose content trade_once keeps.
WellFormed(f) ==
    /\ DOMAIN f = {"type", "txid", "sequence", "intact", "body"}
    /\ f.type \in EventTypes /\ f.txid \in 0..MaxHosts /\ f.sequence \in Nat
    /\ f.intact \in BOOLEAN
    /\ f.type = "PARTNER_PARTY" => f.body[1] \in Parties
    /\ f.type = "PARTNER_SELECTED_SLOT" => f.body[1] \in 0..5
    /\ f.type = "PARTNER_SELECTED_MON" => f.body[1] \in Mons

\* A trade under the bridge's transaction and offer: the GBA gave and got.
Trade == [txid : 0..MaxHosts, offer : Offers \cup {NoMon}, given : Mons, got : Mons]

\* What the bridge had, and no trade made true, when the GBA closed the link.
BareClose == [txid : 0..MaxHosts, offer : Offers \cup {NoMon}, given : Mons \cup {NoMon}]

HostTyped ==
    /\ pc \in Waits \cup {"down", "connected", "returned", "raised"}
    /\ txid \in 0..MaxHosts /\ last \in Nat
    /\ offer \in Offers \cup {NoMon} /\ selected \in Mons \cup {NoMon}
    /\ pc \in {"committed", "closed", "returned"} => selected \in Mons
    /\ party \in Parties \cup {<<>>}
    /\ selected_slot \in 0..5 /\ link_closed \in BOOLEAN
    /\ error \in HostErrors

FaultsSoFar == [number : 0..MaxFaults, hello : BOOLEAN]

StreamTyped ==
    /\ cmds \in Seq(Commands)
    /\ wire = [i \in 1..Len(wire) |-> wire[i]] /\ Len(wire) \in Nat
    /\ \A i \in DOMAIN wire : WellFormed(wire[i])
    /\ faults \in FaultsSoFar

BridgeTyped ==
    /\ m_transactionId \in 0..MaxHosts
    /\ m_sendSequence \in Nat /\ m_lastReceivedSequence \in 0..3
    /\ m_offer \in Offers \cup {NoMon} /\ m_offerReady \in BOOLEAN
    /\ m_selected \in Mons \cup {NoMon}

GbaTyped ==
    /\ slot0 \in Mons /\ shown \in Mons
    /\ session \in Sessions /\ sessions \in 0..MaxSessions /\ inputs \in 0..MaxInputs
    /\ gbaParty \in Parties \cup {<<>>} /\ partnerSlot \in 0..5
    /\ session # "none" => gbaParty \in Parties
    /\ trades \subseteq Trade /\ closes \subseteq BareClose

TypeOK == HostTyped /\ StreamTyped /\ BridgeTyped /\ GbaTyped

Init ==
    /\ pc = "down" /\ txid = 0
    /\ last = 0 /\ offer = NoMon /\ party = <<>>
    /\ selected_slot = 0 /\ selected = NoMon /\ link_closed = FALSE
    /\ error = "none"
    /\ cmds = <<>> /\ wire = <<>> /\ faults = [number |-> 0, hello |-> FALSE]
    /\ m_transactionId = 0 /\ m_sendSequence = 0 /\ m_lastReceivedSequence = 0
    /\ m_offer = NoMon /\ m_offerReady = FALSE /\ m_selected = NoMon
    /\ slot0 = Filler /\ shown = Filler
    /\ session = "none" /\ sessions = 0 /\ inputs = 0
    /\ gbaParty = <<>> /\ partnerSlot = 0 /\ trades = {} /\ closes = {}

----------------------------------------------------------------------------
(***************************************************************************)
(* The endpoint.                                                           *)
(***************************************************************************)

\* _send, with the value self._out_sequence has for each command.
Command(type, sequence, m) ==
    [type |-> type, txid |-> txid', sequence |-> sequence, mon |-> m]

\* connect or trade_once raises e; its local variables are gone.
Raise(e) ==
    /\ pc' = "raised" /\ error' = e
    /\ offer' = NoMon /\ party' = <<>>
    /\ selected_slot' = 0 /\ selected' = NoMon /\ link_closed' = FALSE

\* A new endpoint object: fresh transaction id, decoder and replay window.
\* What an earlier one left unread may or may not survive reopening the port.
Connect ==
    /\ pc = "down"
    /\ txid < MaxHosts
    /\ txid' = txid + 1
    /\ pc' = "capabilities"
    /\ UNCHANGED objectVars
    /\ cmds' = cmds \o <<Command("HELLO", 1, NoMon), Command("GET_CAPABILITIES", 2, NoMon)>>
    /\ wire' \in {wire, <<>>}
    /\ UNCHANGED <<faults, bridgeVars, gbaVars>>

\* trade_once up to its first wait; the coordinator has refused Mail.
SetOffer(m) ==
    /\ pc = "connected"
    /\ pc' = "offer_ready"
    /\ offer' = m
    /\ UNCHANGED <<txid, last, party, selected_slot, selected, link_closed, error>>
    /\ cmds' = Append(cmds, Command("SET_OFFER_MON", 3, m))
    /\ UNCHANGED <<wire, faults, bridgeVars, gbaVars>>

\* Mutant: the transaction id is not looked at.
RefusedOld(chunk, i) ==
    chunk[i].sequence <= IF i = 1 THEN last ELSE chunk[i - 1].sequence

\* ReplayWindow.accept and the transaction check, for frame i of a chunk
\* whose earlier frames were all accepted.
Refused(chunk, i) ==
    \/ chunk[i].txid # txid
    \/ chunk[i].sequence <= IF i = 1 THEN last ELSE chunk[i - 1].sequence

\* The frames that end the loop of _wait_for: refused, wanted, or an ERROR.
Stops(chunk) ==
    {i \in DOMAIN chunk : \/ Refused(chunk, i)
                          \/ chunk[i].type \in Wanted[pc] \cup {"ERROR"}}

\* Mutant: the hashes of TRADE_COMMITTED are not looked at.
ContradictsParty(f) ==
    CASE pc = "offer_ready" -> f.body # <<0, offer>>
      [] pc = "mon"         -> f.body[1] # party[selected_slot]
      [] OTHER              -> FALSE

\* trade_once's check of the frame each wait returns.
Contradicts(f) ==
    CASE pc = "capabilities" -> ~f.body[1]
      [] pc = "offer_ready"  -> f.body # <<0, offer>>
      [] pc = "slot"         -> f.body[1] > 5
      [] pc = "mon"          -> f.body[1] # party[selected_slot]
      [] pc = "committed"    -> f.type = "TRADE_COMMITTED" /\ f.body # <<offer, selected>>
      [] OTHER               -> FALSE

\* Mutant: the selected record is not waited for.
NextWaitNoMon ==
    [capabilities |-> "connected", offer_ready |-> "started", started |-> "party",
     party |-> "slot", slot |-> "committed", committed |-> "closed",
     closed |-> "returned"]

NextWait ==
    [capabilities |-> "connected", offer_ready |-> "started", started |-> "party",
     party |-> "slot", slot |-> "mon", mon |-> "committed", committed |-> "closed",
     closed |-> "returned"]

\* connect and trade_once go on with the wanted frame f; the frames after it
\* in its chunk are gone.
Accept(f) ==
    IF Contradicts(f)
    THEN Raise(IF pc = "capabilities" THEN "EndpointError" ELSE "ProtocolError")
    ELSE IF pc = "committed" /\ f.type # "TRADE_COMMITTED"
    THEN Raise("CommitNotConfirmed")
    ELSE /\ pc' = NextWait[pc]
         /\ party' = IF pc = "party" THEN f.body[1] ELSE party
         /\ selected_slot' = IF pc = "slot" THEN f.body[1] ELSE selected_slot
         /\ selected' = IF pc = "mon" THEN f.body[1] ELSE selected
         /\ link_closed' = IF pc = "closed" THEN f.type = "TRADE_LINK_CLOSED" /\ f.body = <<0>>
                           ELSE link_closed
         /\ UNCHANGED <<offer, error>>

Waiting == UNCHANGED <<pc, offer, party, selected_slot, selected, link_closed, error>>

\* The loop of _wait_for over the frames of one chunk.
Loop(chunk) ==
    IF Stops(chunk) = {}
    THEN Waiting /\ last' = chunk[Len(chunk)].sequence
    ELSE LET i == Min(Stops(chunk)) IN
         IF Refused(chunk, i)
         THEN Raise("ProtocolError") /\ UNCHANGED last
         ELSE /\ last' = chunk[i].sequence
              /\ IF chunk[i].type \in Wanted[pc]
                 THEN Accept(chunk[i])
                 ELSE Raise("EndpointError")

\* One transport.read: k frames become complete.  FrameDecoder.feed raises
\* on a damaged one and takes the others of the chunk with it.
Read(k) ==
    /\ pc \in Waits
    /\ k \in 1..Len(wire)
    /\ wire' = SubSeq(wire, k + 1, Len(wire))
    /\ LET chunk == SubSeq(wire, 1, k) IN
       IF \A i \in 1..k : chunk[i].intact
       THEN Loop(chunk)
       ELSE Raise("ProtocolError") /\ UNCHANGED last
    /\ UNCHANGED <<txid, cmds, faults, bridgeVars, gbaVars>>

\* The deadline of _wait_for, or an error of the transport.
WaitFails ==
    /\ pc \in Waits
    /\ Raise("EndpointError")
    /\ UNCHANGED <<txid, last, streamVars, bridgeVars, gbaVars>>

\* close, after the coordinator is done with the endpoint or died: the
\* object is gone.
Close ==
    /\ pc # "down"
    /\ pc' = "down"
    /\ last' = 0 /\ offer' = NoMon /\ party' = <<>>
    /\ selected_slot' = 0 /\ selected' = NoMon /\ link_closed' = FALSE
    /\ error' = "none"
    /\ UNCHANGED txid
    /\ UNCHANGED <<streamVars, bridgeVars, gbaVars>>

----------------------------------------------------------------------------
(***************************************************************************)
(* The bridge: Codec::consume, TradeBridge::handle and Codec::send.        *)
(***************************************************************************)

Frame(n, type, body) ==
    [type |-> type, txid |-> m_transactionId, sequence |-> m_sendSequence + n,
     intact |-> TRUE, body |-> body]

\* Bound: the device waits while the stream is full.
Room(n) == Len(wire) + n <= MaxWire

Send(type, body) ==
    /\ Room(1)
    /\ wire' = Append(wire, Frame(1, type, body))
    /\ m_sendSequence' = m_sendSequence + 1
    /\ UNCHANGED m_transactionId

\* Transaction id 0 is the codec's at boot; no endpoint has it.
Passes(c) ==
    \/ HelloOpens /\ c.type = "HELLO"
    \/ c.txid = m_transactionId /\ c.sequence > m_lastReceivedSequence

Handled(type) ==
    /\ cmds # <<>>
    /\ Head(cmds).type = type
    /\ Passes(Head(cmds))
    /\ cmds' = Tail(cmds)

Discard ==
    /\ cmds # <<>>
    /\ ~Passes(Head(cmds))
    /\ cmds' = Tail(cmds)
    /\ UNCHANGED <<hostVars, wire, faults, bridgeVars, gbaVars>>

HandleHello ==
    /\ Handled("HELLO")
    /\ Room(1)
    /\ m_transactionId' = Head(cmds).txid
    /\ m_sendSequence' = 1 /\ m_lastReceivedSequence' = 0
    /\ wire' = Append(wire, [type |-> "HELLO", txid |-> Head(cmds).txid, sequence |-> 1,
                             intact |-> TRUE, body |-> <<>>])
    /\ UNCHANGED <<hostVars, faults, m_offer, m_offerReady, m_selected, gbaVars>>

HandleGetCapabilities ==
    /\ Handled("GET_CAPABILITIES")
    /\ m_lastReceivedSequence' = Head(cmds).sequence
    /\ Send("CAPABILITIES", <<TRUE>>)
    /\ UNCHANGED <<hostVars, faults, m_offer, m_offerReady, m_selected, gbaVars>>

HandleSetOffer ==
    /\ Handled("SET_OFFER_MON")
    /\ m_lastReceivedSequence' = Head(cmds).sequence
    /\ m_offer' = Head(cmds).mon /\ m_offerReady' = TRUE
    /\ Send("OFFER_READY", <<0, Head(cmds).mon>>)
    /\ UNCHANGED <<hostVars, faults, m_selected, gbaVars>>

(***************************************************************************)
(* The GBA session, and the calls it makes into the bridge.                *)
(***************************************************************************)

\* The trade connection starts, or starts again after the cable link broke.
SessionStarted(p) ==
    /\ sessions < MaxSessions
    /\ session' = "started" /\ sessions' = sessions + 1
    /\ gbaParty' = p /\ shown' = slot0
    /\ Send("TRADE_SESSION_STARTED", <<>>)
    /\ UNCHANGED <<hostVars, cmds, faults, m_lastReceivedSequence, m_offer, m_offerReady, m_selected>>
    /\ UNCHANGED <<slot0, inputs, partnerSlot, trades, closes>>

\* The party is complete.  The patch tests that after each word of the exchange,
\* later ones included, and then reports the same party again.
PartnerPartyReady ==
    /\ \/ session = "started" /\ inputs' = inputs
       \/ session = "party" /\ inputs < MaxInputs /\ inputs' = inputs + 1
    /\ session' = "party"
    /\ Send("PARTNER_PARTY", <<gbaParty>>)
    /\ UNCHANGED <<hostVars, cmds, faults, m_lastReceivedSequence, m_offer, m_offerReady, m_selected>>
    /\ UNCHANGED <<slot0, shown, sessions, gbaParty, partnerSlot, trades, closes>>

\* LINKCMD_READY_TO_TRADE; again if the player cancelled and chose anew.  The
\* link goes on with the emulated slot 0 even when select reports an error.  A
\* slot that does not exist is copied from beyond the party, and which record
\* the game then gives is open.
Select(n) ==
    /\ session \in {"party", "selected", "refused"}
    /\ inputs < MaxInputs /\ inputs' = inputs + 1
    /\ IF n <= 5
       THEN partnerSlot' = n /\ slot0' = gbaParty[n]
       ELSE partnerSlot' \in PartnerSlots \cap 0..5 /\ slot0' \in Mons
    /\ IF m_offerReady /\ n <= 5
       THEN /\ Room(2)
            /\ session' = "selected" /\ m_selected' = gbaParty[n]
            /\ wire' = wire \o <<Frame(1, "PARTNER_SELECTED_SLOT", <<n>>),
                                 Frame(2, "PARTNER_SELECTED_MON", <<gbaParty[n]>>)>>
            /\ m_sendSequence' = m_sendSequence + 2
            /\ UNCHANGED m_transactionId
       ELSE Send("ERROR", <<4>>) /\ session' = "refused" /\ UNCHANGED m_selected
    /\ UNCHANGED <<hostVars, cmds, faults, m_lastReceivedSequence, m_offer, m_offerReady>>
    /\ UNCHANGED <<shown, sessions, gbaParty, trades, closes>>

\* Both games save: from here on the trade cannot be undone.
Swap ==
    /\ \/ session = "selected" /\ session' = "swapped"
       \/ session = "refused" /\ session' = "unseen"
    /\ trades' = trades \cup {[txid |-> m_transactionId, offer |-> m_offer,
                               given |-> gbaParty[partnerSlot], got |-> shown]}
    /\ UNCHANGED <<hostVars, streamVars, bridgeVars>>
    /\ UNCHANGED <<slot0, shown, sessions, inputs, gbaParty, partnerSlot, closes>>

\* LINKCMD_READY_CLOSE_LINK: the patch calls committed whether or not a trade
\* went before, it reports whatever the bridge has, and linkClosed 400 ms later.
Committed ==
    /\ session \in Sessions \ {"none", "closing", "closed"}
    /\ session' = "closing"
    /\ closes' = IF session = "swapped" THEN closes
                 ELSE closes \cup {[txid |-> m_transactionId, offer |-> m_offer,
                                    given |-> m_selected]}
    /\ Send("TRADE_COMMITTED", <<m_offer, m_selected>>)
    /\ UNCHANGED <<hostVars, cmds, faults, m_lastReceivedSequence, m_offer, m_offerReady, m_selected>>
    /\ UNCHANGED <<slot0, shown, sessions, inputs, gbaParty, partnerSlot, trades>>

LinkClosed ==
    /\ session = "closing"
    /\ session' = "closed"
    /\ Send("TRADE_LINK_CLOSED", <<0>>)
    /\ UNCHANGED <<hostVars, cmds, faults, m_lastReceivedSequence, m_offer, m_offerReady, m_selected>>
    /\ UNCHANGED <<slot0, shown, sessions, inputs, gbaParty, partnerSlot, trades, closes>>

----------------------------------------------------------------------------
(***************************************************************************)
(* The USB stream: a frame is repeated, lost or damaged.                   *)
(***************************************************************************)

Without(s, i) == SubSeq(s, 1, i - 1) \o SubSeq(s, i + 1, Len(s))

StreamFault(fault, i) ==
    /\ faults.number < MaxFaults
    /\ i \in DOMAIN wire
    /\ faults' = [number |-> faults.number + 1, hello |-> faults.hello]
    /\ wire' = CASE fault = "duplicate" -> Append(wire, wire[i])
                 [] fault = "lose"      -> Without(wire, i)
                 [] fault = "damage"    -> [wire EXCEPT ![i].intact = FALSE]
    /\ UNCHANGED <<hostVars, cmds, bridgeVars, gbaVars>>

\* Towards the device a damaged frame is as good as lost: consume skips it.
CommandFault(fault, i) ==
    /\ faults.number < MaxFaults
    /\ faults' = [number |-> faults.number + 1,
                  hello  |-> faults.hello \/ (fault = "duplicate" /\ cmds[i].type = "HELLO")]
    /\ cmds' = IF fault = "duplicate" THEN Append(cmds, cmds[i]) ELSE Without(cmds, i)
    /\ UNCHANGED <<hostVars, wire, bridgeVars, gbaVars>>

Host ==
    \/ Connect \/ WaitFails \/ Close
    \/ \E m \in Offers : SetOffer(m)
    \/ \E k \in DOMAIN wire : Read(k)

Device ==
    \/ Discard \/ HandleHello \/ HandleGetCapabilities \/ HandleSetOffer
    \/ \E p \in Parties : SessionStarted(p)
    \/ PartnerPartyReady \/ Swap \/ Committed \/ LinkClosed
    \/ \E n \in PartnerSlots : Select(n)

Stream ==
    \/ \E fault \in Faults, i \in DOMAIN wire : StreamFault(fault, i)
    \/ \E fault \in Faults \ {"damage"}, i \in DOMAIN cmds : CommandFault(fault, i)

Next == Host \/ Device \/ Stream

Spec == Init /\ [][Next]_vars

----------------------------------------------------------------------------
(***************************************************************************)
(* Properties.                                                             *)
(***************************************************************************)

\* trade_once returns only on evidence of its own transaction, its own offer and
\* the record it saw selected: the player really gave that record while the
\* offer stood, or she closed the link there without having traded it, which
\* committed does not tell apart.  Nothing else adds up to a false commit:
\* neither frames that are lost, repeated or damaged, nor selections taken
\* back or refused, nor sessions broken off, nor the frames of an earlier
\* endpoint with the same offer; unless HELLO itself is repeated, which starts
\* the sequence numbers over, and many faults follow.
EvidenceIsReal ==
    pc = "returned" =>
        \E e \in trades \cup closes : e.txid = txid /\ e.offer = offer /\ e.given = selected

\* docs/protocol.md: a receiver rejects damaged, duplicate and out-of-order
\* frames, and no others.  So over a faultless stream, once the bridge is done
\* with the commands of connect, its CAPABILITIES are on their way.  Violated:
\* the codec also rejects every HELLO, and then GET_CAPABILITIES.
HandshakeAnswered ==
    pc = "capabilities" /\ cmds = <<>> =>
        \E i \in DOMAIN wire : wire[i].type = "CAPABILITIES"

\* docs/protocol.md: SET_OFFER_MON replaces the configured emulator slot.  So
\* the trade that trade_once returns gave the GBA the offered record.  Violated:
\* the bridge keeps the offer to itself.
GbaGetsOffer ==
    pc = "returned" =>
        \A t \in trades :
            t.txid = txid /\ t.offer = offer /\ t.given = selected => t.got = offer

=============================================================================
