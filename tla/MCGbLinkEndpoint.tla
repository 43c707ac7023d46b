-------------------------- MODULE MCGbLinkEndpoint --------------------------
(* GbLinkEndpoint with two records to choose from in the GBA's party.      *)
EXTENDS GbLinkEndpointInv

CONSTANTS a, b, f, x, y

MCParties == {[n \in 0..5 |-> IF n = 0 THEN a ELSE b]}

\* Bound: when the last endpoint is gone or has raised, nobody reads on.
StillRead == ~(txid = MaxHosts /\ pc \in {"down", "raised"})

\* View: what is left out or merged no guard reads any more, and of this run's
\* properties only TypeOK names it: the exception raised, the emulated slot 0 and
\* what the GBA got, whether a piece of evidence is a trade or a bare close, the
\* evidence of earlier transactions, and the choice of a session that is over or
\* has not got to one.
Seen ==
    <<pc, txid, last, offer, party, selected_slot, selected, link_closed,
      streamVars, bridgeVars, session, sessions, inputs, gbaParty,
      IF session \in {"selected", "refused", "swapped"} THEN partnerSlot ELSE 0,
      {<<e.offer, e.given>> : e \in {d \in trades \cup closes : d.txid = txid}}>>

=============================================================================
