------------------------------ MODULE MCPairing ------------------------------
(* Two sessions, so that the poller of one meets the start of the other,   *)
(* and at most one thing out of the ordinary: a mishap, a loss or a key    *)
(* that a PKI command brought.  The key store, which shares nothing with   *)
(* pollers and session keys, varies as long as neither a mishap nor such a *)
(* key is there; after a loss one session is enough.                       *)
EXTENDS Pairing

Opened == {s \in Sessions : server[s] # "unused"}

Ordinary ==
  /\ Cardinality(mishaps) + Cardinality(losses) + Cardinality(granted) <= 1
  /\ mishaps # {} \/ granted # {} => keys = {} /\ ~flag
  /\ losses # {} => Cardinality(Opened) <= 1
=============================================================================
