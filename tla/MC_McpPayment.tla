---------------------------- MODULE MC_McpPayment ----------------------------
(* An instance of McpPayment: a tool with a priced offer of one method and a *)
(* proof of another, and clients that differ in what they trust and ask.     *)
EXTENDS McpPayment

CONSTANTS tempo, card, home, away

Priced == [method |-> card, realm |-> home, proof |-> FALSE]
Proof == [method |-> tempo, realm |-> home, proof |-> TRUE]
Sponsored == [method |-> tempo, realm |-> home, proof |-> FALSE]

MC_Offers == <<Priced, Proof, Sponsored>>
MC_Strange == [method |-> tempo, realm |-> away, proof |-> TRUE]

MC_Sessions ==
  {[endpoint |-> NoEndpoint, guarded |-> FALSE],
   [endpoint |-> home, guarded |-> FALSE],
   [endpoint |-> home, guarded |-> TRUE]}

Base ==
  [quality |-> [m \in {tempo, card} |-> 1], validates |-> {tempo}, trusted |-> {},
   orders |-> FALSE, asks |-> TRUE, checksSession |-> FALSE, kind |-> "transaction"]

MC_Configs ==
  {[Base EXCEPT !.orders = TRUE],
   [Base EXCEPT !.quality = [m \in {tempo, card} |-> IF m = tempo THEN 2 ELSE 1]],
   [Base EXCEPT !.quality = [m \in {tempo} |-> 1], !.checksSession = TRUE,
                !.trusted = {<<NoEndpoint, home>>, <<NoEndpoint, away>>}],
   [Base EXCEPT !.kind = "hash", !.asks = FALSE, !.validates = {},
                !.quality = [m \in {tempo, card} |-> IF m = tempo THEN 1 ELSE 0]]}
===============================================================================
