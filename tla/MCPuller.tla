------------------------------ MODULE MCPuller ------------------------------
(* Puller on a small instance: deltas of both kinds *)
EXTENDS Puller
SomeForms == <<{"delta"}, {"deltaLater"}, {"delta"}>>
=============================================================================
