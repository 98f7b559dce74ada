----------------------------- MODULE MCGateway -----------------------------
(* The gateway has exactly four goroutines: this is no bound. *)
EXTENDS Gateway
=============================================================================
