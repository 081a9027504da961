----------------------------- MODULE MCWsServer -----------------------------
(***************************************************************************)
(* Instances of WsServer for TLC. Clients and users are model values; the  *)
(* clients are interchangeable in the runs that check invariants.          *)
(***************************************************************************)
EXTENDS WsServer, TLC

ClientSymmetry == Permutations(Clients)
=============================================================================
