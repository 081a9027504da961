--------------------------- MODULE MCRecvService ---------------------------
(***************************************************************************)
(* Instances of RecvService for TLC.                                       *)
(***************************************************************************)
EXTENDS RecvService
=============================================================================
