----------------------------- MODULE MCQuoteRecv -----------------------------
(***************************************************************************)
(* Instances of QuoteRecv for TLC.                                         *)
(***************************************************************************)
EXTENDS QuoteRecv
=============================================================================
