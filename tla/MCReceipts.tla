----------------------------- MODULE MCReceipts -----------------------------
(***************************************************************************)
(* Receipts with two uploads and two deletions, which may name the same.   *)
(***************************************************************************)
EXTENDS Receipts
CONSTANTS u1, u2, d1, d2
=============================================================================
