------------------------------- MODULE MCFeed -------------------------------
(***************************************************************************)
(* Feed on a small instance: three notifications of two instants, pages of *)
(* one row, a stream that asks for the two newest, a request to mark one   *)
(* of them and one to mark all.                                            *)
(***************************************************************************)
EXTENDS Feed
CONSTANTS n1, n2, n3, one, all

MCIdOrder == [n \in Notes |-> CASE n = n1 -> 1 [] n = n2 -> 2 [] n = n3 -> 3]
MCAsk == [r \in Marks |-> IF r = one THEN {n1} ELSE {All}]
=============================================================================
