----------------------------- MODULE MCSessions -----------------------------
(***************************************************************************)
(* Sessions on a small instance. A family is begun by a password or a code *)
(* and rotated twice, or rotated and logged out, while both used tokens    *)
(* come back; the code may be tried a second time.                         *)
(***************************************************************************)
EXTENDS Sessions
CONSTANTS r1, r2, r3, r4, r5, c1

Refresh(s) == [op |-> "refresh", row |-> s]
Redeem == [op |-> "exchange", row |-> c1]

MCReturns ==
  [r \in Requests |->
     CASE r = r1 -> {[op |-> "login", row |-> NoRequest], Redeem}
       [] r = r2 -> {Refresh(r1)}
       [] r = r3 -> [op : {"refresh", "logout"}, row : {r2}]
       [] r = r4 -> {Refresh(r1), Redeem}
       [] r = r5 -> {Refresh(r2)}]
=============================================================================
