------------------------------ MODULE MCLoans ------------------------------
(***************************************************************************)
(* Loans on a small instance: one request lends, the others settle, edit   *)
(* and archive that record and one that has no account yet, in any overlap.*)
(***************************************************************************)
EXTENDS Loans, TLC
CONSTANTS r1, r2, r3, r4, old, a, b

Create(direction, n, account) ==
  [op |-> "create", direction |-> direction, principal |-> n, account |-> account]
Edit(x, direction, n, account) ==
  [op |-> "edit", record |-> x, direction |-> direction, principal |-> n, account |-> account]
Settle(x, account, n) == [op |-> "settle", record |-> x, account |-> account, amount |-> n]
Archive(x) == [op |-> "archive", record |-> x]

MCLater ==
  {Edit(r1, Keep, 1, Keep), Edit(r1, Keep, 3, Keep),
   Edit(r1, "taken", Keep, b), Edit(old, Keep, 1, a),
   Settle(r1, a, 1), Settle(r1, b, 2), Settle(old, b, 1), Archive(r1)}

MCAsk == [r \in Requests |->
            IF r = r1 THEN {Create("given", 2, a)} ELSE MCLater]
MCSymmetry == Permutations(Requests \ {r1})

=============================================================================
