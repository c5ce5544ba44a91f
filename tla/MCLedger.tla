------------------------------ MODULE MCLedger ------------------------------
(***************************************************************************)
(* Ledger on a small instance: three requests over accounts in two        *)
(* currencies and one goal. The set of commands brings together            *)
(* the requests whose overlaps the run is about.                           *)
(***************************************************************************)
EXTENDS Ledger, TLC
CONSTANTS r1, r2, r3, usd, eur, g, k

MCCurrency == [a \in Accounts |-> IF a = eur THEN "EUR" ELSE "USD"]
MCGoalCurrency == [x \in Goals |-> "USD"]
MCOpening == [a \in Accounts |-> IF a = usd THEN 2 ELSE 0]
MCTargets == [x \in Goals |-> 2]

Income(account, n, key) == [op |-> "income", account |-> account, amount |-> n, key |-> key]
Expense(account, n, key) == [op |-> "expense", account |-> account, amount |-> n, key |-> key]
Transfer(from, to, n, m, key) ==
  [op |-> "transfer", account |-> from, to |-> to, amount |-> n, converted |-> m, key |-> key]
Savings(account, n, key) ==
  [op |-> "savings", account |-> account, goal |-> g, amount |-> n, key |-> key]
Update(r, account, n) == [op |-> "update", target |-> r, account |-> account, amount |-> n]
Void(r) == [op |-> "void", target |-> r]
Contribute(n) == [op |-> "contribute", goal |-> g, amount |-> n]
Retarget(n) == [op |-> "retarget", goal |-> g, amount |-> n]

\* Retries under one key, one with another body; edits of the first request's rows;
\* contributions of every kind.
MCCommands ==
  {Income(eur, 2, k), Expense(usd, 1, k), Transfer(usd, eur, 2, 1, k), Savings(usd, 1, k),
   Update(r1, eur, 1), Void(r1), Contribute(1), Retarget(1), [op |-> "archive", goal |-> g]}

MCSymmetry == Permutations({r2, r3})

=============================================================================
