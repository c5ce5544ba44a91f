----------------------------- MODULE MCAccounts -----------------------------
(***************************************************************************)
(* Accounts on small instances: two accounts in two currencies, a third    *)
(* that is created, and the reserved id of the account a listing makes.    *)
(***************************************************************************)
EXTENDS Accounts
CONSTANTS a1, a2, a3, cash, r1, r2, page, usd, eur

MCOn(ops, accounts) == [op : ops, account : accounts, currency : {None}]
MCIn(ops, accounts) == [op : ops, account : accounts, currency : Currencies]
MCList == MCOn({"list"}, {cash})
MCChange(accounts) ==
  MCOn({"disable", "archive", "set_default", "use"}, accounts) \cup MCIn({"update"}, accounts)
  \cup MCIn({"patch"}, {None})

MCRow(c, isDefault) ==
  [currency |-> c, disabled |-> FALSE, archived |-> FALSE, default |-> isDefault]
MCTwo ==
  [account |-> [a \in Accounts |-> CASE a = a1 -> MCRow(eur, TRUE)
                                     [] a = a2 -> MCRow(usd, FALSE)
                                     [] OTHER -> None],
   base |-> eur]

\* A new user, and one with two accounts.
MCStart == {[account |-> [a \in Accounts |-> None], base |-> usd], MCTwo}

\* Any two requests beside the page.
MCAny ==
  [r \in Requests |->
     CASE r = page -> MCList
       [] r = r1 -> MCChange({a1, a2}) \cup MCIn({"create"}, {a3})
       [] OTHER -> MCChange({a1, a2, a3})]
=============================================================================
