------------------------------ MODULE MCCatalog ------------------------------
(***************************************************************************)
(* Catalog on small instances: three requests that overlap freely, two     *)
(* default incomes and two default expenses, three months.                 *)
(***************************************************************************)
EXTENDS Catalog
CONSTANTS r1, r2, r3

MCDefaults == [income |-> <<"salary", "refund">>, expense |-> <<"food", "other">>]
MCRequired == [income |-> <<"refund">>, expense |-> <<>>]

MCCategory(kind, name) == [kind |-> kind, name |-> name, archived |-> FALSE]
MCBudget(scope, type, from, to) ==
  [scope |-> scope, type |-> type, from |-> from, to |-> to, archived |-> FALSE]
MCFood == <<None, "expense", "food">>
MCRefund == <<None, "income", "refund">>

\* A new user; one with an own category; one with a budget.
MCBare == [category |-> NoRows, budget |-> NoRows]
MCOwn == [category |-> [i \in {MCFood} |-> MCCategory("expense", "food")], budget |-> NoRows]
MCBudgeted ==
  [category |-> [i \in {MCFood, MCRefund} |-> MCCategory(i[2], i[3])],
   budget |-> [i \in {None} |-> MCBudget(MCFood, "custom", 0, 2)]]
MCStart == {MCBare, MCOwn, MCBudgeted}

MCLists == [op : {"list"}, kind : {None, "income"}]
MCCreates == {[op |-> "create", row |-> MCCategory("income", "refund")]}
MCEdits ==
  [op : {"edit"}, id : {MCFood}, change : {[kind |-> "income"], [name |-> "other"]}]
  \cup [op : {"archive"}, id : {MCFood}]
MCBudgetEdits(changes) == [op : {"edit_budget"}, id : {None}, change : changes]
MCNewBudgets ==
  {[op |-> "create_budget", row |-> MCBudget(s, "monthly", 2, 4)] : s \in {None, MCFood}}

\* Each request chooses; the halves of a period are changed by different ones.
MCAsk ==
  [r \in Requests |->
     CASE r = r1 -> MCLists \cup MCBudgetEdits({[type |-> "monthly"], [from |-> 1],
                                              [from |-> 2, to |-> 4]})
       [] r = r2 -> MCLists \cup MCCreates \cup MCNewBudgets
                      \cup MCBudgetEdits({[to |-> 1], [scope |-> None]})
       [] OTHER -> MCEdits \cup MCBudgetEdits({[to |-> 3]})
                      \cup [op : {"archive_budget"}, id : {None}]]
=============================================================================
