------------------------------- MODULE Ledger -------------------------------
(***************************************************************************)
(* The ledger of one user: income, expenses, transfers and savings         *)
(* transfers with their idempotency records, edits and voids of ledger     *)
(* rows, savings goals and the account balances derived from the rows      *)
(* (modules/transactions, modules/savings, modules/idempotency,            *)
(* modules/accounts/models.py).                                            *)
(*                                                                         *)
(* Every HTTP request runs its handler in a database transaction of its    *)
(* own at READ COMMITTED: each of its queries sees the rows committed by   *)
(* then and its own writes, and nothing but a unique key makes it wait for *)
(* another request. A handler is therefore split at its queries.           *)
(***************************************************************************)
EXTENDS Integers, FiniteSets, Functions

CONSTANTS
  Requests,   \* HTTP requests, each at most once
  Commands,   \* what a request may ask for: records, see CommandSet
  Accounts, Currency, Opening,   \* accounts, their currencies, opening_balance
  Goals, GoalCurrency, Targets,  \* savings goals, active at first; target_amount at first
  Keys, NoKey,                   \* Idempotency-Key values; the header left out
  NoRequest, NoRow,              \* no record; no ledger row
  Keep,                          \* a field a PATCH leaves out; no converted_amount
  MaxAmount   \* bound on amounts in requests

Amount == 1 .. MaxAmount

\* The requests a client may make.
CommandSet ==
  [op : {"income", "expense"}, account : Accounts, amount : Amount, key : Keys \cup {NoKey}]
  \cup [op : {"transfer"}, account : Accounts, to : Accounts, amount : Amount,
        converted : Amount \cup {Keep}, key : Keys \cup {NoKey}]
  \cup [op : {"savings"}, account : Accounts, goal : Goals, amount : Amount,
        key : Keys \cup {NoKey}]
  \cup [op : {"update"}, target : Requests, account : Accounts \cup {Keep},
        amount : Amount \cup {Keep}]
  \cup [op : {"void"}, target : Requests]
  \cup [op : {"contribute"}, goal : Goals, amount : Amount]
  \cup [op : {"retarget"}, goal : Goals, amount : Amount]
  \cup [op : {"archive"}, goal : Goals]

\* The shapes of ledger rows and of goals.
Rows == [kind : {"income", "expense", "transfer_debit", "transfer_credit"},
         account : Accounts, currency : {Currency[a] : a \in Accounts}, amount : Amount,
         voided : BOOLEAN]
GoalRows ==
  [status : {"active", "completed", "archived"}, target : Amount, archivedAt : BOOLEAN]

ASSUME LedgerAssumption ==
  /\ Commands \subseteq CommandSet
  /\ IsFiniteSet(Requests) /\ IsFiniteSet(Accounts)
  /\ NoRequest \notin Requests \cup Commands
  /\ NoRow \notin Rows \cup GoalRows
  /\ NoKey \notin Keys
  /\ MaxAmount \in Nat \ {0}
  /\ Keep \notin Accounts /\ Keep \notin Amount
  /\ Opening \in [Accounts -> Int]
  /\ Targets \in [Goals -> Amount]

VARIABLES
  cmd,      \* what each request asks for
  pc,       \* where its handler is
  reply,    \* how it was answered
  body,     \* the request whose response body was returned
  seen,     \* what the handler loaded: a ledger row, or a goal
  met,      \* whether the saved amount it calculated meets the target it applies
  main,     \* the income, expense or transfer_debit row a request inserted
  credit,   \* the transfer_credit row it inserted
  gave,     \* the savings contribution it inserted
  idem,     \* idempotency_records: the request whose response is stored
  usable,   \* accounts neither archived nor disabled
  goal      \* savings_goals

requestVars == <<cmd, pc, reply, body, seen, met>>
rowVars == <<main, credit, gave, idem, usable, goal>>
vars == <<requestVars, rowVars>>

Creates == {"income", "expense", "transfer", "savings"}
SavingsOps == {"savings", "contribute"}

\* An idempotency record's unique key: the operation and the client's key.
Operation(c) == IF c.op \in {"income", "expense"} THEN "transactions" ELSE c.op
Slots == {"transactions", "transfer", "savings"} \X Keys
Slot(c) == <<Operation(c), c.key>>
HasKey(c) == c.op \in Creates /\ c.key # NoKey

Row(kind, account, amount) ==
  [kind |-> kind, account |-> account, currency |-> Currency[account], amount |-> amount,
   voided |-> FALSE]

\* Account.current_balance: the opening balance and the account's rows not voided.
Effect(row, a) ==
  IF row = NoRow \/ row.account # a \/ row.voided THEN 0
  ELSE IF row.kind \in {"income", "transfer_credit"} THEN row.amount ELSE - row.amount
Balance(a) ==
  Opening[a] + SumFunction([r \in Requests |-> Effect(main[r], a) + Effect(credit[r], a)])

\* calculate_saved_amount: the committed contributions to a goal.
Given(r, g) == IF gave[r] /\ cmd[r].goal = g THEN cmd[r].amount ELSE 0
SavedAmount(g) == SumFunction([r \in Requests |-> Given(r, g)])

-----------------------------------------------------------------------------
Init ==
  /\ cmd = [r \in Requests |-> NoRequest]
  /\ pc = [r \in Requests |-> "new"]
  /\ reply = [r \in Requests |-> "none"]
  /\ body = [r \in Requests |-> NoRequest]
  /\ seen = [r \in Requests |-> NoRow]
  /\ met = [r \in Requests |-> FALSE]
  /\ main = [r \in Requests |-> NoRow]
  /\ credit = [r \in Requests |-> NoRow]
  /\ gave = [r \in Requests |-> FALSE]
  /\ idem = [s \in Slots |-> NoRequest]
  /\ usable = Accounts
  /\ goal = [g \in Goals |-> [status |-> "active", target |-> Targets[g], archivedAt |-> FALSE]]

Answer(r, answer) ==
  /\ pc' = [pc EXCEPT ![r] = "done"]
  /\ reply' = [reply EXCEPT ![r] = answer]

GoTo(r, place) == pc' = [pc EXCEPT ![r] = place] /\ UNCHANGED reply

\* A request comes in.
Arrive(r, c) ==
  /\ pc[r] = "new"
  /\ cmd' = [cmd EXCEPT ![r] = c]
  /\ GoTo(r, IF HasKey(c) THEN "lookup" ELSE "load")
  /\ UNCHANGED <<body, seen, met, rowVars>>

\* Mutant of Lookup: the request hash is not compared.
LookupAnyBody(r) ==
  LET stored == idem[Slot(cmd[r])] IN
  /\ pc[r] = "lookup"
  /\ \/ stored = NoRequest /\ GoTo(r, "load") /\ UNCHANGED body
     \/ stored # NoRequest /\ Answer(r, "ok") /\ body' = [body EXCEPT ![r] = body[stored]]
  /\ UNCHANGED <<cmd, seen, met, rowVars>>
\* get_idempotent_response: replay, refuse, or go on. The request hash covers the
\* operation and every field, here the whole command; expires_at is never looked at.
Lookup(r) ==
  LET stored == idem[Slot(cmd[r])] IN
  /\ pc[r] = "lookup"
  /\ \/ /\ stored = NoRequest
        /\ GoTo(r, "load")
        /\ UNCHANGED body
     \/ /\ stored # NoRequest
        /\ cmd[stored] = cmd[r]
        /\ Answer(r, "ok")
        /\ body' = [body EXCEPT ![r] = body[stored]]
     \/ /\ stored # NoRequest
        /\ cmd[stored] # cmd[r]
        /\ Answer(r, "conflict")
        /\ UNCHANGED body
  /\ UNCHANGED <<cmd, seen, met, rowVars>>

\* ensure_sufficient_balance.
Covered(account, amount) == amount <= Balance(account)

\* A transfer names two accounts, and a converted amount exactly when currencies differ.
TransferValid(c) ==
  /\ c.account # c.to
  /\ (Currency[c.account] # Currency[c.to]) <=> (c.converted # Keep)

\* What create_transaction, create_transfer, create_savings_transfer and
\* create_contribution require of what they load. Savings transfers do not ask for a
\* balance that covers them.
Acceptable(c) ==
  CASE c.op = "income" -> c.account \in usable
    [] c.op = "expense" -> c.account \in usable /\ Covered(c.account, c.amount)
    [] c.op = "transfer" ->
         /\ {c.account, c.to} \subseteq usable
         /\ TransferValid(c)
         /\ Covered(c.account, c.amount)
    [] c.op = "savings" ->
         /\ c.account \in usable
         /\ goal[c.goal].status = "active"
         /\ Currency[c.account] = GoalCurrency[c.goal]
    [] c.op = "contribute" -> goal[c.goal].status = "active"

\* A creating request reads accounts, category and goal, and is refused or goes on. The
\* category may be archived or of the other kind, which refuses any income or expense.
LoadCreate(r) ==
  LET c == cmd[r] IN
  /\ pc[r] = "load"
  /\ c.op \in Creates \cup {"contribute"}
  /\ \/ /\ Acceptable(c)
        /\ GoTo(r, IF c.op \in SavingsOps THEN "tally" ELSE "write")
        /\ seen' = [seen EXCEPT ![r] = IF c.op \in SavingsOps THEN goal[c.goal] ELSE NoRow]
     \/ /\ ~ Acceptable(c) \/ c.op \in {"income", "expense"}
        /\ Answer(r, "rejected")
        /\ UNCHANGED seen
  /\ UNCHANGED <<cmd, body, met, rowVars>>

\* Mutant of Found: transfer legs are found as well.
FoundAny(target) == main[target] # NoRow
\* get_owned finds income and expense rows only.
Found(target) == main[target] # NoRow /\ main[target].kind \in {"income", "expense"}

\* update_transaction and void_transaction load the row; an update also its account and
\* a category, which may refuse it. Voiding a voided row answers without writing.
LoadEdit(r) ==
  LET c == cmd[r]
      row == main[c.target]
      account == IF c.account = Keep THEN row.account ELSE c.account
  IN
  /\ pc[r] = "load"
  /\ c.op \in {"update", "void"}
  /\ \/ /\ Found(c.target)
        /\ ~ row.voided
        /\ c.op = "update" => account \in usable
        /\ GoTo(r, "commit")
        /\ seen' = [seen EXCEPT ![r] = row]
     \/ /\ ~ Found(c.target) \/ c.op = "update"
        /\ Answer(r, "rejected")
        /\ UNCHANGED seen
     \/ /\ Found(c.target)
        /\ c.op = "void" /\ row.voided
        /\ Answer(r, "ok")
        /\ UNCHANGED seen
  /\ UNCHANGED <<cmd, body, met, rowVars>>

\* update_goal refuses an archived goal, archive_goal answers without writing.
LoadGoal(r) ==
  LET c == cmd[r] IN
  /\ pc[r] = "load"
  /\ c.op \in {"retarget", "archive"}
  /\ IF goal[c.goal].status = "archived"
     THEN /\ Answer(r, IF c.op = "retarget" THEN "rejected" ELSE "ok")
          /\ UNCHANGED seen
     ELSE /\ GoTo(r, IF c.op = "retarget" THEN "tally" ELSE "commit")
          /\ seen' = [seen EXCEPT ![r] = goal[c.goal]]
  /\ UNCHANGED <<cmd, body, met, rowVars>>

\* The handler's own contribution, flushed but not committed.
OwnContribution(c) == IF c.op \in SavingsOps THEN c.amount ELSE 0

\* Mutant of Tally: the flushed contribution is added to a sum that has it.
TallyTwice(r) ==
  LET c == cmd[r]
      target == IF c.op = "retarget" THEN c.amount ELSE seen[r].target
  IN
  /\ pc[r] = "tally"
  /\ met' = [met EXCEPT ![r] = SavedAmount(c.goal) + 2 * OwnContribution(c) >= target]
  /\ GoTo(r, IF c.op = "savings" THEN "write" ELSE "commit")
  /\ UNCHANGED <<cmd, body, seen, rowVars>>

\* The saved amount is read - contributions committed by now and the handler's own - and
\* compared with the target loaded, or the one requested.
Tally(r) ==
  LET c == cmd[r]
      target == IF c.op = "retarget" THEN c.amount ELSE seen[r].target
  IN
  /\ pc[r] = "tally"
  /\ met' = [met EXCEPT ![r] = SavedAmount(c.goal) + OwnContribution(c) >= target]
  /\ GoTo(r, IF c.op = "savings" THEN "write" ELSE "commit")
  /\ UNCHANGED <<cmd, body, seen, rowVars>>

-----------------------------------------------------------------------------
\* A handler holds the unique key from the flush of its record to its commit.
KeyHeld(s) == \E q \in Requests : pc[q] = "commit" /\ HasKey(cmd[q]) /\ Slot(cmd[q]) = s
\* Mutant of Write: the record has no unique key.
WriteUnchecked(r) ==
  /\ pc[r] = "write"
  /\ GoTo(r, "commit")
  /\ UNCHANGED <<cmd, body, seen, met, rowVars>>

\* The rows are flushed, the idempotency record last: its unique key makes the handler
\* wait for one that holds the same key uncommitted, and fail if that one commits.
Write(r) ==
  LET s == Slot(cmd[r]) IN
  /\ pc[r] = "write"
  /\ HasKey(cmd[r]) => ~ KeyHeld(s)
  /\ IF HasKey(cmd[r]) => idem[s] = NoRequest THEN GoTo(r, "commit") ELSE Answer(r, "error")
  /\ UNCHANGED <<cmd, body, seen, met, rowVars>>

\* What an UPDATE leaves of a row: the session writes the fields that differ from what
\* it loaded, whatever the row has become since.
Written(now, loaded, changed) ==
  [f \in DOMAIN now |-> IF changed[f] # loaded[f] THEN changed[f] ELSE now[f]]

\* apply_completion_state.
Completion(status, isMet) ==
  IF status = "archived" THEN status ELSE IF isMet THEN "completed" ELSE "active"

\* The rows a creating request commits.
MainRow(c) ==
  CASE c.op \in {"income", "expense"} -> Row(c.op, c.account, c.amount)
    [] c.op \in {"transfer", "savings"} -> Row("transfer_debit", c.account, c.amount)
    [] OTHER -> NoRow
CreditRow(c) ==
  IF c.op = "transfer"
  THEN Row("transfer_credit", c.to, IF c.converted = Keep THEN c.amount ELSE c.converted)
  ELSE NoRow

\* The goal as a request leaves it in its session.
ChangedGoal(r) ==
  LET c == cmd[r]
      loaded == seen[r]
  IN
  IF c.op = "archive" THEN [loaded EXCEPT !.status = "archived", !.archivedAt = TRUE]
  ELSE [loaded EXCEPT !.status = Completion(loaded.status, met[r]),
                      !.target = IF c.op = "retarget" THEN c.amount ELSE @]

CommitGoalOf(r) ==
  goal' = [goal EXCEPT ![cmd[r].goal] = Written(@, seen[r], ChangedGoal(r))]

CommitCreate(r) ==
  LET c == cmd[r] IN
  /\ pc[r] = "commit"
  /\ c.op \in Creates \cup {"contribute"}
  /\ main' = [main EXCEPT ![r] = MainRow(c)]
  /\ credit' = [credit EXCEPT ![r] = CreditRow(c)]
  /\ gave' = [gave EXCEPT ![r] = c.op \in SavingsOps]
  /\ idem' = IF HasKey(c) THEN [idem EXCEPT ![Slot(c)] = r] ELSE idem
  /\ body' = [body EXCEPT ![r] = r]
  /\ IF c.op \in SavingsOps THEN CommitGoalOf(r) ELSE UNCHANGED goal
  /\ Answer(r, "ok")
  /\ UNCHANGED <<cmd, seen, met, usable>>

CommitGoal(r) ==
  /\ pc[r] = "commit"
  /\ cmd[r].op \in {"retarget", "archive"}
  /\ CommitGoalOf(r)
  /\ Answer(r, "ok")
  /\ UNCHANGED <<cmd, body, seen, met, main, credit, gave, idem, usable>>

\* The ledger row as an update or a void leaves it in its session.
Edited(c, row) ==
  LET account == IF c.account = Keep THEN row.account ELSE c.account IN
  IF c.op = "void" THEN [row EXCEPT !.voided = TRUE]
  ELSE [row EXCEPT !.account = account, !.currency = Currency[account],
                   !.amount = IF c.amount = Keep THEN @ ELSE c.amount]

\* Mutant of CommitEdit: the update writes every column.
CommitEditWhole(r) ==
  /\ pc[r] = "commit"
  /\ cmd[r].op \in {"update", "void"}
  /\ main' = [main EXCEPT ![cmd[r].target] = Edited(cmd[r], seen[r])]
  /\ Answer(r, "ok")
  /\ UNCHANGED <<cmd, body, seen, met, credit, gave, idem, usable, goal>>

CommitEdit(r) ==
  LET c == cmd[r] IN
  /\ pc[r] = "commit"
  /\ c.op \in {"update", "void"}
  /\ main' = [main EXCEPT ![c.target] = Written(@, seen[r], Edited(c, seen[r]))]
  /\ Answer(r, "ok")
  /\ UNCHANGED <<cmd, body, seen, met, credit, gave, idem, usable, goal>>

\* The connection or the process is lost before the commit: everything is rolled back.
Abort(r) ==
  /\ pc[r] \notin {"new", "done"}
  /\ Answer(r, "error")
  /\ UNCHANGED <<cmd, body, seen, met, rowVars>>

\* disable_account, for good: nothing enables or unarchives an account.
Disable(a) ==
  /\ a \in usable
  /\ usable' = usable \ {a}
  /\ UNCHANGED <<requestVars, main, credit, gave, idem, goal>>

Handle(r) ==
  \/ Lookup(r) \/ LoadCreate(r) \/ LoadEdit(r) \/ LoadGoal(r)
  \/ Tally(r) \/ Write(r)
  \/ CommitCreate(r) \/ CommitEdit(r) \/ CommitGoal(r)

Next ==
  \/ \E r \in Requests : Handle(r) \/ Abort(r) \/ \E c \in Commands : Arrive(r, c)
  \/ \E a \in Accounts : Disable(a)

Spec == Init /\ [][Next]_vars

-----------------------------------------------------------------------------
Places == {"new", "lookup", "load", "tally", "write", "commit", "done"}
Replies == {"none", "ok", "rejected", "conflict", "error"}
\* The variables have their types, and a handler is over exactly when it has replied.
TypeOK ==
  /\ cmd \in [Requests -> Commands \cup {NoRequest}]
  /\ pc \in [Requests -> Places]
  /\ reply \in [Requests -> Replies]
  /\ body \in [Requests -> Requests \cup {NoRequest}]
  /\ seen \in [Requests -> Rows \cup GoalRows \cup {NoRow}]
  /\ met \in [Requests -> BOOLEAN]
  /\ main \in [Requests -> Rows \cup {NoRow}]
  /\ credit \in [Requests -> Rows \cup {NoRow}]
  /\ gave \in [Requests -> BOOLEAN]
  /\ idem \in [Slots -> Requests \cup {NoRequest}]
  /\ usable \subseteq Accounts
  /\ goal \in [Goals -> GoalRows]
  /\ \A r \in Requests : /\ reply[r] = "none" <=> pc[r] # "done"
                         /\ cmd[r] = NoRequest <=> pc[r] = "new"

\* Requests that repeat an Idempotency-Key insert their ledger rows at most once among
\* them, however they overlap, abort or repeat (the unique key of idempotency_records).
KeyOnce ==
  \A q, r \in Requests :
    /\ main[q] # NoRow /\ main[r] # NoRow
    /\ HasKey(cmd[q]) /\ HasKey(cmd[r]) /\ Slot(cmd[q]) = Slot(cmd[r])
    => q = r

\* A keyed request that succeeds returns the rows of the one request that inserted them,
\* and that request asked for the same (get_idempotent_response).
ReplaySame ==
  \A r \in Requests :
    cmd[r] # NoRequest /\ HasKey(cmd[r]) /\ reply[r] = "ok" =>
      /\ body[r] \in Requests /\ body[r] = idem[Slot(cmd[r])]
      /\ cmd[body[r]] = cmd[r]
      /\ main[body[r]] # NoRow

\* What the proofs need besides: a key held or recorded belongs to one request,
KeyHolding ==
  /\ \A r \in Requests : cmd[r] # NoRequest /\ HasKey(cmd[r]) =>
       /\ main[r] # NoRow => idem[Slot(cmd[r])] = r
       /\ pc[r] = "commit" =>
            /\ idem[Slot(cmd[r])] = NoRequest
            /\ \A q \in Requests :
                 pc[q] = "commit" /\ HasKey(cmd[q]) /\ Slot(cmd[q]) = Slot(cmd[r]) => q = r
  /\ \A s \in Slots : idem[s] # NoRequest =>
       /\ cmd[idem[s]] # NoRequest
       /\ HasKey(cmd[idem[s]])
       /\ Slot(cmd[idem[s]]) = s
       /\ main[idem[s]] # NoRow
       /\ body[idem[s]] = idem[s]

\* a row appears when its request is done, and only income and expenses are voided,
RowsInserted ==
  \A r \in Requests : main[r] # NoRow =>
    /\ pc[r] = "done"
    /\ main[r].voided => main[r].kind \in {"income", "expense"}

\* and a handler holds what its command works on.
Loaded ==
  \A r \in Requests :
    /\ pc[r] = "lookup" => HasKey(cmd[r])
    /\ pc[r] = "tally" => cmd[r].op \in SavingsOps \cup {"retarget"}
    /\ pc[r] \in {"tally", "write", "commit"} =>
         /\ cmd[r].op \in {"update", "void"} => seen[r] \in Rows /\ Found(cmd[r].target)
         /\ cmd[r].op \in SavingsOps \cup {"retarget", "archive"} => seen[r] \in GoalRows

IInv == TypeOK /\ ReplaySame /\ KeyHolding /\ RowsInserted /\ Loaded

\* Money is neither made nor lost: the balances add up to the opening balances and the
\* income, less the expenses and the savings transfers whose contribution exists; a
\* transfer adds nothing but what the conversion of currencies made of it.
Brought(r) ==
  LET c == cmd[r]
      row == main[r]
  IN
  IF row = NoRow THEN 0
  ELSE CASE c.op = "income" -> IF row.voided THEN 0 ELSE row.amount
         [] c.op = "expense" -> IF row.voided THEN 0 ELSE - row.amount
         [] c.op = "savings" -> IF gave[r] THEN - c.amount ELSE 0
         [] c.op = "transfer" -> IF c.converted = Keep THEN 0 ELSE c.converted - c.amount
MoneyConserved ==
  SumFunction([a \in Accounts |-> Balance(a)])
    = SumFunction(Opening) + SumFunction([r \in Requests |-> Brought(r)])

\* A voided row stays voided, and transfer legs are never voided: no update that loaded
\* the row before the void brings it back (void_transaction, update_transaction).
VoidSticks ==
  [][\A r \in Requests :
       /\ main[r] # NoRow /\ main[r].voided => main'[r] # NoRow /\ main'[r].voided
       /\ main'[r] # NoRow /\ main'[r].voided => main'[r].kind \in {"income", "expense"}]_vars

\* Nobody asked for another target of the goal.
Steady(g) ==
  ~ \E r \in Requests : cmd[r] # NoRequest /\ cmd[r].op = "retarget" /\ cmd[r].goal = g

\* As long as nobody changes its target, a goal is completed only when the committed
\* contributions meet it (apply_completion_state).
CompletedWasEarned ==
  \A g \in Goals :
    goal[g].status = "completed" /\ Steady(g) => SavedAmount(g) >= goal[g].target

\* What the proofs of these need: a request's rows are those its command inserts, up to
\* edits of income and expenses,
RowsAsAsked ==
  \A r \in Requests :
    /\ gave[r] => pc[r] = "done" /\ cmd[r].op \in SavingsOps
    /\ main[r] = NoRow => credit[r] = NoRow
    /\ main[r] # NoRow =>
         /\ cmd[r].op \in Creates
         /\ cmd[r].op \in {"income", "expense"} => main[r].kind = cmd[r].op /\ credit[r] = NoRow
         /\ cmd[r].op \in {"transfer", "savings"} =>
              main[r] = MainRow(cmd[r]) /\ credit[r] = CreditRow(cmd[r])
         /\ cmd[r].op = "savings" => gave[r]

\* and a handler's view of a goal with a steady target stays true: contributions committed
\* since it summed them up only add to the sum.
ViewTrue(r) ==
  cmd[r] # NoRequest /\ cmd[r].op \in SavingsOps \cup {"archive"} /\ Steady(cmd[r].goal) =>
    /\ pc[r] \in {"tally", "write", "commit"} => seen[r].target = goal[cmd[r].goal].target
    /\ pc[r] \in {"write", "commit"} /\ cmd[r].op \in SavingsOps /\ met[r] =>
         SavedAmount(cmd[r].goal) + cmd[r].amount >= goal[cmd[r].goal].target
ViewsTrue == \A r \in Requests : ViewTrue(r)

MoneyInv == IInv /\ RowsAsAsked /\ ViewsTrue /\ CompletedWasEarned

=============================================================================
