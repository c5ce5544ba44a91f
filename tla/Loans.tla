------------------------------- MODULE Loans -------------------------------
(***************************************************************************)
(* Loan records and settlements of one user, and the adjustment of account *)
(* balances kept for them (modules/loans). A record is named by the        *)
(* request that created it, and so is a settlement.                        *)
(*                                                                         *)
(* A handler reads the record, the accounts and the sum of settlements one *)
(* after the other, computes new values and writes them when it commits;   *)
(* no row is locked. The sum an account carries for its loans is therefore *)
(* read, changed and written back, and handlers of one record or account   *)
(* overwrite each other. Two history variables say which did: they are     *)
(* read by no action, and no behaviour is excluded by them.                *)
(***************************************************************************)
EXTENDS Integers, FiniteSets, Functions

CONSTANTS
  Requests,   \* HTTP requests, each at most once
  Legacy,     \* records that were there before records had an account
  Ask,        \* what each request may ask for: sets of commands, see CommandSet
  Accounts, NoAccount,
  MaxAmount,  \* bound on amounts in requests
  Keep,       \* a field a PATCH leaves out
  NoRequest, NoRow

Amount == 1 .. MaxAmount
Direction == {"given", "taken"}
Records == Requests \cup Legacy

CommandSet ==
  [op : {"create"}, direction : Direction, principal : Amount, account : Accounts]
  \cup [op : {"edit"}, record : Records, direction : Direction \cup {Keep},
        principal : Amount \cup {Keep}, account : Accounts \cup {Keep}]
  \cup [op : {"settle"}, record : Records, account : Accounts, amount : Amount]
  \cup [op : {"archive"}, record : Records]

RecordRows == [direction : Direction, principal : Amount, account : Accounts \cup {NoAccount},
               status : {"open", "settled", "archived"}]

\* effect is what the settlement added to its account when it was made; no column holds it.
SettlementRows == [record : Records, account : Accounts, amount : Amount, effect : Int]

ASSUME LoansAssumption ==
  /\ IsFiniteSet(Requests) /\ IsFiniteSet(Legacy)
  /\ Requests \cap Legacy = {}
  /\ Ask \in [Requests -> SUBSET CommandSet]
  /\ MaxAmount \in Nat \ {0}
  /\ NoAccount \notin Accounts
  /\ Keep \notin Accounts /\ Keep \notin Amount /\ Keep \notin Direction /\ Keep # NoAccount
  /\ NoRequest \notin CommandSet
  /\ NoRow \notin RecordRows /\ NoRow \notin SettlementRows

VARIABLES
  record,      \* loan_records
  settlement,  \* loan_settlements
  adjustment,  \* accounts.loan_balance_adjustment
  usable,      \* the accounts neither disabled nor archived
  cmd,         \* what each request asks for
  pc,          \* where its handler is
  seen,        \* the record it loaded
  base,        \* the adjustments of the accounts it loaded
  settled,     \* the sum of settlements it read
  reply,       \* how it was answered
  stale,       \* history: the records and accounts it read that others changed since
  raced        \* history: the records last settled or edited by a handler they were stale to

rows == <<record, settlement, adjustment, usable>>
history == <<stale, raced>>
vars == <<rows, cmd, pc, seen, base, settled, reply, history>>

-----------------------------------------------------------------------------
\* What a principal does to the balance of its account.
BalanceEffect(direction, amount) == IF direction = "given" THEN - amount ELSE amount
Effect(row) == BalanceEffect(row.direction, row.principal)

\* What a record adds to the adjustment of account a.
On(row, a) == IF row # NoRow /\ row.account = a THEN Effect(row) ELSE 0

Settlements(x) ==
  [s \in Requests |->
     IF settlement[s] # NoRow /\ settlement[s].record = x THEN settlement[s].amount ELSE 0]
SettledAmount(x) == SumFunctionOnSet(Settlements(x), Requests)

\* The row an UPDATE leaves: only what the handler changed is written.
Written(new, loaded, current) == IF new = loaded THEN current ELSE new

\* The accounts a handler reads.
Needs(r) ==
  LET c == cmd[r] IN
  IF c.op = "archive" THEN {}
  ELSE IF c.op = "edit" THEN {seen[r].account, c.account} \ {NoAccount, Keep}
  ELSE {c.account}

\* The record as an edit makes it.
Patched(r) ==
  LET c == cmd[r] IN
  [seen[r] EXCEPT !.direction = IF c.direction = Keep THEN @ ELSE c.direction,
                  !.principal = IF c.principal = Keep THEN @ ELSE c.principal,
                  !.account = IF c.account = Keep THEN @ ELSE c.account]

ApplyRecordState(row, sum) ==
  [row EXCEPT !.status = IF @ = "archived" THEN @
                         ELSE IF sum >= row.principal THEN "settled" ELSE "open"]

-----------------------------------------------------------------------------
Init ==
  /\ record = [x \in Records |->
       IF x \in Legacy
       THEN [direction |-> "given", principal |-> MaxAmount, account |-> NoAccount,
             status |-> "open"]
       ELSE NoRow]
  /\ settlement = [r \in Requests |-> NoRow]
  /\ adjustment = [a \in Accounts |-> 0]
  /\ usable = Accounts
  /\ cmd = [r \in Requests |-> NoRequest]
  /\ pc = [r \in Requests |-> "new"]
  /\ seen = [r \in Requests |-> NoRow]
  /\ base = [r \in Requests |-> << >>]
  /\ settled = [r \in Requests |-> 0]
  /\ reply = [r \in Requests |-> "none"]
  /\ stale = [r \in Requests |-> {}]
  /\ raced = {}

Answer(r, answer) ==
  /\ pc' = [pc EXCEPT ![r] = "done"]
  /\ reply' = [reply EXCEPT ![r] = answer]

GoTo(r, place) == pc' = [pc EXCEPT ![r] = place] /\ UNCHANGED reply

Active(r) == pc[r] \notin {"new", "done"}

\* The record and the accounts a handler at work has read.
Known(r) ==
  IF pc[r] \notin {"accounts", "commit"} THEN {}
  ELSE DOMAIN base[r] \cup (IF cmd[r].op = "create" THEN {} ELSE {cmd[r].record})

\* What a commit changes: records, by their row or by a settlement, and accounts.
Changed ==
  {x \in Records : \/ record'[x] # record[x]
                   \/ \E s \in Requests : settlement'[s] # settlement[s]
                                         /\ settlement'[s].record = x}
  \cup {a \in Accounts : adjustment'[a] # adjustment[a]}

\* History: what r commits is stale to the other handlers that have read it.
Overtake(r) ==
  stale' = [q \in Requests |-> IF q = r THEN {} ELSE stale[q] \cup (Known(q) \cap Changed)]

\* History: r settles or edits a record that is stale to it, or one that is not.
Race(r) ==
  raced' = IF cmd[r].record \in stale[r] THEN raced \cup {cmd[r].record}
           ELSE raced \ {cmd[r].record}

\* A request comes in; one about a record that does not exist is refused without a trace.
Arrive(r, c) ==
  /\ pc[r] = "new"
  /\ c.op # "create" => record[c.record] # NoRow
  /\ cmd' = [cmd EXCEPT ![r] = c]
  /\ GoTo(r, IF c.op = "create" THEN "accounts" ELSE "record")
  /\ UNCHANGED <<rows, seen, base, settled, history>>

\* get_record_model, and the refusal of an archived record.
LoadRecord(r) ==
  LET row == record[cmd[r].record] IN
  /\ pc[r] = "record"
  /\ IF row.status = "archived" /\ cmd[r].op # "archive"
     THEN Answer(r, "rejected") ELSE GoTo(r, "accounts")
  /\ seen' = [seen EXCEPT ![r] = row]
  /\ UNCHANGED <<rows, cmd, base, settled, history>>

\* get_account_model, the record's own account first: a disabled or archived account is
\* refused, unless it is the record's already.
LoadAccount(r, a) ==
  /\ pc[r] = "accounts"
  /\ a \in Needs(r) \ DOMAIN base[r]
  /\ cmd[r].op = "edit" /\ seen[r].account \notin {NoAccount, a} =>
       seen[r].account \in DOMAIN base[r]
  /\ IF a \in usable \/ (cmd[r].op = "edit" /\ a = seen[r].account)
     THEN GoTo(r, "accounts") ELSE Answer(r, "rejected")
  /\ base' = [base EXCEPT ![r] =
                [b \in DOMAIN @ \cup {a} |-> IF b = a THEN adjustment[a] ELSE @[b]]]
  /\ UNCHANGED <<rows, cmd, seen, settled, history>>

Loaded(r) == pc[r] = "accounts" /\ DOMAIN base[r] = Needs(r)

\* Mutant of SumSettlements: an edit is accepted whatever was settled.
SumForSettlementOnly(r) ==
  LET sum == SettledAmount(cmd[r].record) IN
  /\ Loaded(r)
  /\ cmd[r].op \in {"edit", "settle"}
  /\ IF cmd[r].op = "edit" \/ cmd[r].amount <= seen[r].principal - sum
     THEN GoTo(r, "commit") ELSE Answer(r, "rejected")
  /\ settled' = [settled EXCEPT ![r] = sum]
  /\ UNCHANGED <<rows, cmd, seen, base, history>>

\* calculate_settled_amount: a settlement must not exceed what is outstanding, nor may an
\* edit leave less principal than is settled.
SumSettlements(r) ==
  LET sum == SettledAmount(cmd[r].record) IN
  /\ Loaded(r)
  /\ cmd[r].op \in {"edit", "settle"}
  /\ IF \/ cmd[r].op = "edit" /\ sum <= Patched(r).principal
        \/ cmd[r].op = "settle" /\ cmd[r].amount <= seen[r].principal - sum
     THEN GoTo(r, "commit") ELSE Answer(r, "rejected")
  /\ settled' = [settled EXCEPT ![r] = sum]
  /\ UNCHANGED <<rows, cmd, seen, base, history>>

\* What the handler adds to each account it loaded is written over what the account has.
Adjust(r, delta) ==
  adjustment' = [a \in Accounts |->
    IF a \in DOMAIN base[r]
    THEN Written(base[r][a] + delta[a], base[r][a], adjustment[a]) ELSE adjustment[a]]

\* Mutant of Save: the whole row is written, with what the handler did not change.
SaveWhole(r, row) == record' = [record EXCEPT ![cmd[r].record] = row]

\* Of the handler's record what it changed is written over the row.
Save(r, row) ==
  record' = [record EXCEPT ![cmd[r].record] =
    [f \in DOMAIN @ |-> Written(row[f], seen[r][f], @[f])]]

\* create_record.
CommitRecord(r) ==
  LET c == cmd[r]
      row == [direction |-> c.direction, principal |-> c.principal, account |-> c.account,
              status |-> "open"] IN
  /\ Loaded(r)
  /\ c.op = "create"
  /\ record' = [record EXCEPT ![r] = row]
  /\ Adjust(r, [a \in Accounts |-> Effect(row)])
  /\ Answer(r, "ok")
  /\ UNCHANGED <<settlement, usable, cmd, seen, base, settled, raced>>
  /\ Overtake(r)

\* update_record: the effect of the record as loaded is reversed, that of the new one
\* applied.
CommitEdit(r) ==
  LET new == Patched(r) IN
  /\ pc[r] = "commit"
  /\ cmd[r].op = "edit"
  /\ Adjust(r, [a \in Accounts |-> On(new, a) - On(seen[r], a)])
  /\ Save(r, ApplyRecordState(new, settled[r]))
  /\ Answer(r, "ok")
  /\ UNCHANGED <<settlement, usable, cmd, seen, base, settled>>
  /\ Overtake(r) /\ Race(r)

\* Mutant of CommitSettlement: the record's state is computed without the new settlement.
CommitSettlementStale(r) ==
  LET c == cmd[r]
      effect == - BalanceEffect(seen[r].direction, c.amount) IN
  /\ pc[r] = "commit"
  /\ c.op = "settle"
  /\ settlement' = [settlement EXCEPT ![r] =
       [record |-> c.record, account |-> c.account, amount |-> c.amount, effect |-> effect]]
  /\ Adjust(r, [a \in Accounts |-> effect])
  /\ Save(r, ApplyRecordState(seen[r], settled[r]))
  /\ Answer(r, "ok")
  /\ UNCHANGED <<usable, cmd, seen, base, settled>>
  /\ Overtake(r) /\ Race(r)

\* create_settlement.
CommitSettlement(r) ==
  LET c == cmd[r]
      effect == - BalanceEffect(seen[r].direction, c.amount) IN
  /\ pc[r] = "commit"
  /\ c.op = "settle"
  /\ settlement' = [settlement EXCEPT ![r] =
       [record |-> c.record, account |-> c.account, amount |-> c.amount, effect |-> effect]]
  /\ Adjust(r, [a \in Accounts |-> effect])
  /\ Save(r, ApplyRecordState(seen[r], settled[r] + c.amount))
  /\ Answer(r, "ok")
  /\ UNCHANGED <<usable, cmd, seen, base, settled>>
  /\ Overtake(r) /\ Race(r)

\* archive_record: what the record did to its account stays.
CommitArchive(r) ==
  /\ pc[r] = "accounts"
  /\ cmd[r].op = "archive"
  /\ Save(r, [seen[r] EXCEPT !.status = "archived"])
  /\ Answer(r, "ok")
  /\ UNCHANGED <<settlement, adjustment, usable, cmd, seen, base, settled, raced>>
  /\ Overtake(r)

\* Refused for its person or dates, or lost: nothing was written.
Abort(r) ==
  /\ Active(r)
  /\ Answer(r, "error")
  /\ UNCHANGED <<rows, cmd, seen, base, settled, history>>

\* disable_account.
Disable(a) ==
  /\ a \in usable
  /\ usable' = usable \ {a}
  /\ UNCHANGED <<record, settlement, adjustment, cmd, pc, seen, base, settled, reply, history>>

Next ==
  \/ \E r \in Requests :
       \/ \E c \in Ask[r] : Arrive(r, c)
       \/ LoadRecord(r) \/ (\E a \in Accounts : LoadAccount(r, a)) \/ SumSettlements(r)
       \/ CommitRecord(r) \/ CommitEdit(r) \/ CommitSettlement(r) \/ CommitArchive(r)
       \/ Abort(r)
  \/ \E a \in Accounts : Disable(a)

Spec == Init /\ [][Next]_vars

-----------------------------------------------------------------------------
\* Records, settlements, adjustments and handlers keep their types, and a handler is over
\* exactly when it has answered.
TypeOK ==
  /\ record \in [Records -> RecordRows \cup {NoRow}]
  /\ settlement \in [Requests -> SettlementRows \cup {NoRow}]
  /\ adjustment \in [Accounts -> Int]
  /\ usable \subseteq Accounts
  /\ cmd \in [Requests -> CommandSet \cup {NoRequest}]
  /\ pc \in [Requests -> {"new", "record", "accounts", "commit", "done"}]
  /\ seen \in [Requests -> RecordRows \cup {NoRow}]
  /\ DOMAIN base = Requests
  /\ \A r \in Requests : DOMAIN base[r] \subseteq Accounts
                         /\ \A a \in DOMAIN base[r] : base[r][a] \in Int
  /\ settled \in [Requests -> Nat]
  /\ reply \in [Requests -> {"none", "ok", "rejected", "error"}]
  /\ \A r \in Requests : reply[r] = "none" <=> pc[r] # "done"
  /\ stale \in [Requests -> SUBSET (Records \cup Accounts)]
  /\ raced \subseteq Records

\* What a handler has read is what the database still holds, where it is not stale.
Reads(r) ==
  /\ Active(r) => cmd[r] \in CommandSet
  /\ pc[r] = "record" => cmd[r].op # "create"
  /\ Active(r) /\ cmd[r].op # "create" => record[cmd[r].record] # NoRow
  /\ pc[r] \in {"accounts", "commit"} /\ cmd[r].op # "create" =>
       /\ seen[r] # NoRow
       /\ cmd[r].record \notin stale[r] => seen[r] = record[cmd[r].record]
  /\ pc[r] \in {"accounts", "commit"} /\ cmd[r].op \in {"edit", "settle"} =>
       seen[r].status # "archived"
  /\ pc[r] \in {"new", "record"} => DOMAIN base[r] = {}
  /\ pc[r] \in {"accounts", "commit"} =>
       \A a \in DOMAIN base[r] : a \in Needs(r)
                                 /\ (a \notin stale[r] => base[r][a] = adjustment[a])

\* A handler about to commit has read all it needs, and its request fits what it read.
Ready(r) ==
  /\ cmd[r].op \in {"edit", "settle"}
  /\ DOMAIN base[r] = Needs(r)
  /\ cmd[r].record \notin stale[r] => settled[r] = SettledAmount(cmd[r].record)
  /\ cmd[r].op = "edit" => settled[r] <= Patched(r).principal
  /\ cmd[r].op = "settle" => cmd[r].amount <= seen[r].principal - settled[r]

ReadsHold == \A r \in Requests : Reads(r)
CommitsHold == \A r \in Requests : pc[r] = "commit" => Ready(r)

\* A handler still at work has inserted nothing, and what was settled exists.
RowsHold ==
  \A r \in Requests :
    /\ pc[r] # "done" => record[r] = NoRow /\ settlement[r] = NoRow
    /\ settlement[r] # NoRow => record[settlement[r].record] # NoRow

\* Settlements never exceed the principal, whatever is settled, edited and archived in
\* whatever order, unless the last settlement or edit of that record went by a row or a
\* sum that had changed since the handler read the record: overlapping handlers harm no
\* other record, and the next settlement or edit that is not overtaken leaves the record
\* within its principal again (create_settlement, update_record).
SettledWithinPrincipal ==
  \A x \in Records \ raced : record[x] # NoRow => SettledAmount(x) <= record[x].principal

\* A record that is not archived is settled exactly when its settlements meet its
\* principal: the last settlement settles it, a larger principal opens it again. Again
\* only a record whose last settlement or edit was overtaken may differ, and only until
\* the next one that is not (apply_record_state).
StatusFollowsSettlements ==
  \A x \in Records \ raced : record[x] # NoRow /\ record[x].status # "archived" =>
    (record[x].status = "settled" <=> SettledAmount(x) = record[x].principal)

\* What each record and each settlement adds to the adjustment of account a.
ByRecord(a) == [x \in Records |-> On(record[x], a)]
BySettlement(a) ==
  [s \in Requests |->
     IF settlement[s] # NoRow /\ settlement[s].account = a THEN settlement[s].effect ELSE 0]

\* How far the adjustment of an account is from what its records and settlements add up to.
Drift(a) ==
  adjustment[a] - SumFunctionOnSet(ByRecord(a), Records)
                - SumFunctionOnSet(BySettlement(a), Requests)

\* r commits over an adjustment that changed since it read it, or edits a record that did.
Overwrites(r, a) ==
  /\ Active(r) /\ pc'[r] = "done"
  /\ a \in stale[r] \/ (cmd[r].op = "edit" /\ cmd[r].record \in stale[r])

OnlyRacesDrift ==
  \A a \in Accounts : Drift(a)' # Drift(a) => \E r \in Requests : Overwrites(r, a)

\* The adjustment of an account is what its records and settlements add up to, after any
\* edits that move a record or change its direction or principal; an update is lost only
\* in a commit over an account, or an edit of a record, that changed since the handler
\* read it. Every other commit, also one of handlers that overlap on other accounts and one
\* after an update was lost, leaves the sums as right or wrong as they were (create_record,
\* update_record, create_settlement, archive_record).
AdjustmentsAddUp ==
  /\ \A a \in Accounts : Drift(a) = 0
  /\ [][OnlyRacesDrift]_vars

\* The inductive invariant the three follow from.
LoansInv ==
  /\ TypeOK /\ ReadsHold /\ CommitsHold /\ RowsHold
  /\ SettledWithinPrincipal /\ StatusFollowsSettlements

=============================================================================
