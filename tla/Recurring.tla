------------------------------ MODULE Recurring ------------------------------
(***************************************************************************)
(* Recurring rules of one user: creating, editing, pausing, resuming and   *)
(* archiving them, the queue of due reminders, and marking the current     *)
(* occurrence paid or received, which inserts the occurrence's transaction *)
(* under an idempotency key (modules/recurring, modules/transactions).     *)
(*                                                                         *)
(* Marking keeps the rule's row locked from its first read to its commit.  *)
(* The other handlers read the rule without a lock and write the columns   *)
(* they changed over whatever the row has become.                          *)
(*                                                                         *)
(* Instants are numbers. All months are MonthLength long, so the due day   *)
(* needs no clipping, and a time zone is a fixed offset.                   *)
(***************************************************************************)
EXTENDS Integers, FiniteSets

CONSTANTS
  Requests,     \* HTTP requests, each at most once
  Commands,     \* what a request may ask for: records, see CommandSet
  Rules,        \* rows of recurring_rules
  NewRule,      \* the row each rule is created as
  Terms,        \* account, category, amount and description of a rule
  Zones, Offset,  \* time zones and how far they are ahead of UTC
  Stamps,       \* paid_at and received_at: when the client says it was clicked
  Changes,      \* the PATCH bodies: functions from edited fields to values
  NoRequest, NoRow, NoEntry,  \* no request; no rule; no transaction
  Never,        \* a period never marked; an end date left open
  MonthLength,  \* bound: the length of a month
  LastInstant   \* bound: the clock stops here

Instants == 0 .. LastInstant
Types == {"expense", "income"}
Periods == Int

\* Rows of recurring_rules. Of the frequencies, monthly and daily stand for those that
\* can be marked and those that cannot.
Rows ==
  [status : {"active", "paused", "archived"}, archivedAt : BOOLEAN, type : Types,
   frequency : {"monthly", "daily"}, interval : Nat \ {0}, terms : Terms, zone : Zones,
   start : Int, end : Int \cup {Never}, nextRun : Int,
   paid : Periods \cup {Never}, received : Periods \cup {Never}]

\* The values a PATCH may give the fields it names. Account, category, amount and
\* description are one field, terms, which an edit sets as a whole.
FieldValues(f) ==
  CASE f = "type" -> Types
    [] f = "frequency" -> {"monthly", "daily"}
    [] f = "interval" -> Nat \ {0}
    [] f = "terms" -> Terms
    [] f = "zone" -> Zones
    [] f = "start" -> Int
    [] f = "end" -> Int \cup {Never}
EditFields == {"type", "frequency", "interval", "terms", "zone", "start", "end"}

Marks == {"expense", "income"}
CommandSet ==
  [op : Marks, rule : Rules, stamp : Stamps]
  \cup [op : {"edit"}, rule : Rules, change : Changes]
  \cup [op : {"pause", "resume", "archive"}, rule : Rules]

\* The transactions marking inserts, with the occurrence their idempotency key names
\* (rule, kind of mark, period) and what their request hash covers.
Entries == [rule : Rules, type : Types, period : Periods, terms : Terms, stamp : Stamps]

ASSUME RecurringAssumption ==
  /\ Commands \subseteq CommandSet
  /\ NoRequest \notin Requests \cup Commands
  /\ NoRow \notin Rows
  /\ NoEntry \notin Entries
  /\ Never \notin Int
  /\ MonthLength \in Nat \ {0}
  /\ LastInstant \in Nat
  /\ Offset \in [Zones -> Int]
  /\ NewRule \in [Rules -> Rows]
  /\ \A x \in Rules : /\ NewRule[x].status = "active" /\ ~ NewRule[x].archivedAt
                       /\ NewRule[x].paid = Never /\ NewRule[x].received = Never
  /\ \A change \in Changes :
       /\ DOMAIN change \subseteq EditFields
       /\ \A f \in DOMAIN change : change[f] \in FieldValues(f)

VARIABLES
  now,      \* the clock
  rule,     \* recurring_rules
  entries,  \* the transactions inserted by marking, with their idempotency records
  rowLock,  \* the request whose transaction holds the row's FOR UPDATE lock
  cmd,      \* what each request asks for
  pc,       \* where its handler is
  at,       \* the instant the handler took as the current one
  seen,     \* the row it loaded
  entry,    \* the transaction it is about to answer with
  reply     \* how it was answered

requestVars == <<cmd, pc, at, seen, entry, reply>>
vars == <<now, rule, entries, rowLock, requestVars>>

-----------------------------------------------------------------------------
Local(t, zone) == t + Offset[zone]

\* recurring_period_key: the month of an instant in the rule's time zone.
Period(t, zone) == Local(t, zone) \div MonthLength

\* is_monthly_due_window: from the due day of the month on, the first month's on.
DueDayReached(row, t) ==
  /\ Period(t, row.zone) >= Period(row.start, row.zone)
  /\ Local(t, row.zone) % MonthLength >= Local(row.start, row.zone) % MonthLength

\* is_monthly_recurring_due without its look at status: every interval months.
InDueWindow(row, t) ==
  /\ row.frequency = "monthly"
  /\ (Period(t, row.zone) - Period(row.start, row.zone)) % row.interval = 0
  /\ DueDayReached(row, t)

\* The completion marker of the rule's kind: last_paid_period, last_received_period.
Marked(row, type) == IF type = "expense" THEN row.paid ELSE row.received

Ended(row, t) == row.end # Never /\ t >= row.end

\* list_due_expense_reminders and list_due_income_reminders: is the rule in the queue?
Reminded(row, t) ==
  /\ row.status = "active" /\ ~ row.archivedAt
  /\ ~ Ended(row, t) /\ InDueWindow(row, t)
  /\ Marked(row, row.type) # Period(t, row.zone)

\* calculate_next_run_on_or_after.
NextRun(row, t) ==
  LET step == IF row.frequency = "monthly" THEN row.interval * MonthLength ELSE row.interval
  IN  IF row.start >= t THEN row.start
      ELSE row.start + step * ((t - row.start) \div step + 1)

\* validate_schedule_bounds.
InBounds(row) == row.end # Never => row.start < row.end /\ row.nextRun < row.end

\* What mark_expense_paid and mark_income_received require of the rule: an occurrence
\* that is marked already passes, as the replay it may be.
Markable(row, type, t) ==
  /\ row.status = "active" /\ ~ row.archivedAt
  /\ row.type = type /\ row.frequency = "monthly"
  /\ \/ Marked(row, type) = Period(t, row.zone)
     \/ ~ Ended(row, t) /\ InDueWindow(row, t)

SameOccurrence(e, f) == e.rule = f.rule /\ e.type = f.type /\ e.period = f.period

\* The transaction a mark asks for.
Wanted(r) ==
  [rule |-> cmd[r].rule, type |-> cmd[r].op, terms |-> seen[r].terms,
   period |-> Period(at[r], seen[r].zone), stamp |-> cmd[r].stamp]

-----------------------------------------------------------------------------
Init ==
  /\ now = 0
  /\ rule = [x \in Rules |-> NoRow]
  /\ entries = {}
  /\ rowLock = [x \in Rules |-> NoRequest]
  /\ cmd = [r \in Requests |-> NoRequest]
  /\ pc = [r \in Requests |-> "new"]
  /\ at = [r \in Requests |-> 0]
  /\ seen = [r \in Requests |-> NoRow]
  /\ entry = [r \in Requests |-> NoEntry]
  /\ reply = [r \in Requests |-> "none"]

Answer(r, answer) ==
  /\ pc' = [pc EXCEPT ![r] = "done"]
  /\ reply' = [reply EXCEPT ![r] = answer]

Unlock(r) == rowLock' = [x \in Rules |-> IF rowLock[x] = r THEN NoRequest ELSE rowLock[x]]

\* create_rule: the first run is the start date.
CreateRule(x) ==
  LET row == [NewRule[x] EXCEPT !.nextRun = NewRule[x].start] IN
  /\ rule[x] = NoRow
  /\ InBounds(row)
  /\ rule' = [rule EXCEPT ![x] = row]
  /\ UNCHANGED <<now, entries, rowLock, requestVars>>

\* A request comes in; a mark reads the clock before anything else.
Arrive(r, c) ==
  /\ pc[r] = "new"
  /\ rule[c.rule] # NoRow
  /\ cmd' = [cmd EXCEPT ![r] = c]
  /\ pc' = [pc EXCEPT ![r] = "load"]
  /\ at' = [at EXCEPT ![r] = IF c.op \in Marks THEN now ELSE 0]
  /\ UNCHANGED <<now, rule, entries, rowLock, seen, entry, reply>>

\* Mutant of Lock: the rule is read without FOR UPDATE.
ReadUnlocked(r) ==
  /\ pc[r] = "load"
  /\ cmd[r].op \in Marks
  /\ pc' = [pc EXCEPT ![r] = "locked"]
  /\ seen' = [seen EXCEPT ![r] = rule[cmd[r].rule]]
  /\ UNCHANGED <<now, rule, entries, rowLock, cmd, at, entry, reply>>

\* get_owned_for_update: waits for the lock and reads the row as it is then.
Lock(r) ==
  LET x == cmd[r].rule IN
  /\ pc[r] = "load"
  /\ cmd[r].op \in Marks
  /\ rowLock[x] = NoRequest
  /\ rowLock' = [rowLock EXCEPT ![x] = r]
  /\ pc' = [pc EXCEPT ![r] = "locked"]
  /\ seen' = [seen EXCEPT ![r] = rule[x]]
  /\ UNCHANGED <<now, rule, entries, cmd, at, entry, reply>>

\* A mark is refused: for the state of the rule, because an occurrence that is marked is
\* asked for with another request hash, or for its account, category or balance.
Refuse(r) ==
  /\ pc[r] = "locked"
  /\ \/ /\ ~ Markable(seen[r], cmd[r].op, at[r])
        /\ Answer(r, "rejected")
     \/ /\ \E e \in entries : SameOccurrence(e, Wanted(r)) /\ e # Wanted(r)
        /\ Answer(r, "conflict")
     \/ /\ \A e \in entries : ~ SameOccurrence(e, Wanted(r))
        /\ Answer(r, "rejected")
  /\ Unlock(r)
  /\ UNCHANGED <<now, rule, entries, cmd, at, seen, entry>>

\* Mutant of Record: the transaction is created without an idempotency key.
RecordUnkeyed(r) ==
  /\ pc[r] = "locked"
  /\ Markable(seen[r], cmd[r].op, at[r])
  /\ entry' = [entry EXCEPT ![r] = Wanted(r)]
  /\ pc' = [pc EXCEPT ![r] = "commit"]
  /\ UNCHANGED <<now, rule, entries, rowLock, cmd, at, seen, reply>>

\* create_transaction(commit=False): the transaction is flushed, or the one recorded for
\* the occurrence under the same request hash is returned.
Record(r) ==
  /\ pc[r] = "locked"
  /\ Markable(seen[r], cmd[r].op, at[r])
  /\ \A e \in entries : SameOccurrence(e, Wanted(r)) => e = Wanted(r)
  /\ entry' = [entry EXCEPT ![r] = Wanted(r)]
  /\ pc' = [pc EXCEPT ![r] = "commit"]
  /\ UNCHANGED <<now, rule, entries, rowLock, cmd, at, seen, reply>>

\* What an UPDATE leaves of a row: the session writes the columns that differ from what
\* it loaded.
Written(current, loaded, changed) ==
  [f \in DOMAIN current |-> IF changed[f] # loaded[f] THEN changed[f] ELSE current[f]]

\* The rule with its completion marker set.
Completed(row, type, period) ==
  IF type = "expense" THEN [row EXCEPT !.paid = period] ELSE [row EXCEPT !.received = period]

\* Mutant of CommitMark: the marker is committed without the transaction.
CommitMarkerOnly(r) ==
  /\ pc[r] = "commit"
  /\ cmd[r].op \in Marks
  /\ rule' = [rule EXCEPT ![cmd[r].rule] = Completed(@, cmd[r].op, entry[r].period)]
  /\ Unlock(r)
  /\ Answer(r, "ok")
  /\ UNCHANGED <<now, entries, cmd, at, seen, entry>>

\* Transaction, idempotency record and marker are committed together.
CommitMark(r) ==
  LET x == cmd[r].rule IN
  /\ pc[r] = "commit"
  /\ cmd[r].op \in Marks
  /\ entries' = entries \cup {entry[r]}
  /\ rule' = [rule EXCEPT ![x] =
                Written(@, seen[r], Completed(seen[r], cmd[r].op, entry[r].period))]
  /\ Unlock(r)
  /\ Answer(r, "ok")
  /\ UNCHANGED <<now, cmd, at, seen, entry>>

\* Is there nothing to do for a pause, a resume or an archive?
InPlace(op, status) ==
  \/ op = "pause" /\ status = "paused"
  \/ op = "resume" /\ status = "active"
  \/ op = "archive" /\ status = "archived"

\* update_rule, pause_rule, resume_rule and archive_rule read the rule; an archived rule
\* is only archived again, and an update may be refused for its account or category.
LoadRule(r) ==
  LET c == cmd[r]
      row == rule[c.rule]
      refused == row.status = "archived" /\ c.op # "archive"
  IN
  /\ pc[r] = "load"
  /\ c.op \notin Marks
  /\ \/ /\ refused \/ c.op = "edit"
        /\ Answer(r, "rejected")
        /\ UNCHANGED seen
     \/ /\ ~ refused /\ InPlace(c.op, row.status)
        /\ Answer(r, "ok")
        /\ UNCHANGED seen
     \/ /\ ~ refused /\ ~ InPlace(c.op, row.status)
        /\ seen' = [seen EXCEPT ![r] = row]
        /\ pc' = [pc EXCEPT ![r] = "commit"]
        /\ UNCHANGED reply
  /\ UNCHANGED <<now, rule, entries, rowLock, cmd, at, entry>>

\* The row with the fields a PATCH names, and its next run from now on.
Patched(row, change) ==
  LET edited == [f \in DOMAIN row |-> IF f \in DOMAIN change THEN change[f] ELSE row[f]]
  IN  [edited EXCEPT !.nextRun = NextRun(edited, now)]

\* Mutant of Changed: archiving sets the status alone.
ChangedStatus(c, row) ==
  CASE c.op = "edit" -> Patched(row, c.change)
    [] c.op = "pause" -> [row EXCEPT !.status = "paused"]
    [] c.op = "resume" -> [row EXCEPT !.status = "active", !.nextRun = NextRun(row, now)]
    [] c.op = "archive" -> [row EXCEPT !.status = "archived"]

\* The rule as the handler leaves it in its session.
Changed(c, row) ==
  CASE c.op = "edit" -> Patched(row, c.change)
    [] c.op = "pause" -> [row EXCEPT !.status = "paused"]
    [] c.op = "resume" -> [row EXCEPT !.status = "active", !.nextRun = NextRun(row, now)]
    [] c.op = "archive" -> [row EXCEPT !.status = "archived", !.archivedAt = TRUE]

\* The change is checked and committed. The UPDATE waits for a mark that holds the row,
\* and fails on the check constraint when it and another edit leave the rule without a
\* start before its end.
CommitChange(r) ==
  LET x == cmd[r].rule
      changed == Changed(cmd[r], seen[r])
      row == Written(rule[x], seen[r], changed)
      bounded == cmd[r].op \in {"edit", "resume"} => InBounds(changed)
  IN
  /\ pc[r] = "commit"
  /\ cmd[r].op \notin Marks
  /\ \/ /\ ~ bounded
        /\ Answer(r, "rejected")
        /\ UNCHANGED rule
     \/ /\ bounded /\ rowLock[x] = NoRequest
        /\ row.end # Never => row.start < row.end
        /\ rule' = [rule EXCEPT ![x] = row]
        /\ Answer(r, "ok")
     \/ /\ bounded /\ rowLock[x] = NoRequest
        /\ row.end # Never /\ row.start >= row.end
        /\ Answer(r, "error")
        /\ UNCHANGED rule
  /\ UNCHANGED <<now, entries, rowLock, cmd, at, seen, entry>>

\* The connection or the process is lost: the transaction is rolled back, its lock freed.
Abort(r) ==
  /\ pc[r] \notin {"new", "done"}
  /\ Unlock(r)
  /\ Answer(r, "error")
  /\ UNCHANGED <<now, rule, entries, cmd, at, seen, entry>>

Tick ==
  /\ now < LastInstant
  /\ now' = now + 1
  /\ UNCHANGED <<rule, entries, rowLock, requestVars>>

Handle(r) ==
  \/ Lock(r) \/ Refuse(r) \/ Record(r) \/ CommitMark(r)
  \/ LoadRule(r) \/ CommitChange(r)
  \/ Abort(r)

Next ==
  \/ Tick
  \/ \E x \in Rules : CreateRule(x)
  \/ \E r \in Requests : Handle(r) \/ \E c \in Commands : Arrive(r, c)

Spec == Init /\ [][Next]_vars

-----------------------------------------------------------------------------
\* Rules, transactions and handlers keep their types.
TypeOK ==
  /\ now \in Instants
  /\ rule \in [Rules -> Rows \cup {NoRow}]
  /\ entries \subseteq Entries
  /\ rowLock \in [Rules -> Requests \cup {NoRequest}]
  /\ cmd \in [Requests -> Commands \cup {NoRequest}]
  /\ pc \in [Requests -> {"new", "load", "locked", "commit", "done"}]
  /\ at \in [Requests -> Instants]
  /\ seen \in [Requests -> Rows \cup {NoRow}]
  /\ entry \in [Requests -> Entries \cup {NoEntry}]
  /\ reply \in [Requests -> {"none", "ok", "rejected", "conflict", "error"}]
  /\ \A r \in Requests : /\ reply[r] = "none" <=> pc[r] # "done"
                         /\ cmd[r] = NoRequest <=> pc[r] = "new"

\* However often and from however many clients an occurrence is marked, however the rule
\* is edited meanwhile and the clock moves on, it has one transaction (the idempotency key
\* recurring-expense-paid:{rule}:{period} of mark_expense_paid, and that of
\* mark_income_received).
OncePerOccurrence == \A e, f \in entries : SameOccurrence(e, f) => e = f

\* A completion marker on a rule, whatever edits, pauses and aborts came between, means
\* that the occurrence's transaction exists (the common commit of mark_expense_paid).
MarkerHasEntry ==
  \A x \in Rules : rule[x] # NoRow =>
    \A type \in Types : Marked(rule[x], type) # Never =>
      \E e \in entries : /\ e.rule = x /\ e.type = type
                         /\ e.period = Marked(rule[x], type)

\* A transaction is inserted only for a rule that is active and not archived when it is
\* committed, and with the account, category and amount the rule has at that moment: no
\* pause, archive or edit comes between the check and the commit (get_owned_for_update).
EntryFollowsRule ==
  [][\A e \in entries' \ entries :
       LET row == rule[e.rule] IN
       /\ row.status = "active" /\ ~ row.archivedAt
       /\ row.type = e.type /\ row.terms = e.terms]_vars

\* After an archive was confirmed the rule is in no queue of reminders again, even where a
\* pause, a resume or an edit that had loaded it before is committed over the archived row
\* (archive_rule, list_active_monthly_expenses).
ArchivedNeverReminded ==
  \A r \in Requests :
    reply[r] = "ok" /\ cmd[r].op = "archive" => ~ Reminded(rule[cmd[r].rule], now)

\* The inductive invariant behind them: a mark holds its rule's row from the read to the
\* commit, and the row stays what it read;
LocksHeld ==
  /\ \A r \in Requests : pc[r] # "new" => rule[cmd[r].rule] # NoRow
  /\ \A r \in Requests : pc[r] = "locked" => cmd[r].op \in Marks
  /\ \A r \in Requests :
       pc[r] \in {"locked", "commit"} /\ cmd[r].op \in Marks =>
         rowLock[cmd[r].rule] = r /\ seen[r] = rule[cmd[r].rule]
  /\ \A x \in Rules : rowLock[x] # NoRequest =>
       /\ pc[rowLock[x]] \in {"locked", "commit"}
       /\ cmd[rowLock[x]].op \in Marks /\ cmd[rowLock[x]].rule = x

\* what it will insert is what it checked, and clashes with nothing inserted since;
Checked ==
  \A r \in Requests : pc[r] = "commit" =>
    /\ seen[r] \in Rows
    /\ cmd[r].op \in Marks =>
         /\ Markable(seen[r], cmd[r].op, at[r])
         /\ entry[r] = Wanted(r)
         /\ \A e \in entries : SameOccurrence(e, Wanted(r)) => e = Wanted(r)

\* and archived_at, once set, stays set, whatever becomes of the status.
ArchiveKept ==
  /\ \A x \in Rules :
       rule[x] # NoRow /\ rule[x].status = "archived" => rule[x].archivedAt
  /\ \A r \in Requests :
       pc[r] = "commit" /\ seen[r].archivedAt => rule[cmd[r].rule].archivedAt
  /\ \A r \in Requests :
       reply[r] = "ok" /\ cmd[r].op = "archive" => rule[cmd[r].rule].archivedAt

IInv ==
  TypeOK /\ OncePerOccurrence /\ MarkerHasEntry /\ LocksHeld /\ Checked /\ ArchiveKept
=============================================================================
