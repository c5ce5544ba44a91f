---------------------------- MODULE PeriodProofs ----------------------------
(***************************************************************************)
(* What holds of recurring rules, for any rules, requests, time zones and  *)
(* lengths of months and of time, of reports, for any rows, ranges and     *)
(* periods of budgets, and of schedules, for any start, interval and zone  *)
(* of two offsets.                                                         *)
(*                                                                         *)
(* Recurring rules: IInv is inductive; an occurrence has one transaction,  *)
(* a marker means that it exists, transactions follow their rules, and     *)
(* archived rules stay out of the queue.                                   *)
(*                                                                         *)
(* Reports: first the calendar, whose months are months of a cycle of four *)
(* years; then the buckets of a range, which are defined by recursion over *)
(* the instants that are left and exist because there is a last one; then  *)
(* ReportsInv, by which the answers are those of the plan and still have   *)
(* the right of what was not written; then what the figures of a report    *)
(* have to do with each other.                                             *)
(*                                                                         *)
(* Schedules: first local times, which are of one instant (RoundTrip) and  *)
(* keep the order of instants while the clock is steady (CalmOrder);       *)
(* then the days of a schedule's runs, numbered (NamedDays), and that the  *)
(* code's arithmetic finds the number of the next (NextRunOf, DueIsRun).   *)
(***************************************************************************)
EXTENDS Recurring, Reports, Schedule, Sums, SequenceTheorems

-----------------------------------------------------------------------------
\* Recurring rules

\* What a command says of itself by its operation.
LEMMA CommandShape ==
  ASSUME NEW c \in Commands
  PROVE  /\ c.rule \in Rules
         /\ c.op \in Marks => c.op \in Types /\ c.stamp \in Stamps
         /\ c.op = "edit" => c.change \in Changes
         /\ c.op \notin Marks => c.op \in {"edit", "pause", "resume", "archive"}
  <1>1. c \in CommandSet
    BY RecurringAssumption
  <1>2. QED
    BY <1>1, SMTT(30) DEF CommandSet, Marks, Types

\* The period an instant is in is a number.
LEMMA PeriodShape ==
  ASSUME NEW t \in Int, NEW zone \in Zones
  PROVE  Period(t, zone) \in Int
  BY RecurringAssumption DEF Period, Local

\* What a rule runs next is a number.
LEMMA NextRunShape ==
  ASSUME NEW row \in Rows, NEW t \in Int
  PROVE  NextRun(row, t) \in Int
  <1> DEFINE step == IF row.frequency = "monthly" THEN row.interval * MonthLength
                     ELSE row.interval
  <1>1. row.start \in Int /\ row.interval \in Nat \ {0}
    BY DEF Rows
  <1>2. row.interval * MonthLength \in Nat \ {0}
    BY <1>1, RecurringAssumption, SMTT(30)
  <1>3. step \in Nat \ {0}
    BY <1>1, <1>2
  <1>4. ASSUME NEW s \in Nat \ {0}
        PROVE  row.start + s * ((t - row.start) \div s + 1) \in Int
    <2>1. (t - row.start) \div s \in Int
      BY <1>1, <1>4
    <2>2. QED
      BY <1>1, <1>4, <2>1
  <1>5. row.start + step * ((t - row.start) \div step + 1) \in Int
    BY <1>3, <1>4
  <1>6. QED
    BY <1>1, <1>5 DEF NextRun

\* What an UPDATE leaves is a rule, column by column the changed or the current value.
LEMMA WrittenShape ==
  ASSUME NEW current \in Rows, NEW loaded \in Rows, NEW changed \in Rows
  PROVE  LET row == Written(current, loaded, changed) IN
         /\ row \in Rows
         /\ row.status \in {current.status, changed.status}
         /\ row.status # current.status => changed.status # loaded.status
         /\ row.archivedAt =
              IF changed.archivedAt # loaded.archivedAt THEN changed.archivedAt
              ELSE current.archivedAt
         /\ changed.paid = loaded.paid => row.paid = current.paid
         /\ changed.received = loaded.received => row.received = current.received
  BY SMTT(30) DEF Written, Rows

\* Nobody else changed the row: the UPDATE leaves what the session has.
LEMMA WrittenAlone ==
  ASSUME NEW current \in Rows, NEW changed \in Rows
  PROVE  Written(current, current, changed) = changed
  BY SMTT(30) DEF Written, Rows

\* Setting the marker changes nothing else.
LEMMA CompletedShape ==
  ASSUME NEW row \in Rows, NEW type \in Types, NEW period \in Int
  PROVE  /\ Completed(row, type, period) \in Rows
         /\ Marked(Completed(row, type, period), type) = period
         /\ \A other \in Types : other # type =>
              Marked(Completed(row, type, period), other) = Marked(row, other)
         /\ Completed(row, type, period).status = row.status
         /\ Completed(row, type, period).archivedAt = row.archivedAt
  BY SMTT(30) DEF Completed, Marked, Rows, Types, Periods

\* A patched rule is a rule that kept its status, archived_at and markers.
LEMMA PatchedShape ==
  ASSUME NEW row \in Rows, NEW change \in Changes, now \in Instants
  PROVE  LET patched == Patched(row, change) IN
         /\ patched \in Rows
         /\ patched.status = row.status /\ patched.archivedAt = row.archivedAt
         /\ patched.paid = row.paid /\ patched.received = row.received
  <1> DEFINE edited == [f \in DOMAIN row |->
                          IF f \in DOMAIN change THEN change[f] ELSE row[f]]
  <1>1. DOMAIN row = {"status", "archivedAt", "type", "frequency", "interval", "terms",
                      "zone", "start", "end", "nextRun", "paid", "received"}
    BY DEF Rows
  <1>2. /\ DOMAIN change \subseteq EditFields
        /\ \A f \in DOMAIN change : change[f] \in FieldValues(f)
    BY RecurringAssumption
  <1>3. /\ edited.type \in Types
        /\ edited.frequency \in {"monthly", "daily"}
        /\ edited.interval \in Nat \ {0}
        /\ edited.terms \in Terms
    BY <1>1, <1>2 DEF FieldValues, Rows
  <1>4. /\ edited.zone \in Zones
        /\ edited.start \in Int
        /\ edited.end \in Int \cup {Never}
    BY <1>1, <1>2 DEF FieldValues, Rows
  <1>5. /\ edited.status = row.status /\ edited.archivedAt = row.archivedAt
        /\ edited.nextRun = row.nextRun
        /\ edited.paid = row.paid /\ edited.received = row.received
    BY <1>1, <1>2 DEF EditFields
  <1>6. edited = [status |-> edited.status, archivedAt |-> edited.archivedAt,
                  type |-> edited.type, frequency |-> edited.frequency,
                  interval |-> edited.interval, terms |-> edited.terms,
                  zone |-> edited.zone, start |-> edited.start, end |-> edited.end,
                  nextRun |-> edited.nextRun, paid |-> edited.paid,
                  received |-> edited.received]
    BY <1>1
  <1>7. /\ row.status \in {"active", "paused", "archived"} /\ row.archivedAt \in BOOLEAN
        /\ row.nextRun \in Int
        /\ row.paid \in Periods \cup {Never} /\ row.received \in Periods \cup {Never}
    BY DEF Rows
  <1>8. edited \in Rows
    BY <1>3, <1>4, <1>5, <1>6, <1>7 DEF Rows
  <1>9. NextRun(edited, now) \in Int
    <2>1. now \in Int
      BY RecurringAssumption DEF Instants
    <2>2. QED
      BY <1>8, <2>1, NextRunShape
  <1>10. Patched(row, change) = [edited EXCEPT !.nextRun = NextRun(edited, now)]
    BY DEF Patched
  <1> HIDE DEF edited
  <1>11. QED
    BY <1>5, <1>8, <1>9, <1>10 DEF Rows

\* What a handler without a lock makes of the rule it loaded.
LEMMA ChangedShape ==
  ASSUME NEW c \in Commands, c.op \notin Marks, NEW row \in Rows, now \in Instants
  PROVE  LET changed == Changed(c, row) IN
         /\ changed \in Rows
         /\ changed.paid = row.paid /\ changed.received = row.received
         /\ row.archivedAt => changed.archivedAt
         /\ c.op = "archive" => changed.archivedAt
         /\ changed.status = "archived" /\ row.status # "archived" => c.op = "archive"
  <1>1. CASE c.op = "edit"
    BY <1>1, CommandShape, PatchedShape DEF Changed
  <1>2. CASE c.op = "pause"
    BY <1>2 DEF Changed, Rows
  <1>3. CASE c.op = "archive"
    BY <1>3 DEF Changed, Rows
  <1>4. CASE c.op = "resume"
    <2>1. NextRun(row, now) \in Int
      BY NextRunShape, RecurringAssumption DEF Instants
    <2>2. QED
      BY <1>4, <2>1 DEF Changed, Rows
  <1>5. QED
    BY <1>1, <1>2, <1>3, <1>4, CommandShape

\* The invariant holds at first.
LEMMA InitInv == Init => IInv
  BY RecurringAssumption
     DEF Init, IInv, TypeOK, OncePerOccurrence, MarkerHasEntry, LocksHeld, Checked,
         ArchiveKept, Instants

\* A request that came in has a command about a rule that exists.
LEMMA Running ==
  ASSUME IInv, NEW r \in Requests, pc[r] # "new"
  PROVE  /\ cmd[r] \in Commands
         /\ cmd[r].rule \in Rules
         /\ rule[cmd[r].rule] \in Rows
  <1>1. cmd[r] \in Commands
    BY DEF IInv, TypeOK
  <1>2. QED
    BY <1>1, CommandShape DEF IInv, TypeOK, LocksHeld

\* A mark asks for a transaction of its rule.
LEMMA WantedShape ==
  ASSUME IInv, NEW r \in Requests, pc[r] \in {"locked", "commit"}, cmd[r].op \in Marks
  PROVE  /\ Wanted(r) \in Entries
         /\ Wanted(r).rule = cmd[r].rule /\ Wanted(r).type = cmd[r].op
  <1>1. /\ cmd[r] \in Commands
        /\ cmd[r].rule \in Rules /\ cmd[r].op \in Types /\ cmd[r].stamp \in Stamps
    BY CommandShape DEF IInv, TypeOK
  <1>2. seen[r] \in Rows
    BY Running DEF IInv, LocksHeld
  <1>3. seen[r].terms \in Terms /\ seen[r].zone \in Zones
    BY <1>2 DEF Rows
  <1>4. Period(at[r], seen[r].zone) \in Int
    BY <1>3, PeriodShape DEF IInv, TypeOK, Instants
  <1>5. QED
    BY <1>1, <1>3, <1>4 DEF Wanted, Entries, Periods

\* A request comes in: the invariant is kept.
LEMMA ArriveInv ==
  ASSUME IInv, NEW r \in Requests, NEW c \in Commands, Arrive(r, c)
  PROVE  IInv'
  <1>1. TypeOK'
    BY RecurringAssumption DEF IInv, TypeOK, Arrive, Instants
  <1>2. OncePerOccurrence' /\ MarkerHasEntry'
    BY DEF IInv, OncePerOccurrence, MarkerHasEntry, Arrive
  <1>3. LocksHeld'
    BY DEF IInv, TypeOK, LocksHeld, Arrive
  <1>4. Checked'
    BY DEF IInv, TypeOK, Checked, Arrive, Wanted
  <1>5. ArchiveKept'
    BY DEF IInv, TypeOK, ArchiveKept, Arrive
  <1>6. QED
    BY <1>1, <1>2, <1>3, <1>4, <1>5 DEF IInv

\* A mark locks and reads the rule: the invariant is kept.
LEMMA LockInv ==
  ASSUME IInv, NEW r \in Requests, Lock(r)
  PROVE  IInv'
  <1>1. TypeOK'
    BY Running DEF IInv, TypeOK, Lock
  <1>2. OncePerOccurrence' /\ MarkerHasEntry'
    BY DEF IInv, OncePerOccurrence, MarkerHasEntry, Lock
  <1>3. LocksHeld'
    BY RecurringAssumption, Running DEF IInv, TypeOK, LocksHeld, Lock
  <1>4. Checked'
    BY DEF IInv, TypeOK, Checked, Lock, Wanted
  <1>5. ArchiveKept'
    BY DEF IInv, ArchiveKept, Lock
  <1>6. QED
    BY <1>1, <1>2, <1>3, <1>4, <1>5 DEF IInv

\* A mark is refused: the invariant is kept.
LEMMA RefuseInv ==
  ASSUME IInv, NEW r \in Requests, Refuse(r)
  PROVE  IInv'
  <1>1. TypeOK'
    BY DEF IInv, TypeOK, Refuse, Unlock, Answer
  <1>2. OncePerOccurrence' /\ MarkerHasEntry'
    BY DEF IInv, OncePerOccurrence, MarkerHasEntry, Refuse
  <1>3. LocksHeld'
    BY Running DEF IInv, TypeOK, LocksHeld, Refuse, Unlock, Answer
  <1>4. Checked'
    BY DEF IInv, TypeOK, Checked, Refuse, Answer, Wanted
  <1>5. ArchiveKept'
    BY DEF IInv, TypeOK, ArchiveKept, Refuse, Answer
  <1>6. QED
    BY <1>1, <1>2, <1>3, <1>4, <1>5 DEF IInv

\* A mark has its transaction flushed: the invariant is kept.
LEMMA RecordInv ==
  ASSUME IInv, NEW r \in Requests, Record(r)
  PROVE  IInv'
  <1>1. TypeOK'
    BY WantedShape DEF IInv, TypeOK, LocksHeld, Record
  <1>2. OncePerOccurrence' /\ MarkerHasEntry'
    BY DEF IInv, OncePerOccurrence, MarkerHasEntry, Record
  <1>3. LocksHeld'
    BY DEF IInv, LocksHeld, Record
  <1>4. Checked'
    BY DEF IInv, TypeOK, LocksHeld, Checked, Record, Wanted
  <1>5. ArchiveKept'
    BY DEF IInv, LocksHeld, ArchiveKept, Record
  <1>6. QED
    BY <1>1, <1>2, <1>3, <1>4, <1>5 DEF IInv

\* Another request reads the rule: the invariant is kept.
LEMMA LoadRuleInv ==
  ASSUME IInv, NEW r \in Requests, LoadRule(r)
  PROVE  IInv'
  <1>1. TypeOK'
    <2>1. /\ rule[cmd[r].rule] \in Rows
          /\ UNCHANGED <<now, rule, entries, rowLock, cmd, at, entry>>
          /\ \/ /\ \E answer \in {"ok", "rejected"} : Answer(r, answer)
                /\ UNCHANGED seen
             \/ /\ seen' = [seen EXCEPT ![r] = rule[cmd[r].rule]]
                /\ pc' = [pc EXCEPT ![r] = "commit"]
                /\ UNCHANGED reply
      BY Running DEF LoadRule
    <2>2. pc[r] = "load"
      BY DEF LoadRule
    <2>3. QED
      BY <2>1, <2>2 DEF IInv, TypeOK, Answer
  <1>2. OncePerOccurrence' /\ MarkerHasEntry'
    BY DEF IInv, OncePerOccurrence, MarkerHasEntry, LoadRule
  <1>3. LocksHeld'
    BY CommandShape DEF IInv, TypeOK, LocksHeld, LoadRule, Answer
  <1>4. Checked'
    BY CommandShape, RecurringAssumption, SMTT(30)
       DEF IInv, TypeOK, LocksHeld, Checked, LoadRule, Answer, Wanted
  <1>5. ArchiveKept'
    <2>1. UNCHANGED <<rule, cmd>> /\ rule[cmd[r].rule] # NoRow
      BY DEF LoadRule, IInv, LocksHeld
    <2>2. pc'[r] = "commit" => seen'[r] = rule[cmd[r].rule]
      BY DEF IInv, TypeOK, LoadRule, Answer
    <2>3. reply'[r] = "ok" /\ cmd[r].op = "archive" =>
            reply[r] = "ok" \/ rule[cmd[r].rule].status = "archived"
      BY DEF IInv, TypeOK, LoadRule, Answer, InPlace
    <2>4. \A q \in Requests \ {r} :
            pc'[q] = pc[q] /\ seen'[q] = seen[q] /\ reply'[q] = reply[q]
      BY DEF IInv, TypeOK, LoadRule, Answer
    <2>5. cmd[r].rule \in Rules
      BY Running DEF LoadRule
    <2>6. QED
      BY <2>1, <2>2, <2>3, <2>4, <2>5 DEF IInv, ArchiveKept
  <1>6. QED
    BY <1>1, <1>2, <1>3, <1>4, <1>5 DEF IInv

\* A request is rolled back: the invariant is kept.
LEMMA AbortInv ==
  ASSUME IInv, NEW r \in Requests, Abort(r)
  PROVE  IInv'
  <1>1. TypeOK'
    BY DEF IInv, TypeOK, Abort, Unlock, Answer
  <1>2. OncePerOccurrence' /\ MarkerHasEntry'
    BY DEF IInv, OncePerOccurrence, MarkerHasEntry, Abort
  <1>3. LocksHeld'
    BY Running DEF IInv, TypeOK, LocksHeld, Abort, Unlock, Answer
  <1>4. Checked'
    BY DEF IInv, Checked, Abort, Answer, Wanted
  <1>5. ArchiveKept'
    BY DEF IInv, ArchiveKept, Abort, Answer
  <1>6. QED
    BY <1>1, <1>2, <1>3, <1>4, <1>5 DEF IInv

\* The clock moves: the invariant is kept.
LEMMA TickInv ==
  ASSUME IInv, Tick
  PROVE  IInv'
  <1>1. TypeOK'
    BY RecurringAssumption DEF IInv, TypeOK, Tick, requestVars, Instants
  <1>2. OncePerOccurrence' /\ MarkerHasEntry'
    BY DEF IInv, OncePerOccurrence, MarkerHasEntry, Tick
  <1>3. LocksHeld'
    BY DEF IInv, LocksHeld, Tick, requestVars
  <1>4. Checked'
    BY DEF IInv, Checked, Tick, requestVars, Wanted
  <1>5. ArchiveKept'
    BY DEF IInv, ArchiveKept, Tick, requestVars
  <1>6. QED
    BY <1>1, <1>2, <1>3, <1>4, <1>5 DEF IInv

\* A rule is created: the invariant is kept.
LEMMA CreateRuleInv ==
  ASSUME IInv, NEW x \in Rules, CreateRule(x)
  PROVE  IInv'
  <1> DEFINE row == [NewRule[x] EXCEPT !.nextRun = NewRule[x].start]
  <1>1. /\ row \in Rows /\ row.status = "active" /\ ~ row.archivedAt
        /\ row.paid = Never /\ row.received = Never
    BY RecurringAssumption DEF Rows
  <1>2. rule' = [rule EXCEPT ![x] = row] /\ rule[x] = NoRow
    BY DEF CreateRule
  <1>3. \A r \in Requests : pc[r] # "new" => cmd[r].rule # x
    BY <1>2 DEF IInv, LocksHeld
  <1>4. TypeOK'
    BY <1>1, <1>2 DEF IInv, TypeOK, CreateRule, requestVars
  <1> HIDE DEF row
  <1>5. \A r \in Requests : pc[r] # "new" =>
          /\ cmd[r].rule \in Rules /\ rule'[cmd[r].rule] = rule[cmd[r].rule]
    BY <1>2, <1>3, Running DEF IInv, TypeOK
  <1>6. OncePerOccurrence' /\ MarkerHasEntry'
    <2>1. entries' = entries
      BY DEF CreateRule
    <2>2. \A type \in Types : Marked(row, type) = Never
      BY <1>1 DEF Marked
    <2>3. \A y \in Rules : rule'[y] = IF y = x THEN row ELSE rule[y]
      BY <1>2 DEF IInv, TypeOK
    <2>4. QED
      BY <2>1, <2>2, <2>3 DEF IInv, OncePerOccurrence, MarkerHasEntry
  <1>7. LocksHeld'
    BY <1>3, <1>5 DEF IInv, LocksHeld, CreateRule, requestVars
  <1>8. Checked'
    BY DEF IInv, Checked, CreateRule, requestVars, Wanted, Markable
  <1>9. ArchiveKept'
    BY <1>1, <1>2, <1>5 DEF IInv, TypeOK, ArchiveKept, CreateRule, requestVars
  <1>10. QED
    BY <1>4, <1>6, <1>7, <1>8, <1>9 DEF IInv

\* What the commit of a mark does to its rule: the marker is set, nothing else changes.
LEMMA MarkWrites ==
  ASSUME IInv, NEW r \in Requests, CommitMark(r)
  PROVE  LET x == cmd[r].rule
             type == cmd[r].op
         IN
         /\ x \in Rules /\ type \in Types /\ rowLock[x] = r
         /\ entry[r] \in Entries
         /\ entry[r].rule = x /\ entry[r].type = type
         /\ \A e \in entries : SameOccurrence(e, entry[r]) => e = entry[r]
         /\ rule' = [rule EXCEPT ![x] = Completed(rule[x], type, entry[r].period)]
         /\ Completed(rule[x], type, entry[r].period) \in Rows
  <1>1. /\ pc[r] = "commit" /\ cmd[r].op \in Marks
        /\ seen[r] = rule[cmd[r].rule] /\ rowLock[cmd[r].rule] = r
    BY DEF CommitMark, IInv, LocksHeld
  <1>2. cmd[r].rule \in Rules /\ cmd[r].op \in Types /\ rule[cmd[r].rule] \in Rows
    BY <1>1, Running, CommandShape
  <1>3. /\ entry[r] \in Entries
        /\ entry[r].rule = cmd[r].rule /\ entry[r].type = cmd[r].op
        /\ \A e \in entries : SameOccurrence(e, entry[r]) => e = entry[r]
    BY <1>1, WantedShape DEF IInv, Checked
  <1>4. entry[r].period \in Int
    BY <1>3 DEF Entries, Periods
  <1>5. Completed(rule[cmd[r].rule], cmd[r].op, entry[r].period) \in Rows
    BY <1>2, <1>4, CompletedShape
  <1>6. rule' = [rule EXCEPT ![cmd[r].rule] =
                   Completed(rule[cmd[r].rule], cmd[r].op, entry[r].period)]
    <2> DEFINE x == cmd[r].rule
               row == Completed(seen[r], cmd[r].op, entry[r].period)
    <2>1. rule' = [rule EXCEPT ![x] = Written(rule[x], seen[r], row)]
      BY DEF CommitMark
    <2>2. row = Completed(rule[x], cmd[r].op, entry[r].period) /\ row \in Rows
      BY <1>1, <1>5
    <2> HIDE DEF row
    <2>3. Written(rule[x], seen[r], row) = row
      BY <1>1, <1>2, <2>2, WrittenAlone
    <2>4. QED
      BY <2>1, <2>2, <2>3
  <1>7. QED
    BY <1>1, <1>2, <1>3, <1>5, <1>6

\* A mark commits: the invariant is kept.
LEMMA CommitMarkInv ==
  ASSUME IInv, NEW r \in Requests, CommitMark(r)
  PROVE  IInv'
  <1> DEFINE x == cmd[r].rule
             type == cmd[r].op
             row == Completed(rule[x], type, entry[r].period)
  <1>1. /\ x \in Rules /\ type \in Types /\ rowLock[x] = r
        /\ entry[r] \in Entries /\ entry[r].rule = x /\ entry[r].type = type
        /\ \A e \in entries : SameOccurrence(e, entry[r]) => e = entry[r]
        /\ rule' = [rule EXCEPT ![x] = row]
        /\ row \in Rows
    BY MarkWrites
  <1>2. entries' = entries \cup {entry[r]}
    BY DEF CommitMark
  <1>3. pc[r] = "commit" /\ cmd[r].op \in Marks /\ rule[x] \in Rows
    BY Running DEF CommitMark
  <1>4. /\ Marked(row, type) = entry[r].period
        /\ \A other \in Types : other # type => Marked(row, other) = Marked(rule[x], other)
        /\ row.status = rule[x].status /\ row.archivedAt = rule[x].archivedAt
    BY <1>1, <1>3, CompletedShape DEF Entries, Periods
  <1> HIDE DEF row
  <1>5. TypeOK'
    BY <1>1, <1>2 DEF IInv, TypeOK, CommitMark, Unlock, Answer
  <1>6. OncePerOccurrence'
    BY <1>1, <1>2 DEF IInv, OncePerOccurrence, SameOccurrence
  <1>7. MarkerHasEntry'
    BY <1>1, <1>2, <1>3, <1>4, RecurringAssumption DEF IInv, TypeOK, MarkerHasEntry
  <1>8. \A q \in Requests \ {r} : pc[q] \in {"locked", "commit"} /\ cmd[q].op \in Marks =>
          cmd[q].rule # x
    BY <1>1 DEF IInv, LocksHeld
  <1>9. LocksHeld'
    BY <1>1, <1>8, Running, RecurringAssumption
       DEF IInv, TypeOK, LocksHeld, CommitMark, Unlock, Answer
  <1>10. Checked'
    <2>1. ASSUME NEW q \in Requests, pc'[q] = "commit", cmd[q].op \in Marks
          PROVE  \A e \in entries' : SameOccurrence(e, Wanted(q)) => e = Wanted(q)
      <3>1. q # r /\ pc[q] = "commit"
        BY <2>1 DEF IInv, TypeOK, CommitMark, Answer
      <3>2. cmd[q].rule # x /\ Wanted(q).rule = cmd[q].rule
        BY <1>8, <2>1, <3>1, WantedShape
      <3>3. QED
        BY <1>1, <1>2, <2>1, <3>1, <3>2 DEF IInv, Checked, SameOccurrence
    <2>2. QED
      BY <2>1 DEF IInv, TypeOK, Checked, CommitMark, Answer, Wanted, Markable
  <1>11. ArchiveKept'
    BY <1>1, <1>3, <1>4, Running, RecurringAssumption
       DEF IInv, TypeOK, ArchiveKept, CommitMark, Answer, Marks
  <1>12. QED
    BY <1>5, <1>6, <1>7, <1>9, <1>10, <1>11 DEF IInv

\* What an unlocked handler's commit does to its rule: nothing, or a write that keeps the
\* markers and an archived_at that is set, on a row no mark holds.
LEMMA ChangeWrites ==
  ASSUME IInv, NEW r \in Requests, CommitChange(r)
  PROVE  LET x == cmd[r].rule IN
         \/ rule' = rule /\ reply'[r] # "ok"
         \/ \E row \in Rows :
              /\ rule' = [rule EXCEPT ![x] = row]
              /\ rowLock[x] = NoRequest
              /\ row.paid = rule[x].paid /\ row.received = rule[x].received
              /\ rule[x].archivedAt => row.archivedAt
              /\ row.status = "archived" => row.archivedAt
              /\ cmd[r].op = "archive" => row.archivedAt
  <1> DEFINE x == cmd[r].rule
             changed == Changed(cmd[r], seen[r])
             row == Written(rule[x], seen[r], changed)
  <1>1. pc[r] = "commit" /\ cmd[r].op \notin Marks
    BY DEF CommitChange
  <1>2. cmd[r] \in Commands /\ x \in Rules /\ rule[x] \in Rows /\ seen[r] \in Rows
    BY <1>1, Running DEF IInv, Checked
  <1>3. /\ changed \in Rows
        /\ changed.paid = seen[r].paid /\ changed.received = seen[r].received
        /\ seen[r].archivedAt => changed.archivedAt
        /\ cmd[r].op = "archive" => changed.archivedAt
        /\ changed.status = "archived" /\ seen[r].status # "archived" => cmd[r].op = "archive"
    BY <1>1, <1>2, ChangedShape DEF IInv, TypeOK
  <1>4. CASE rule' = rule /\ reply'[r] # "ok"
    BY <1>4
  <1>5. CASE rule' = [rule EXCEPT ![x] = row] /\ rowLock[x] = NoRequest
    <2> HIDE DEF changed
    <2>1. /\ row \in Rows
          /\ row.status \in {rule[x].status, changed.status}
          /\ row.status # rule[x].status => changed.status # seen[r].status
          /\ row.archivedAt = IF changed.archivedAt # seen[r].archivedAt
                              THEN changed.archivedAt ELSE rule[x].archivedAt
          /\ row.paid = rule[x].paid /\ row.received = rule[x].received
      BY <1>2, <1>3, WrittenShape
    <2>2. /\ seen[r].archivedAt => rule[x].archivedAt
          /\ rule[x].status = "archived" => rule[x].archivedAt
      BY <1>1, <1>2, RecurringAssumption DEF IInv, ArchiveKept
    <2>3. /\ rule[x].archivedAt \in BOOLEAN /\ changed.archivedAt \in BOOLEAN
          /\ seen[r].archivedAt \in BOOLEAN
      BY <1>2, <1>3 DEF Rows
    <2> HIDE DEF row
    <2>4. rule[x].archivedAt => row.archivedAt
      BY <1>3, <2>1, <2>3
    <2>5. cmd[r].op = "archive" => row.archivedAt
      BY <1>3, <2>1, <2>2, <2>3
    <2>6. row.status = "archived" => row.archivedAt
      BY <1>3, <2>1, <2>2, <2>4, <2>5
    <2>7. QED
      BY <1>5, <2>1, <2>4, <2>5, <2>6
  <1>6. QED
    <2>1. reply'[r] # "ok" \/ (rule' = [rule EXCEPT ![x] = row] /\ rowLock[x] = NoRequest)
      BY DEF CommitChange, Answer, IInv, TypeOK
    <2>2. rule' = rule \/ (rule' = [rule EXCEPT ![x] = row] /\ rowLock[x] = NoRequest)
      BY DEF CommitChange
    <2>3. QED
      BY <1>4, <1>5, <2>1, <2>2

\* A change without a lock commits: the invariant is kept.
LEMMA CommitChangeInv ==
  ASSUME IInv, NEW r \in Requests, CommitChange(r)
  PROVE  IInv'
  <1> DEFINE x == cmd[r].rule
  <1>1. /\ pc[r] = "commit" /\ cmd[r].op \notin Marks
        /\ UNCHANGED <<now, entries, rowLock, cmd, at, seen, entry>>
        /\ pc' = [pc EXCEPT ![r] = "done"]
        /\ \E answer \in {"ok", "rejected", "error"} : reply' = [reply EXCEPT ![r] = answer]
    BY DEF CommitChange, Answer
  <1>2. x \in Rules /\ rule[x] \in Rows
    BY <1>1, Running
  <1>3. \A q \in Requests : cmd[q].rule = x /\ rule' # rule =>
          ~ (pc[q] \in {"locked", "commit"} /\ cmd[q].op \in Marks)
    <2>1. rule' = rule \/ rowLock[x] = NoRequest
      BY ChangeWrites
    <2>2. QED
      BY <2>1, RecurringAssumption DEF IInv, LocksHeld
  <1>4. /\ rule' \in [Rules -> Rows \cup {NoRow}]
        /\ \A y \in Rules : y # x => rule'[y] = rule[y]
        /\ rule'[x] \in Rows
        /\ rule'[x].paid = rule[x].paid /\ rule'[x].received = rule[x].received
        /\ rule[x].archivedAt => rule'[x].archivedAt
        /\ rule'[x].status = "archived" => rule'[x].archivedAt
        /\ reply'[r] = "ok" /\ cmd[r].op = "archive" => rule'[x].archivedAt
    <2>1. CASE rule' = rule /\ reply'[r] # "ok"
      BY <1>2, <2>1, RecurringAssumption DEF IInv, TypeOK, ArchiveKept
    <2>2. CASE \E row \in Rows :
              /\ rule' = [rule EXCEPT ![x] = row]
              /\ rowLock[x] = NoRequest
              /\ row.paid = rule[x].paid /\ row.received = rule[x].received
              /\ rule[x].archivedAt => row.archivedAt
              /\ row.status = "archived" => row.archivedAt
              /\ cmd[r].op = "archive" => row.archivedAt
      BY <1>2, <2>2 DEF IInv, TypeOK
    <2>3. QED
      BY <2>1, <2>2, ChangeWrites
  <1>5. TypeOK'
    BY <1>1, <1>4 DEF IInv, TypeOK
  <1>6. OncePerOccurrence' /\ MarkerHasEntry'
    <2>1. \A y \in Rules : rule'[y] # NoRow =>
            rule[y] # NoRow /\ \A type \in Types : Marked(rule'[y], type) = Marked(rule[y], type)
      BY <1>2, <1>4, RecurringAssumption DEF Marked
    <2>2. QED
      BY <1>1, <2>1 DEF IInv, OncePerOccurrence, MarkerHasEntry
  <1>7. \A q \in Requests : pc[q] # "new" =>
          /\ cmd[q].rule \in Rules
          /\ rule'[cmd[q].rule] # NoRow
          /\ rule[cmd[q].rule].archivedAt => rule'[cmd[q].rule].archivedAt
    BY <1>4, Running, RecurringAssumption
  <1>8. LocksHeld'
    <2>1. \A q \in Requests : pc'[q] \in {"locked", "commit"} /\ cmd[q].op \in Marks =>
            /\ q # r /\ pc'[q] = pc[q]
            /\ rule'[cmd[q].rule] = rule[cmd[q].rule]
      BY <1>1, <1>3, <1>4, Running DEF IInv, TypeOK
    <2>2. \A y \in Rules : rowLock[y] # NoRequest =>
            /\ rowLock[y] \in Requests /\ rowLock[y] # r
            /\ pc'[rowLock[y]] = pc[rowLock[y]]
      BY <1>1 DEF IInv, TypeOK, LocksHeld
    <2>3. \A q \in Requests : (pc'[q] # "new" => pc[q] # "new")
                            /\ (pc'[q] = "locked" => pc[q] = "locked")
      BY <1>1 DEF IInv, TypeOK
    <2>4. QED
      BY <1>1, <1>7, <2>1, <2>2, <2>3 DEF IInv, LocksHeld
  <1>9. Checked'
    BY <1>1 DEF IInv, TypeOK, Checked, Wanted, Markable
  <1>10. ArchiveKept'
    <2>1. \A y \in Rules :
            rule'[y] # NoRow /\ rule'[y].status = "archived" => rule'[y].archivedAt
      BY <1>4 DEF IInv, ArchiveKept
    <2>2. \A q \in Requests :
            pc'[q] = "commit" /\ seen[q].archivedAt => rule'[cmd[q].rule].archivedAt
      BY <1>1, <1>7 DEF IInv, TypeOK, ArchiveKept
    <2>3. \A q \in Requests :
            reply'[q] = "ok" /\ cmd[q].op = "archive" => rule'[cmd[q].rule].archivedAt
      <3>1. \A q \in Requests : reply[q] = "ok" => pc[q] # "new"
        BY DEF IInv, TypeOK
      <3>2. \A q \in Requests \ {r} : reply'[q] = reply[q]
        BY <1>1 DEF IInv, TypeOK
      <3>3. QED
        BY <1>4, <1>7, <3>1, <3>2 DEF IInv, ArchiveKept
    <2>4. QED
      BY <1>1, <2>1, <2>2, <2>3 DEF ArchiveKept
  <1>11. QED
    BY <1>5, <1>6, <1>8, <1>9, <1>10 DEF IInv

\* Every step keeps the invariant.
LEMMA StepInv == IInv /\ [Next]_vars => IInv'
  <1> SUFFICES ASSUME IInv, [Next]_vars PROVE IInv'
    OBVIOUS
  <1>1. CASE UNCHANGED vars
    BY <1>1 DEF vars, requestVars, IInv, TypeOK, OncePerOccurrence, MarkerHasEntry, LocksHeld,
                Checked, ArchiveKept, Wanted, Markable
  <1>2. CASE Next
    BY <1>2, TickInv, CreateRuleInv, ArriveInv, LockInv, RefuseInv, RecordInv, CommitMarkInv,
       LoadRuleInv, CommitChangeInv, AbortInv DEF Next, Handle
  <1>3. QED
    BY <1>1, <1>2

\* The invariant holds always.
THEOREM Invariance == Spec => []IInv
  BY InitInv, StepInv, PTL DEF Spec

\* Rules, transactions and handlers keep their types.
THEOREM TypeCorrect == Spec => []TypeOK
  <1>1. IInv => TypeOK
    BY DEF IInv
  <1>2. QED
    BY <1>1, Invariance, PTL

\* An occurrence, marked however often and by however many requests, has one transaction.
THEOREM OnceEach == Spec => []OncePerOccurrence
  <1>1. IInv => OncePerOccurrence
    BY DEF IInv
  <1>2. QED
    BY <1>1, Invariance, PTL

\* A completion marker means that the transaction of its occurrence exists.
THEOREM MarkersBacked == Spec => []MarkerHasEntry
  <1>1. IInv => MarkerHasEntry
    BY DEF IInv
  <1>2. QED
    BY <1>1, Invariance, PTL

\* After a confirmed archive the rule is in no queue of reminders.
THEOREM ArchivedQuiet == Spec => []ArchivedNeverReminded
  <1>1. IInv => ArchivedNeverReminded
    BY DEF IInv, ArchiveKept, ArchivedNeverReminded, Reminded
  <1>2. QED
    BY <1>1, Invariance, PTL

\* A step that inserts a transaction inserts it as the rule stands at that moment.
LEMMA InsertStep ==
  ASSUME IInv, [Next]_vars, NEW e \in entries' \ entries
  PROVE  LET row == rule[e.rule] IN
         /\ row.status = "active" /\ ~ row.archivedAt
         /\ row.type = e.type /\ row.terms = e.terms
  <1>1. PICK r \in Requests : CommitMark(r)
    BY DEF Next, Handle, vars, requestVars, Tick, CreateRule, Arrive, Lock, Refuse, Record,
           LoadRule, CommitChange, Abort
  <1>2. e = entry[r]
    BY <1>1 DEF CommitMark
  <1>3. /\ seen[r] = rule[cmd[r].rule]
        /\ Markable(seen[r], cmd[r].op, at[r]) /\ entry[r] = Wanted(r)
    BY <1>1 DEF CommitMark, IInv, LocksHeld, Checked
  <1>4. QED
    BY <1>2, <1>3 DEF Markable, Wanted

\* Transactions are inserted only for rules that are active at that moment, with what the
\* rules then say.
THEOREM EntriesFollow == Spec => EntryFollowsRule
  <1>1. IInv /\ [Next]_vars =>
          [\A e \in entries' \ entries :
             LET row == rule[e.rule] IN
             /\ row.status = "active" /\ ~ row.archivedAt
             /\ row.type = e.type /\ row.terms = e.terms]_vars
    BY InsertStep
  <1>2. QED
    BY <1>1, Invariance, PTL DEF Spec, EntryFollowsRule

-----------------------------------------------------------------------------
\* The calendar

\* The day a year begins on.
YearStart(y) == (1461 * y + 2) \div 4
\* What begins before a month of a year of that length.
DaysOfYearBefore(k, leap) == DaysBefore[k + 1] + (IF k > 1 THEN leap ELSE 0)
LeapDay(y) == IF y % 4 = 1 THEN 1 ELSE 0

\* Months are counted by years of twelve.
LEMMA MonthParts ==
  ASSUME NEW m \in Int
  PROVE  \E y \in Int, k \in 0 .. 11 : m = 12 * y + k
  <1>1. m \div 12 \in Int
    OBVIOUS
  <1>2. m - 12 * (m \div 12) \in 0 .. 11
    OBVIOUS
  <1>3. m = 12 * (m \div 12) + (m - 12 * (m \div 12))
    OBVIOUS
  <1>4. QED
    BY <1>1, <1>2, <1>3

\* The first day of a month in terms of its year.
LEMMA FirstDayParts ==
  ASSUME NEW y \in Int, NEW k \in 0 .. 11
  PROVE  FirstDay(12 * y + k) = YearStart(y) + DaysOfYearBefore(k, LeapDay(y))
  <1> DEFINE m == 12 * y + k
  <1>1. m \div 12 = y
    OBVIOUS
  <1>2. m % 12 = k
    OBVIOUS
  <1>3. 365 * y + (y + 2) \div 4 = YearStart(y)
    BY DEF YearStart
  <1>4. FirstDay(m) = 365 * y + (y + 2) \div 4 + DaysBefore[k + 1]
                        + (IF y % 4 = 1 /\ k > 1 THEN 1 ELSE 0)
    <2> HIDE DEF m
    <2>1. QED
      BY <1>1, <1>2 DEF FirstDay, Leap
  <1>5. DaysBefore[k + 1] \in Int
    BY DEF DaysBefore
  <1>6. YearStart(y) \in Int
    BY DEF YearStart
  <1>7. QED
    BY <1>3, <1>4, <1>5, <1>6 DEF DaysOfYearBefore, LeapDay

\* Years follow each other, every fourth with a day more.
LEMMA YearLength ==
  ASSUME NEW y \in Int
  PROVE  /\ YearStart(y) \in Int
         /\ YearStart(y + 1) = YearStart(y) + 365 + LeapDay(y)
  BY DEF YearStart, LeapDay

\* What the table gives.
LEMMA TableValues ==
  \A k \in 0 .. 11 : \A leap \in 0 .. 1 :
    /\ DaysOfYearBefore(k, leap) \in Int
    /\ 0 <= DaysOfYearBefore(k, leap) /\ DaysOfYearBefore(k, leap) <= 334 + leap
    /\ 28 * k <= DaysOfYearBefore(k, leap) /\ DaysOfYearBefore(k, leap) <= 31 * k
    /\ 31 * k - 7 <= DaysOfYearBefore(k, leap) /\ DaysOfYearBefore(k, leap) <= 28 * k + 27
  BY DEF DaysOfYearBefore, DaysBefore

\* What the table gives for the first and the last month.
LEMMA TableEnds ==
  \A leap \in 0 .. 1 : DaysOfYearBefore(0, leap) = 0 /\ DaysOfYearBefore(11, leap) = 334 + leap
  BY DEF DaysOfYearBefore, DaysBefore

\* What the table gives for the next month.
LEMMA TableNext ==
  ASSUME NEW k \in 0 .. 10, NEW leap \in 0 .. 1
  PROVE  /\ DaysOfYearBefore(k, leap) + 28 <= DaysOfYearBefore(k + 1, leap)
         /\ DaysOfYearBefore(k + 1, leap) <= DaysOfYearBefore(k, leap) + 31
  BY DEF DaysOfYearBefore, DaysBefore

\* A month has between 28 and 31 days.
LEMMA NextMonth ==
  ASSUME NEW m \in Int
  PROVE  /\ FirstDay(m) \in Int
         /\ FirstDay(m + 1) \in FirstDay(m) + 28 .. FirstDay(m) + 31
  <1>1. PICK y \in Int, k \in 0 .. 11 : m = 12 * y + k
    BY MonthParts
  <1>2. PICK leap \in 0 .. 1 : leap = LeapDay(y)
    BY DEF LeapDay
  <1>3. FirstDay(m) = YearStart(y) + DaysOfYearBefore(k, leap)
    BY <1>1, <1>2, FirstDayParts
  <1>4. CASE k < 11
    <2>1. k + 1 \in 0 .. 11 /\ m + 1 = 12 * y + (k + 1)
      BY <1>1, <1>4
    <2>2. FirstDay(m + 1) = YearStart(y) + DaysOfYearBefore(k + 1, leap)
      BY <1>2, <2>1, FirstDayParts
    <2>3. /\ DaysOfYearBefore(k, leap) + 28 <= DaysOfYearBefore(k + 1, leap)
          /\ DaysOfYearBefore(k + 1, leap) <= DaysOfYearBefore(k, leap) + 31
      BY <1>4, TableNext
    <2>4. DaysOfYearBefore(k, leap) \in Int /\ DaysOfYearBefore(k + 1, leap) \in Int
      BY <2>1, TableValues
    <2>5. YearStart(y) \in Int
      BY YearLength
    <2>6. QED
      BY <1>3, <2>2, <2>3, <2>4, <2>5
  <1>5. CASE k = 11
    <2>1. m + 1 = 12 * (y + 1) + 0
      BY <1>1, <1>5
    <2>2. PICK next \in 0 .. 1 : next = LeapDay(y + 1)
      BY DEF LeapDay
    <2>3. FirstDay(m + 1) = YearStart(y + 1) + DaysOfYearBefore(0, next)
      <3>1. PICK z \in Int : z = y + 1
        OBVIOUS
      <3>2. FirstDay(12 * z + 0) = YearStart(z) + DaysOfYearBefore(0, LeapDay(z))
        BY FirstDayParts
      <3>3. QED
        BY <2>1, <2>2, <3>1, <3>2
    <2>4. DaysOfYearBefore(0, next) = 0 /\ DaysOfYearBefore(k, leap) = 334 + leap
      BY <1>5, TableEnds
    <2>5. YearStart(y) \in Int /\ YearStart(y + 1) = YearStart(y) + 365 + leap
      BY <1>2, YearLength
    <2>6. QED
      BY <1>3, <2>3, <2>4, <2>5
  <1>6. QED
    BY <1>4, <1>5

\* Months follow each other.
LEMMA MonthsOrdered ==
  ASSUME NEW m \in Int, NEW n \in Int, m < n
  PROVE  FirstDay(m) < FirstDay(n)
  <1>1. PICK y \in Int, k \in 0 .. 11 : m = 12 * y + k
    BY MonthParts
  <1>2. PICK z \in Int, j \in 0 .. 11 : n = 12 * z + j
    BY MonthParts
  <1>3. PICK leap \in 0 .. 1 : leap = LeapDay(y)
    BY DEF LeapDay
  <1>4. PICK next \in 0 .. 1 : next = LeapDay(z)
    BY DEF LeapDay
  <1>5. /\ FirstDay(m) = YearStart(y) + DaysOfYearBefore(k, leap)
        /\ FirstDay(n) = YearStart(z) + DaysOfYearBefore(j, next)
    BY <1>1, <1>2, <1>3, <1>4, FirstDayParts
  <1>6. CASE y = z
    <2>1. k < j /\ leap = next
      BY <1>1, <1>2, <1>3, <1>4, <1>6
    <2>2. DaysOfYearBefore(k, leap) < DaysOfYearBefore(j, leap)
      BY <2>1 DEF DaysOfYearBefore, DaysBefore
    <2>3. DaysOfYearBefore(k, leap) \in Int /\ DaysOfYearBefore(j, leap) \in Int
      BY TableValues
    <2>4. YearStart(y) \in Int
      BY YearLength
    <2>5. QED
      BY <1>5, <1>6, <2>1, <2>2, <2>3, <2>4
  <1>7. CASE y < z
    <2>1. YearStart(y + 1) <= YearStart(z)
      BY <1>7 DEF YearStart
    <2>2. /\ YearStart(y) \in Int /\ YearStart(y + 1) = YearStart(y) + 365 + leap
          /\ YearStart(z) \in Int
      BY <1>3, YearLength
    <2>3. PICK a \in Int : a = DaysOfYearBefore(k, leap)
      BY TableValues
    <2>4. PICK b \in Int : b = DaysOfYearBefore(j, next)
      BY TableValues
    <2>5. a <= 334 + leap /\ 0 <= b
      BY <2>3, <2>4, TableValues
    <2>6. QED
      BY <1>5, <2>1, <2>2, <2>3, <2>4, <2>5
  <1>8. QED
    BY <1>1, <1>2, <1>6, <1>7

\* Where the first day of a month lies, before and after January 2023.
LEMMA FirstDayBounds ==
  ASSUME NEW m \in Int
  PROVE  /\ m >= 0 => 28 * m <= FirstDay(m) /\ FirstDay(m) <= 31 * m
         /\ m <= 0 => 31 * m <= FirstDay(m) /\ FirstDay(m) <= 28 * m
  <1>1. PICK y \in Int, k \in 0 .. 11 : m = 12 * y + k
    BY MonthParts
  <1>2. PICK leap \in 0 .. 1 : leap = LeapDay(y)
    BY DEF LeapDay
  <1>3. FirstDay(m) = YearStart(y) + DaysOfYearBefore(k, leap)
    BY <1>1, <1>2, FirstDayParts
  <1>4. PICK a \in Int : a = YearStart(y)
    BY YearLength
  <1>5. 1461 * y - 1 <= 4 * a /\ 4 * a <= 1461 * y + 2
    BY <1>4 DEF YearStart
  <1>6. PICK b \in Int : b = DaysOfYearBefore(k, leap)
    BY TableValues
  <1>7. 28 * k <= b /\ b <= 31 * k /\ 31 * k - 7 <= b /\ b <= 28 * k + 27
    BY <1>6, TableValues
  <1>8. FirstDay(m) = a + b
    BY <1>3, <1>4, <1>6
  <1>9. CASE y >= 0
    BY <1>1, <1>5, <1>7, <1>8, <1>9
  <1>10. CASE y < 0
    <2>1. 1461 * y - 1 <= 4 * a /\ 4 * a <= 1461 * y + 2 /\ y <= -1
      BY <1>5, <1>10
    <2>2. 372 * y + 7 <= a
      BY <2>1
    <2>3. a <= 365 * y
      BY <2>1
    <2>4. 31 * (12 * y + k) <= a + b /\ a + b <= 28 * (12 * y + k)
      BY <1>7, <1>10, <2>2, <2>3
    <2>5. 12 * y + k < 0
      BY <1>10
    <2>6. QED
      BY <1>1, <1>8, <2>4, <2>5
  <1>11. QED
    BY <1>9, <1>10

\* Every day is in a month.
LEMMA SomeMonth ==
  ASSUME NEW day \in Int
  PROVE  \E m \in Int : FirstDay(m) <= day /\ day < FirstDay(m + 1)
  <1>1. PICK y \in Int : y = (4 * day + 1) \div 1461
    OBVIOUS
  <1>2. YearStart(y) <= day /\ day < YearStart(y + 1)
    BY <1>1 DEF YearStart
  <1>3. PICK leap \in 0 .. 1 : leap = LeapDay(y)
    BY DEF LeapDay
  <1>4. YearStart(y + 1) = YearStart(y) + 365 + leap
    BY <1>3, YearLength
  <1> DEFINE D(k) == YearStart(y) + DaysOfYearBefore(k, leap)
  <1>5. \A k \in 0 .. 11 : FirstDay(12 * y + k) = D(k)
    BY <1>3, FirstDayParts
  <1>6. FirstDay(12 * y + 12) = YearStart(y + 1)
    <2>1. PICK next \in 0 .. 1 : next = LeapDay(y + 1)
      BY DEF LeapDay
    <2>2. 12 * y + 12 = 12 * (y + 1) + 0
      OBVIOUS
    <2>3. FirstDay(12 * y + 12) = YearStart(y + 1) + DaysOfYearBefore(0, next)
      <3>1. PICK z \in Int : z = y + 1
        OBVIOUS
      <3>2. FirstDay(12 * z + 0) = YearStart(z) + DaysOfYearBefore(0, LeapDay(z))
        BY FirstDayParts
      <3>3. QED
        BY <2>1, <2>2, <3>1, <3>2
    <2>4. DaysOfYearBefore(0, next) = 0 /\ YearStart(y + 1) \in Int
      BY TableEnds, YearLength
    <2>5. QED
      BY <2>3, <2>4
  <1>7. \E k \in 0 .. 11 : D(k) <= day /\ (k < 11 => day < D(k + 1))
    BY <1>2, <1>4, YearLength DEF DaysOfYearBefore, DaysBefore
  <1>8. PICK k \in 0 .. 11 : D(k) <= day /\ (k < 11 => day < D(k + 1))
    BY <1>7
  <1>9. PICK m \in Int : m = 12 * y + k
    OBVIOUS
  <1>10. FirstDay(m) <= day
    BY <1>5, <1>8, <1>9
  <1>11. day < FirstDay(m + 1)
    <2>1. CASE k < 11
      BY <1>5, <1>8, <1>9, <2>1
    <2>2. CASE k = 11
      BY <1>2, <1>6, <1>9, <2>2
    <2>3. QED
      BY <2>1, <2>2
  <1>12. QED
    BY <1>10, <1>11

\* MonthOf is the month a day is in.
LEMMA MonthOfDay ==
  ASSUME NEW day \in Int
  PROVE  /\ MonthOf(day) \in Int
         /\ FirstDay(MonthOf(day)) <= day /\ day < FirstDay(MonthOf(day) + 1)
  <1> DEFINE around == ((day \div 31) .. (day \div 28)) \cup ((day \div 28) .. (day \div 31))
  <1>1. PICK m \in Int : FirstDay(m) <= day /\ day < FirstDay(m + 1)
    BY SomeMonth
  <1>2. PICK n \in Int : n = m + 1
    OBVIOUS
  <1>3. FirstDay(m) \in Int /\ FirstDay(n) \in Int
    BY NextMonth
  <1>4. m \in around
    <2>1. CASE m >= 0
      <3>1. 28 * m <= day /\ day < 31 * m + 31
        BY <1>1, <1>2, <1>3, <2>1, FirstDayBounds
      <3>2. QED
        BY <3>1
    <2>2. CASE m < 0
      <3>1. 31 * m <= day /\ day < 28 * m + 28
        BY <1>1, <1>2, <1>3, <2>2, FirstDayBounds
      <3>2. QED
        BY <3>1
    <2>3. QED
      BY <2>1, <2>2
  <1>5. around \subseteq Int
    OBVIOUS
  <1>6. QED
    BY <1>1, <1>4, <1>5 DEF MonthOf

\* A day is in one month only, and later days are in later months.
LEMMA MonthFixed ==
  ASSUME NEW day \in Int, NEW m \in Int
  PROVE  /\ FirstDay(m) <= day <=> m <= MonthOf(day)
         /\ day < FirstDay(m) <=> MonthOf(day) < m
  <1>1. PICK n \in Int : n = MonthOf(day)
    BY MonthOfDay
  <1>2. FirstDay(n) <= day /\ day < FirstDay(n + 1)
    BY <1>1, MonthOfDay
  <1>3. CASE m <= n
    <2>1. FirstDay(m) <= FirstDay(n)
      <3>1. CASE m = n
        BY <3>1, NextMonth
      <3>2. CASE m < n
        BY <3>2, MonthsOrdered, NextMonth
      <3>3. QED
        BY <1>3, <3>1, <3>2
    <2>2. QED
      BY <1>1, <1>2, <1>3, <2>1, NextMonth
  <1>4. CASE n < m
    <2>1. PICK next \in Int : next = n + 1
      OBVIOUS
    <2>2. FirstDay(next) <= FirstDay(m)
      <3>1. CASE next = m
        BY <3>1, NextMonth
      <3>2. CASE next < m
        BY <3>2, MonthsOrdered, NextMonth
      <3>3. QED
        BY <1>4, <2>1, <3>1, <3>2
    <2>3. day < FirstDay(next)
      BY <1>2, <2>1
    <2>4. FirstDay(next) \in Int /\ FirstDay(m) \in Int
      BY NextMonth
    <2>5. QED
      BY <1>1, <1>4, <2>2, <2>3, <2>4
  <1>5. QED
    BY <1>3, <1>4

-----------------------------------------------------------------------------
\* Reports: buckets

\* A nonempty set of natural numbers has a least one.
LEMMA LeastNatural ==
  ASSUME NEW T, T \subseteq Nat, T # {}
  PROVE  \E n \in T : \A m \in T : n <= m
  <1>1. PICK top \in T : top \in Nat
    OBVIOUS
  <1> DEFINE C == {0 .. n : n \in T \cap (0 .. top)}
  <1> DEFINE S == 0 .. top
  <1>2. IsFiniteSet(S)
    BY <1>1, FS_Interval
  <1>3. C \subseteq SUBSET S /\ C # {}
    BY <1>1
  <1>4. PICK U \in C : \A V \in C : V \subseteq U => V = U
    <2> HIDE DEF C, S
    <2>1. QED
      BY <1>2, <1>3, MinimalSubset
  <1>5. PICK n \in T \cap (0 .. top) : U = 0 .. n
    OBVIOUS
  <1>6. ASSUME NEW m \in T, m < n
        PROVE  FALSE
    <2>1. m \in Nat /\ n \in Nat /\ m \in T \cap (0 .. top)
      BY <1>1, <1>6
    <2>2. 0 .. m \subseteq 0 .. n /\ n \notin 0 .. m /\ n \in 0 .. n
      BY <1>6, <2>1
    <2>3. 0 .. m \in C
      BY <2>1
    <2>4. QED
      BY <1>4, <1>5, <2>2, <2>3
  <1>7. QED
    BY <1>5, <1>6

\* Induction on natural numbers, for a property given as the set of those that have it.
LEMMA NaturalInduction ==
  ASSUME NEW good, 0 \in good, \A n \in Nat : n \in good => n + 1 \in good
  PROVE  Nat \subseteq good
  <1> DEFINE bad == {n \in Nat : n \notin good}
  <1>1. SUFFICES ASSUME bad # {} PROVE FALSE
    OBVIOUS
  <1>2. PICK n \in bad : \A m \in bad : n <= m
    <2>1. bad \subseteq Nat
      OBVIOUS
    <2> HIDE DEF bad
    <2>2. QED
      BY <1>1, <2>1, LeastNatural
  <1>3. n # 0 /\ n - 1 \in Nat
    BY <1>2
  <1>4. n - 1 \in good
    BY <1>2, <1>3
  <1>5. (n - 1) + 1 \in good
    BY <1>3, <1>4
  <1>6. QED
    BY <1>2, <1>5

Units == {"day", "week", "month"}

\* An instant is before the next boundary if its unit is not a later one, and the next
\* boundary begins the next unit (next_report_boundary).
LEMMA Boundaries ==
  ASSUME NEW t \in Int, NEW unit \in Units
  PROVE  /\ NextBoundary(t, unit) \in Int /\ UnitAt(unit, t) \in Int
         /\ UnitAt(unit, NextBoundary(t, unit)) = UnitAt(unit, t) + 1
         /\ \A u \in Int : u < NextBoundary(t, unit) <=> UnitAt(unit, u) <= UnitAt(unit, t)
  <1>1. PICK d \in Int : d = t \div Slots
    BY DEF Slots
  <1>2. \A u, b \in Int : u < b * Slots <=> u \div Slots < b
    BY DEF Slots
  <1>3. \A b \in Int : (b * Slots) \div Slots = b
    BY DEF Slots
  <1>4. \A u \in Int : u \div Slots \in Int
    BY DEF Slots
  <1>5. CASE unit = "day"
    <2>1. NextBoundary(t, unit) = (d + 1) * Slots
      BY <1>1, <1>5 DEF NextBoundary, StartOf, DayOf
    <2>2. \A u : UnitAt(unit, u) = u \div Slots
      BY <1>5 DEF UnitAt
    <2>3. (d + 1) * Slots \in Int
      BY DEF Slots
    <2>4. QED
      BY <1>1, <1>2, <1>3, <1>4, <2>1, <2>2, <2>3
  <1>6. CASE unit = "week"
    <2>1. PICK w \in Int, k \in 0 .. 6 : d = 7 * w + k
      <3>1. d \div 7 \in Int /\ d - 7 * (d \div 7) \in 0 .. 6
        OBVIOUS
      <3>2. d = 7 * (d \div 7) + (d - 7 * (d \div 7))
        OBVIOUS
      <3>3. QED
        BY <3>1, <3>2
    <2>2. d % 7 = k /\ d \div 7 = w
      BY <2>1
    <2>3. NextBoundary(t, unit) = (7 * w + 7) * Slots
      <3>1. DaysUntilNextSunday(d) = 7 - k
        BY <2>2 DEF DaysUntilNextSunday, DaysSinceSunday
      <3>2. NextBoundary(t, unit) = (d + DaysUntilNextSunday(d)) * Slots
        BY <1>1, <1>6 DEF NextBoundary, StartOf, DayOf
      <3>3. QED
        BY <2>1, <3>1, <3>2
    <2>4. PICK b \in Int : b = 7 * w + 7
      OBVIOUS
    <2>5. \A u : UnitAt(unit, u) = (u \div Slots) \div 7
      BY <1>6 DEF UnitAt
    <2>6. UnitAt(unit, t) = w
      BY <1>1, <2>2, <2>5
    <2>7. \A e \in Int : e < b <=> e \div 7 <= w
      BY <2>4
    <2>8. NextBoundary(t, unit) = b * Slots /\ b * Slots \in Int
      BY <2>3, <2>4 DEF Slots
    <2>9. UnitAt(unit, b * Slots) = w + 1
      BY <1>3, <2>4, <2>5
    <2>10. \A u \in Int : u < b * Slots <=> UnitAt(unit, u) <= w
      BY <1>2, <1>4, <2>5, <2>7
    <2>11. QED
      BY <2>6, <2>8, <2>9, <2>10
  <1>7. CASE unit = "month"
    <2>1. PICK m \in Int : m = MonthOf(d)
      BY MonthOfDay
    <2>2. PICK n \in Int : n = m + 1
      OBVIOUS
    <2>3. PICK b \in Int : b = FirstDay(n)
      BY NextMonth
    <2>4. NextBoundary(t, unit) = b * Slots /\ b * Slots \in Int
      BY <1>1, <1>7, <2>1, <2>2, <2>3 DEF NextBoundary, StartOf, DayOf, NextMonthStart, Slots
    <2>5. \A u : UnitAt(unit, u) = MonthOf(u \div Slots)
      BY <1>7 DEF UnitAt
    <2>6. UnitAt(unit, t) = m
      BY <1>1, <2>1, <2>5
    <2>7. \A e \in Int : e < b <=> MonthOf(e) < n
      BY <2>3, MonthFixed
    <2>8. MonthOf(b) = n
      <3>1. b < FirstDay(n + 1)
        BY <2>3, NextMonth
      <3>2. FirstDay(n) <= b
        BY <2>3
      <3>3. PICK o \in Int : o = n + 1
        OBVIOUS
      <3>4. n <= MonthOf(b) /\ MonthOf(b) < o
        BY <3>1, <3>2, <3>3, MonthFixed
      <3>5. MonthOf(b) \in Int
        BY MonthOfDay
      <3>6. QED
        BY <3>3, <3>4, <3>5
    <2>9. \A e \in Int : MonthOf(e) \in Int
      BY MonthOfDay
    <2>10. \A u \in Int : u < b * Slots <=> UnitAt(unit, u) <= m
      BY <1>2, <1>4, <2>2, <2>5, <2>7, <2>9
    <2>11. UnitAt(unit, b * Slots) = m + 1
      BY <1>3, <2>2, <2>5, <2>8
    <2>12. QED
      BY <2>4, <2>6, <2>10, <2>11
  <1>8. QED
    BY <1>5, <1>6, <1>7 DEF Units

-----------------------------------------------------------------------------
\* The function report_buckets computes its buckets by, over the instants of S.
CutAt(t, to, unit) == Smaller(NextBoundary(t, unit), to)
First(t, to, unit) == [from |-> t, to |-> CutAt(t, to, unit)]
Cuts(f, S, to, unit) ==
  f = [t \in S |-> IF t >= to THEN <<>>
                   ELSE <<First(t, to, unit)>> \o f[CutAt(t, to, unit)]]
Cut(S, to, unit) == CHOOSE f : Cuts(f, S, to, unit)
\* The instants that are at most n before the end.
Late(n, to) == {t \in Int : to - t <= n}

\* A cut is later than where it is made from.
LEMMA CutLater ==
  ASSUME NEW t \in Int, NEW to \in Int, t < to, NEW unit \in Units
  PROVE  CutAt(t, to, unit) \in Int /\ t < CutAt(t, to, unit) /\ CutAt(t, to, unit) <= to
  <1>1. PICK b \in Int : b = NextBoundary(t, unit)
    BY Boundaries
  <1>2. t < b
    BY <1>1, Boundaries
  <1>3. QED
    BY <1>1, <1>2 DEF CutAt, Smaller

\* Two such functions agree on the instants both are about, if with an instant these are
\* about all later ones.
LEMMA CutsAgree ==
  ASSUME NEW to \in Int, NEW unit \in Units, NEW n \in Nat, NEW S, NEW T,
         Late(n, to) \subseteq S, Late(n, to) \subseteq T,
         NEW f, NEW g, Cuts(f, S, to, unit), Cuts(g, T, to, unit)
  PROVE  \A t \in Late(n, to) : f[t] = g[t]
  <1> DEFINE apart == {m \in Nat : \E t \in Late(n, to) : to - t <= m /\ f[t] # g[t]}
  <1>1. SUFFICES ASSUME NEW t \in Late(n, to), f[t] # g[t] PROVE FALSE
    OBVIOUS
  <1>2. \A u \in Late(n, to) :
          /\ f[u] = IF u >= to THEN <<>> ELSE <<First(u, to, unit)>> \o f[CutAt(u, to, unit)]
          /\ g[u] = IF u >= to THEN <<>> ELSE <<First(u, to, unit)>> \o g[CutAt(u, to, unit)]
    <2>1. TAKE u \in Late(n, to)
    <2>2. u \in S /\ u \in T
      OBVIOUS
    <2>3. f[u] = IF u >= to THEN <<>> ELSE <<First(u, to, unit)>> \o f[CutAt(u, to, unit)]
      BY <2>2, Zenon DEF Cuts
    <2>4. g[u] = IF u >= to THEN <<>> ELSE <<First(u, to, unit)>> \o g[CutAt(u, to, unit)]
      BY <2>2, Zenon DEF Cuts
    <2>5. QED
      BY <2>3, <2>4
  <1>3. apart # {}
    <2>1. CASE to - t >= 0
      BY <1>1, <2>1 DEF Late
    <2>2. CASE ~ (to - t >= 0)
      BY <1>1, <2>2 DEF Late
    <2>3. QED
      BY <2>1, <2>2
  <1>4. PICK m \in apart : \A k \in apart : m <= k
    <2>1. apart \subseteq Nat
      OBVIOUS
    <2> HIDE DEF apart
    <2>2. QED
      BY <1>3, <2>1, LeastNatural
  <1>5. PICK u \in Late(n, to) : to - u <= m /\ f[u] # g[u]
    BY <1>4
  <1>6. CASE u >= to
    BY <1>2, <1>5, <1>6
  <1>7. CASE u < to
    <2>1. PICK v \in Int : v = CutAt(u, to, unit)
      BY <1>5, <1>7, CutLater DEF Late
    <2>2. u < v /\ v <= to
      BY <1>5, <1>7, <2>1, CutLater DEF Late
    <2>3. v \in Late(n, to) /\ to - v \in Nat /\ to - v < m
      BY <1>4, <1>5, <2>1, <2>2 DEF Late
    <2>4. f[v] = g[v]
      BY <1>4, <2>3 DEF Late
    <2>5. ~ (u >= to)
      BY <1>7 DEF Late
    <2>6. QED
      BY <1>2, <1>5, <2>1, <2>4, <2>5
  <1>8. QED
    BY <1>5, <1>6, <1>7 DEF Late

\* There is such a function for the last n instants before the end and what comes after.
LEMMA CutsLate ==
  ASSUME NEW to \in Int, NEW unit \in Units
  PROVE  \A n \in Nat : \E f : Cuts(f, Late(n, to), to, unit)
  <1> DEFINE good == {n \in Nat : \E f : Cuts(f, Late(n, to), to, unit)}
  <1>1. 0 \in good
    <2> DEFINE f == [t \in Late(0, to) |-> <<>>]
    <2>1. \A t \in Late(0, to) : t >= to
      BY DEF Late
    <2>2. Cuts(f, Late(0, to), to, unit)
      BY <2>1 DEF Cuts
    <2>3. QED
      BY <2>2
  <1>2. ASSUME NEW n \in Nat, n \in good
        PROVE  n + 1 \in good
    <2>1. PICK g : Cuts(g, Late(n, to), to, unit)
      BY <1>2
    <2> DEFINE f == [t \in Late(n + 1, to) |->
                      IF t >= to THEN <<>>
                      ELSE <<First(t, to, unit)>> \o g[CutAt(t, to, unit)]]
    <2>2. Late(n, to) \subseteq Late(n + 1, to)
      BY DEF Late
    <2>3. \A t \in Late(n, to) : f[t] = g[t]
      <3>1. TAKE t \in Late(n, to)
      <3>2. g[t] = IF t >= to THEN <<>> ELSE <<First(t, to, unit)>> \o g[CutAt(t, to, unit)]
        BY <2>1, Zenon DEF Cuts
      <3>3. QED
        BY <2>2, <3>2
    <2>4. \A t \in Late(n + 1, to) : ~ (t >= to) => CutAt(t, to, unit) \in Late(n, to)
      <3>1. TAKE t \in Late(n + 1, to)
      <3>2. HAVE ~ (t >= to)
      <3>3. t \in Int /\ t < to /\ to - t <= n + 1
        BY <3>2 DEF Late
      <3>4. QED
        BY <3>3, CutLater DEF Late
    <2>5. Cuts(f, Late(n + 1, to), to, unit)
      <3>1. ASSUME NEW t \in Late(n + 1, to)
            PROVE  f[t] = IF t >= to THEN <<>>
                          ELSE <<First(t, to, unit)>> \o f[CutAt(t, to, unit)]
        BY <2>3, <2>4
      <3>2. f = [t \in Late(n + 1, to) |-> f[t]]
        OBVIOUS
      <3> HIDE DEF f
      <3>3. QED
        BY <3>1, <3>2, Zenon DEF Cuts
    <2>6. QED
      BY <2>5
  <1>3. Nat \subseteq good
    <2> HIDE DEF good
    <2>1. QED
      BY <1>1, <1>2, NaturalInduction
  <1>4. QED
    BY <1>3

\* There is one for all instants: report_buckets ends, whatever it is asked for.
LEMMA CutsExist ==
  ASSUME NEW to \in Int, NEW unit \in Units
  PROVE  \E f : Cuts(f, Int, to, unit)
  <1> DEFINE Far(t) == IF t >= to THEN 0 ELSE to - t
             f == [t \in Int |-> Cut(Late(Far(t), to), to, unit)[t]]
  <1>1. \A n \in Nat : Cuts(Cut(Late(n, to), to, unit), Late(n, to), to, unit)
    BY CutsLate DEF Cut
  <1>2. \A t \in Int : Far(t) \in Nat /\ t \in Late(Far(t), to)
    BY DEF Late
  <1>3. ASSUME NEW t \in Int
        PROVE  f[t] = IF t >= to THEN <<>> ELSE <<First(t, to, unit)>> \o f[CutAt(t, to, unit)]
    <2> DEFINE g == Cut(Late(Far(t), to), to, unit)
    <2>1. Cuts(g, Late(Far(t), to), to, unit) /\ t \in Late(Far(t), to)
      BY <1>1, <1>2
    <2>2. f[t] = g[t]
      OBVIOUS
    <2>3. g[t] = IF t >= to THEN <<>> ELSE <<First(t, to, unit)>> \o g[CutAt(t, to, unit)]
      <3> HIDE DEF g
      <3>1. QED
        BY <2>1, Zenon DEF Cuts
    <2>4. CASE t >= to
      BY <2>2, <2>3, <2>4
    <2>5. CASE ~ (t >= to)
      <3>1. PICK v \in Int : v = CutAt(t, to, unit)
        BY <2>5, CutLater
      <3>2. t < v /\ v <= to
        BY <2>5, <3>1, CutLater
      <3> DEFINE h == Cut(Late(Far(v), to), to, unit)
      <3>3. Cuts(h, Late(Far(v), to), to, unit) /\ v \in Late(Far(v), to)
        BY <1>1, <1>2
      <3>4. f[v] = h[v]
        OBVIOUS
      <3>5. Late(Far(v), to) \subseteq Late(Far(t), to)
        BY <2>5, <3>2 DEF Late
      <3>6. Far(v) \in Nat
        BY <1>2
      <3>7. g[v] = h[v]
        <4> HIDE DEF g, h, Far
        <4>1. QED
          BY <2>1, <3>3, <3>5, <3>6, CutsAgree
      <3> HIDE DEF f, g, h
      <3>8. QED
        BY <2>2, <2>3, <2>5, <3>1, <3>4, <3>7
    <2>6. QED
      BY <2>4, <2>5
  <1>4. f = [t \in Int |-> f[t]]
    OBVIOUS
  <1> HIDE DEF f
  <1>5. Cuts(f, Int, to, unit)
    BY <1>3, <1>4, Zenon DEF Cuts
  <1>6. QED
    BY <1>5

-----------------------------------------------------------------------------
Ranges == [from : Int, to : Int]
\* What buckets are of a range: they begin and end with it, follow each other without a
\* gap, each is within one unit, and they are of one unit after the other.
Tiles(s, from, to, unit) ==
  /\ s \in Seq(Ranges)
  /\ from >= to => s = <<>>
  /\ from < to => s # <<>> /\ s[1].from = from /\ s[Len(s)].to = to
  /\ \A n \in 1 .. Len(s) :
       /\ from <= s[n].from /\ s[n].from < s[n].to /\ s[n].to <= to
       /\ UnitAt(unit, s[n].from) = UnitAt(unit, s[n].to - 1)
  /\ \A n \in 1 .. Len(s) - 1 : /\ s[n].to = s[n + 1].from
                               /\ UnitAt(unit, s[n + 1].from) = UnitAt(unit, s[n].from) + 1
Covers(s, from, to) ==
  /\ \A n, m \in 1 .. Len(s) : n < m => s[n].to <= s[m].from
  /\ \A u \in Int : from <= u /\ u < to => \E n \in 1 .. Len(s) : s[n].from <= u /\ u < s[n].to

\* The elements of a sequence with one more in front.
LEMMA InFront ==
  ASSUME NEW S, NEW x \in S, NEW s \in Seq(S)
  PROVE  /\ <<x>> \o s \in Seq(S) /\ Len(s) \in Nat
         /\ Len(<<x>> \o s) = Len(s) + 1
         /\ (<<x>> \o s)[1] = x
         /\ \A n \in 1 .. Len(s) : (<<x>> \o s)[n + 1] = s[n]
  <1>1. <<x>> \in Seq(S) /\ Len(<<x>>) = 1 /\ <<x>>[1] = x
    OBVIOUS
  <1>2. Len(s) \in Nat
    OBVIOUS
  <1>3. QED
    BY <1>1, <1>2, ConcatProperties

\* One more bucket before the others.
LEMMA TilesInFront ==
  ASSUME NEW from \in Int, NEW to \in Int, NEW next \in Int, NEW unit \in Units, NEW s,
         from < next, next <= to, Tiles(s, next, to, unit), Covers(s, next, to),
         UnitAt(unit, from) = UnitAt(unit, next - 1),
         next < to => UnitAt(unit, next) = UnitAt(unit, from) + 1
  PROVE  /\ Tiles(<<[from |-> from, to |-> next]>> \o s, from, to, unit)
         /\ Covers(<<[from |-> from, to |-> next]>> \o s, from, to)
  <1> DEFINE x == [from |-> from, to |-> next]
             all == <<x>> \o s
  <1>1. x \in Ranges /\ x.from = from /\ x.to = next
    BY DEF Ranges
  <1>2. s \in Seq(Ranges)
    BY DEF Tiles
  <1> HIDE DEF x
  <1>3. /\ all \in Seq(Ranges) /\ Len(s) \in Nat /\ Len(all) = Len(s) + 1 /\ all[1] = x
        /\ \A n \in 1 .. Len(s) : all[n + 1] = s[n]
    BY <1>1, <1>2, InFront
  <1>4. \A n \in 1 .. Len(s) : s[n] \in Ranges /\ s[n].from \in Int /\ s[n].to \in Int
    <2>1. TAKE n \in 1 .. Len(s)
    <2>2. s[n] \in Ranges
      BY <1>2, ElementOfSeq
    <2>3. QED
      BY <2>2 DEF Ranges
  <1> HIDE DEF all
  <1>5. \A n \in 1 .. Len(all) : n = 1 \/ (n - 1 \in 1 .. Len(s) /\ all[n] = s[n - 1])
    <2>1. TAKE n \in 1 .. Len(all)
    <2>2. CASE n # 1
      <3>1. n - 1 \in 1 .. Len(s) /\ (n - 1) + 1 = n
        BY <1>3, <2>2
      <3>2. QED
        BY <1>3, <3>1
    <2>3. QED
      BY <2>2
  <1>6. all # <<>>
    BY <1>3
  <1>7. next >= to => Len(s) = 0
    BY DEF Tiles
  <1>8. next < to => /\ Len(s) > 0 /\ s[1].from = next /\ s[Len(s)].to = to
    BY <1>2, <1>3 DEF Tiles
  <1>9. all[Len(all)].to = to
    <2>1. CASE next >= to
      BY <1>1, <1>3, <1>7, <2>1
    <2>2. CASE next < to
      BY <1>3, <1>8, <2>2
    <2>3. QED
      BY <2>1, <2>2
  <1>10. \A n \in 1 .. Len(all) :
           /\ from <= all[n].from /\ all[n].from < all[n].to /\ all[n].to <= to
           /\ UnitAt(unit, all[n].from) = UnitAt(unit, all[n].to - 1)
    <2>1. TAKE n \in 1 .. Len(all)
    <2>2. CASE n = 1
      BY <1>1, <1>3, <2>2
    <2>3. CASE n # 1
      <3>1. PICK m \in 1 .. Len(s) : all[n] = s[m]
        BY <1>5, <2>3
      <3>2. /\ next <= s[m].from /\ s[m].from < s[m].to /\ s[m].to <= to
            /\ UnitAt(unit, s[m].from) = UnitAt(unit, s[m].to - 1)
        BY DEF Tiles
      <3>3. QED
        BY <1>4, <3>1, <3>2
    <2>4. QED
      BY <2>2, <2>3
  <1>11. \A n \in 1 .. Len(all) - 1 :
           /\ all[n].to = all[n + 1].from
           /\ UnitAt(unit, all[n + 1].from) = UnitAt(unit, all[n].from) + 1
    <2>1. TAKE n \in 1 .. Len(all) - 1
    <2>2. n \in 1 .. Len(s) /\ all[n + 1] = s[n]
      BY <1>3
    <2>3. CASE n = 1
      <3>1. next < to /\ s[1].from = next
        BY <1>3, <1>7, <1>8, <2>2
      <3>2. QED
        BY <1>1, <1>3, <2>2, <2>3, <3>1
    <2>4. CASE n # 1
      <3>1. PICK m \in 1 .. Len(s) - 1 : m + 1 = n
        BY <1>3, <2>2, <2>4
      <3>2. /\ s[m].to = s[m + 1].from
            /\ UnitAt(unit, s[m + 1].from) = UnitAt(unit, s[m].from) + 1
        BY DEF Tiles
      <3>3. all[n] = s[m]
        BY <1>3, <3>1
      <3>4. QED
        BY <2>2, <3>1, <3>2, <3>3
    <2>5. QED
      BY <2>3, <2>4
  <1>12. Tiles(all, from, to, unit)
    BY <1>1, <1>3, <1>6, <1>9, <1>10, <1>11 DEF Tiles
  <1>13. \A n, m \in 1 .. Len(all) : n < m => all[n].to <= all[m].from
    <2>1. TAKE n, m \in 1 .. Len(all)
    <2>2. HAVE n < m
    <2>3. PICK k \in 1 .. Len(s) : k + 1 = m /\ all[m] = s[k]
      <3>1. m # 1 /\ (m - 1) + 1 = m
        BY <2>2
      <3>2. QED
        BY <1>5, <3>1
    <2>4. CASE n = 1
      <3>1. next <= s[k].from
        BY DEF Tiles
      <3>2. QED
        BY <1>1, <1>3, <2>3, <2>4, <3>1
    <2>5. CASE n # 1
      <3>1. PICK j \in 1 .. Len(s) : j + 1 = n /\ all[n] = s[j]
        <4>1. (n - 1) + 1 = n
          OBVIOUS
        <4>2. QED
          BY <1>5, <2>5, <4>1
      <3>2. j < k
        BY <2>2, <2>3, <3>1
      <3>3. QED
        BY <2>3, <3>1, <3>2 DEF Covers
    <2>6. QED
      BY <2>4, <2>5
  <1>14. \A u \in Int : from <= u /\ u < to =>
           \E n \in 1 .. Len(all) : all[n].from <= u /\ u < all[n].to
    <2>1. TAKE u \in Int
    <2>2. HAVE from <= u /\ u < to
    <2>3. CASE u < next
      <3>1. 1 \in 1 .. Len(all)
        BY <1>3
      <3>2. QED
        BY <1>1, <1>3, <2>2, <2>3, <3>1
    <2>4. CASE ~ (u < next)
      <3>1. PICK n \in 1 .. Len(s) : s[n].from <= u /\ u < s[n].to
        BY <2>2, <2>4 DEF Covers
      <3>2. n + 1 \in 1 .. Len(all) /\ all[n + 1] = s[n]
        BY <1>3
      <3>3. QED
        BY <3>1, <3>2
    <2>5. QED
      BY <2>3, <2>4
  <1>15. Covers(all, from, to)
    BY <1>13, <1>14 DEF Covers
  <1>16. QED
    BY <1>12, <1>15 DEF all, x

\* Nothing is a tiling of an empty range.
LEMMA NoTiles ==
  ASSUME NEW from \in Int, NEW to \in Int, NEW unit, from >= to
  PROVE  Tiles(<<>>, from, to, unit) /\ Covers(<<>>, from, to)
  <1>1. <<>> \in Seq(Ranges) /\ Len(<<>>) = 0
    OBVIOUS
  <1>2. QED
    BY <1>1 DEF Tiles, Covers

\* The buckets of any range tile it.
LEMMA BucketsTile ==
  ASSUME NEW from \in Int, NEW to \in Int, NEW unit \in Units
  PROVE  /\ Tiles(ReportBuckets(from, to, unit), from, to, unit)
         /\ Covers(ReportBuckets(from, to, unit), from, to)
  <1> DEFINE f == Cut(Int, to, unit)
             good == {n \in Nat : \A t \in Int :
                        to - t <= n => Tiles(f[t], t, to, unit) /\ Covers(f[t], t, to)}
  <1>1. ReportBuckets(from, to, unit) = f[from]
    BY DEF ReportBuckets, Cut, Cuts, First, CutAt
  <1>2. Cuts(f, Int, to, unit)
    BY CutsExist DEF Cut
  <1> HIDE DEF f
  <1>3. \A t \in Int :
          f[t] = IF t >= to THEN <<>> ELSE <<First(t, to, unit)>> \o f[CutAt(t, to, unit)]
    BY <1>2, Zenon DEF Cuts
  <1>4. 0 \in good
    <2>1. ASSUME NEW t \in Int, to - t <= 0
          PROVE  Tiles(f[t], t, to, unit) /\ Covers(f[t], t, to)
      <3>1. t >= to
        BY <2>1
      <3>2. f[t] = <<>>
        BY <1>3, <3>1, Zenon
      <3>3. QED
        BY <3>1, <3>2, NoTiles
    <2>2. QED
      BY <2>1
  <1>5. ASSUME NEW n \in Nat, n \in good
        PROVE  n + 1 \in good
    <2>1. ASSUME NEW t \in Int, to - t <= n + 1
          PROVE  Tiles(f[t], t, to, unit) /\ Covers(f[t], t, to)
      <3>1. CASE t >= to
        BY <1>3, <3>1, NoTiles
      <3>2. CASE t < to
        <4>1. PICK v \in Int : v = CutAt(t, to, unit)
          BY <3>2, CutLater
        <4>2. t < v /\ v <= to
          BY <3>2, <4>1, CutLater
        <4>3. Tiles(f[v], v, to, unit) /\ Covers(f[v], v, to)
          BY <1>5, <2>1, <4>2
        <4>4. f[t] = <<[from |-> t, to |-> v]>> \o f[v]
          <5>1. ~ (t >= to)
            BY <3>2
          <5>2. f[t] = <<First(t, to, unit)>> \o f[CutAt(t, to, unit)]
            BY <1>3, <5>1, Zenon
          <5>3. QED
            BY <4>1, <5>2, Zenon DEF First
        <4>5. PICK b \in Int : b = NextBoundary(t, unit)
          BY Boundaries
        <4>6. UnitAt(unit, t) = UnitAt(unit, v - 1)
          <5>1. PICK u \in Int : u = v - 1
            OBVIOUS
          <5>2. t <= u /\ u < b
            BY <4>1, <4>2, <4>5, <5>1 DEF CutAt, Smaller
          <5>3. UnitAt(unit, u) <= UnitAt(unit, t)
            BY <4>5, <5>2, Boundaries
          <5>4. UnitAt(unit, t) <= UnitAt(unit, u)
            <6>1. u < NextBoundary(u, unit) /\ NextBoundary(u, unit) \in Int
              <7>1. UnitAt(unit, u) \in Int /\ NextBoundary(u, unit) \in Int
                BY Boundaries
              <7>2. UnitAt(unit, u) <= UnitAt(unit, u)
                BY <7>1
              <7>3. QED
                BY <7>1, <7>2, Boundaries
            <6>2. t < NextBoundary(u, unit)
              BY <5>2, <6>1
            <6>3. QED
              BY <6>2, Boundaries
          <5>5. UnitAt(unit, u) \in Int /\ UnitAt(unit, t) \in Int
            BY Boundaries
          <5>6. QED
            BY <5>1, <5>3, <5>4, <5>5
        <4>7. v < to => UnitAt(unit, v) = UnitAt(unit, t) + 1
          BY <4>1, Boundaries DEF CutAt, Smaller
        <4>8. QED
          BY <4>2, <4>3, <4>4, <4>6, <4>7, TilesInFront
      <3>3. QED
        BY <3>1, <3>2
    <2>2. QED
      BY <2>1
  <1>6. Nat \subseteq good
    <2> HIDE DEF good
    <2>1. QED
      BY <1>4, <1>5, NaturalInduction
  <1>7. PICK n \in Nat : to - from <= n
    <2>1. CASE to - from >= 0
      BY <2>1
    <2>2. CASE to - from < 0
      BY <2>2
    <2>3. QED
      BY <2>1, <2>2
  <1>8. QED
    BY <1>1, <1>6, <1>7

-----------------------------------------------------------------------------
\* A query's parameters.
LEMMA QueryShape ==
  ASSUME NEW q \in Queries
  PROVE  /\ q.kind \in {"dashboard", "monthly", "cash_flow", "spending"}
         /\ q.kind = "dashboard" => /\ q.period \in {"week", "month", "year"} /\ q.day \in Int
                                   /\ q.type \in {"income", "expense"}
         /\ q.kind = "monthly" => q.month \in Int
         /\ q.kind \in {"cash_flow", "spending"} => q.from \in Int /\ q.to \in Int /\ q.from < q.to
         /\ q.kind = "cash_flow" => q.interval \in Units
  BY ReportsAssumption DEF ReportsAssumption, ReportSet, Units

\* The first day of a month is in it.
LEMMA MonthOfFirstDay ==
  ASSUME NEW m \in Int
  PROVE  MonthOf(FirstDay(m)) = m
  <1>1. PICK d \in Int : d = FirstDay(m)
    BY NextMonth
  <1>2. PICK n \in Int : n = m + 1
    OBVIOUS
  <1>3. FirstDay(m) <= d /\ d < FirstDay(n)
    BY <1>1, <1>2, NextMonth
  <1>4. m <= MonthOf(d) /\ MonthOf(d) < n /\ MonthOf(d) \in Int
    BY <1>3, MonthFixed, MonthOfDay
  <1>5. QED
    BY <1>1, <1>2, <1>4

\* The year of a month.
LEMMA YearOf ==
  ASSUME NEW m \in Int
  PROVE  \E y \in Int : m - (m % 12) = 12 * y /\ 12 * y <= m /\ m <= 12 * y + 11
  <1>1. PICK y \in Int, k \in 0 .. 11 : m = 12 * y + k
    BY MonthParts
  <1>2. m % 12 = k
    BY <1>1
  <1>3. QED
    BY <1>1, <1>2

\* The range of a year's dashboard.
LEMMA YearSpan ==
  ASSUME NEW day \in Int
  PROVE  \E y \in Int :
           /\ DashboardRange("year", day)
                = [from |-> StartOf(FirstDay(12 * y)), to |-> StartOf(FirstDay(12 * y + 12))]
           /\ 12 * y <= MonthOf(day) /\ MonthOf(day) <= 12 * y + 11
  <1>1. PICK m \in Int : m = MonthOf(day)
    BY MonthOfDay
  <1>2. PICK y \in Int : m - (m % 12) = 12 * y /\ 12 * y <= m /\ m <= 12 * y + 11
    BY YearOf
  <1>3. PICK a \in Int : a = 12 * y
    OBVIOUS
  <1>4. MonthOf(FirstDay(a)) = a
    BY MonthOfFirstDay
  <1>5. FirstDay(MonthOf(day) - (MonthOf(day) % 12)) = FirstDay(a)
    BY <1>1, <1>2, <1>3
  <1>6. DashboardRange("year", day)
          = [from |-> StartOf(FirstDay(a)), to |-> StartOf(FirstDay(a + 12))]
    BY <1>4, <1>5 DEF DashboardRange
  <1>7. QED
    BY <1>1, <1>2, <1>3, <1>6

\* The range of a dashboard is not empty.
LEMMA DashboardSpan ==
  ASSUME NEW day \in Int, NEW period \in {"week", "month", "year"}
  PROVE  \E a \in Int, b \in Int :
           DashboardRange(period, day) = [from |-> StartOf(a), to |-> StartOf(b)] /\ a < b
  <1>1. CASE period = "week"
    <2>1. day - DaysSinceSunday(day) \in Int
      BY DEF DaysSinceSunday
    <2>2. PICK a \in Int : a = day - DaysSinceSunday(day)
      BY <2>1
    <2>3. DashboardRange(period, day) = [from |-> StartOf(a), to |-> StartOf(a + 7)]
      BY <1>1, <2>2 DEF DashboardRange
    <2>4. QED
      BY <1>1, <2>3
  <1>2. CASE period = "month"
    <2>1. PICK m \in Int : m = MonthOf(day)
      BY MonthOfDay
    <2>2. PICK n \in Int : n = m + 1
      OBVIOUS
    <2>3. FirstDay(m) \in Int /\ FirstDay(n) \in Int /\ FirstDay(m) < FirstDay(n)
      BY <2>2, NextMonth, MonthsOrdered
    <2>4. DashboardRange(period, day) = [from |-> StartOf(FirstDay(m)), to |-> StartOf(FirstDay(n))]
      BY <1>2, <2>1, <2>2, MonthOfFirstDay DEF DashboardRange, NextMonthStart
    <2>5. QED
      BY <1>2, <2>3, <2>4
  <1>3. CASE period = "year"
    <2>1. PICK y \in Int :
            DashboardRange(period, day)
              = [from |-> StartOf(FirstDay(12 * y)), to |-> StartOf(FirstDay(12 * y + 12))]
      BY <1>3, YearSpan
    <2>2. PICK a \in Int : a = 12 * y
      OBVIOUS
    <2>3. PICK b \in Int : b = 12 * y + 12
      OBVIOUS
    <2>4. FirstDay(a) \in Int /\ FirstDay(b) \in Int /\ FirstDay(a) < FirstDay(b)
      BY <2>2, <2>3, NextMonth, MonthsOrdered
    <2>5. QED
      BY <2>1, <2>2, <2>3, <2>4
  <1>4. QED
    BY <1>1, <1>2, <1>3

\* The range of a report is not empty, and its buckets are those of the range, except that
\* spending by category has none.
LEMMA ReportRange ==
  ASSUME NEW q \in Queries
  PROVE  /\ Span(q) \in Ranges /\ Span(q).from < Span(q).to
         /\ BucketUnit(q) \in Units
         /\ q.kind = "spending" => Buckets(q) = <<>>
         /\ q.kind # "spending" =>
              Buckets(q) = ReportBuckets(Span(q).from, Span(q).to, BucketUnit(q))
  <1>1. \A a, b \in Int : a < b => /\ StartOf(a) \in Int /\ StartOf(b) \in Int
                                  /\ StartOf(a) < StartOf(b)
    BY DEF StartOf, Slots
  <1>2. CASE q.kind = "dashboard"
    <2>1. PICK a \in Int, b \in Int :
            DashboardRange(q.period, q.day) = [from |-> StartOf(a), to |-> StartOf(b)] /\ a < b
      BY <1>2, QueryShape, DashboardSpan
    <2>2. Span(q) = [from |-> StartOf(a), to |-> StartOf(b)]
      BY <1>2, <2>1 DEF Span
    <2>3. Buckets(q) = ReportBuckets(Span(q).from, Span(q).to, BucketUnit(q))
      BY <1>2 DEF Buckets, DashboardBuckets, Span, BucketUnit
    <2>4. QED
      BY <1>1, <1>2, <2>1, <2>2, <2>3 DEF BucketUnit, Units, Ranges
  <1>3. CASE q.kind = "monthly"
    <2>1. PICK m \in Int : m = q.month
      BY <1>3, QueryShape
    <2>2. PICK n \in Int : n = m + 1
      OBVIOUS
    <2>3. FirstDay(m) \in Int /\ FirstDay(n) \in Int /\ FirstDay(m) < FirstDay(n)
      BY <2>2, NextMonth, MonthsOrdered
    <2>4. Span(q) = [from |-> StartOf(FirstDay(m)), to |-> StartOf(FirstDay(n))]
      BY <1>3, <2>1, <2>2 DEF Span, MonthRange
    <2>5. Buckets(q) = ReportBuckets(Span(q).from, Span(q).to, BucketUnit(q))
      BY <1>3 DEF Buckets, Span, BucketUnit
    <2>6. QED
      BY <1>1, <1>3, <2>3, <2>4, <2>5 DEF BucketUnit, Units, Ranges
  <1>4. CASE q.kind = "cash_flow"
    BY <1>4, QueryShape DEF Span, Buckets, BucketUnit, Ranges
  <1>5. CASE q.kind = "spending"
    BY <1>5, QueryShape DEF Span, Buckets, BucketUnit, Ranges, Units
  <1>6. QED
    BY <1>2, <1>3, <1>4, <1>5, QueryShape

\* A dashboard's current bucket is the one its date is in.
LEMMA CurrentBucket ==
  ASSUME NEW q \in Queries, q.kind = "dashboard",
         NEW b \in Ranges, Span(q).from <= b.from, b.from < Span(q).to
  PROVE  Current(q.period, b, q.day)
           <=> UnitAt(BucketUnit(q), b.from) = UnitAt(BucketUnit(q), StartOf(q.day))
  <1>1. q.day \in Int /\ q.period \in {"week", "month", "year"} /\ b.from \in Int
    BY QueryShape DEF Ranges
  <1>2. StartOf(q.day) \div Slots = q.day
    BY <1>1 DEF StartOf, Slots
  <1>3. CASE q.period # "year"
    BY <1>1, <1>2, <1>3 DEF Current, BucketUnit, UnitAt, DayOf
  <1>4. CASE q.period = "year"
    <2>1. PICK y \in Int :
            /\ DashboardRange("year", q.day)
                 = [from |-> StartOf(FirstDay(12 * y)), to |-> StartOf(FirstDay(12 * y + 12))]
            /\ 12 * y <= MonthOf(q.day) /\ MonthOf(q.day) <= 12 * y + 11
      BY <1>1, YearSpan
    <2>2. PICK a \in Int, e \in Int : a = FirstDay(12 * y) /\ e = FirstDay(12 * y + 12)
      <3>1. 12 * y \in Int /\ 12 * y + 12 \in Int
        OBVIOUS
      <3>2. QED
        BY <3>1, NextMonth
    <2>3. Span(q) = [from |-> StartOf(a), to |-> StartOf(e)]
      BY <1>4, <2>1, <2>2 DEF Span
    <2>4. PICK d \in Int : d = b.from \div Slots
      BY <1>1 DEF Slots
    <2>5. a <= d /\ d < e
      BY <1>1, <2>3, <2>4 DEF StartOf, Slots
    <2>6. PICK m \in Int : m = 12 * y
      OBVIOUS
    <2>7. PICK n \in Int : n = 12 * y + 12
      OBVIOUS
    <2>8. FirstDay(m) <= d /\ d < FirstDay(n)
      BY <2>2, <2>5, <2>6, <2>7
    <2>9. PICK k \in Int : k = MonthOf(d)
      BY MonthOfDay
    <2>10. PICK j \in Int : j = MonthOf(q.day)
      BY <1>1, MonthOfDay
    <2>11. m <= k /\ k < n
      BY <2>8, <2>9, MonthFixed
    <2>12. k % 12 = j % 12 <=> k = j
      <3>1. PICK x \in 0 .. 11 : k = 12 * y + x
        BY <2>6, <2>7, <2>11
      <3>2. PICK z \in 0 .. 11 : j = 12 * y + z
        BY <2>1, <2>10
      <3>3. k % 12 = x /\ j % 12 = z
        BY <3>1, <3>2
      <3>4. QED
        BY <3>1, <3>2, <3>3
    <2>13. Current(q.period, b, q.day) <=> k % 12 = j % 12
      BY <1>4, <2>4, <2>9, <2>10 DEF Current, DayOf
    <2>14. UnitAt(BucketUnit(q), b.from) = k /\ UnitAt(BucketUnit(q), StartOf(q.day)) = j
      BY <1>2, <1>4, <2>4, <2>9, <2>10 DEF BucketUnit, UnitAt
    <2>15. QED
      BY <2>12, <2>13, <2>14
  <1>5. QED
    BY <1>3, <1>4

\* What BucketsFollowCalendar says holds of every report that may be asked for.
LEMMA BucketsRight ==
  ASSUME NEW q \in Queries
  PROVE  LET buckets == Buckets(q)
             Unit(t) == UnitAt(BucketUnit(q), t)
         IN  /\ q.kind # "spending" =>
                  /\ buckets[1].from = Span(q).from
                  /\ buckets[Len(buckets)].to = Span(q).to
             /\ \A n \in DOMAIN buckets :
                  /\ buckets[n].from < buckets[n].to
                  /\ Unit(buckets[n].from) = Unit(buckets[n].to - 1)
                  /\ n > 1 => /\ buckets[n].from = buckets[n - 1].to
                              /\ Unit(buckets[n].from) = Unit(buckets[n - 1].from) + 1
             /\ q.kind = "dashboard" =>
                  {n \in DOMAIN buckets : Current(q.period, buckets[n], q.day)}
                    = {n \in DOMAIN buckets : Unit(buckets[n].from) = Unit(StartOf(q.day))}
  <1>1. CASE q.kind = "spending"
    <2>1. Buckets(q) = <<>> /\ DOMAIN <<>> = {}
      BY <1>1, ReportRange
    <2>2. QED
      BY <1>1, <2>1
  <1>2. CASE q.kind # "spending"
    <2> DEFINE s == Buckets(q)
               u == BucketUnit(q)
    <2>1. PICK from \in Int, to \in Int :
            from = Span(q).from /\ to = Span(q).to /\ from < to
      BY ReportRange DEF Ranges
    <2>2. Tiles(s, from, to, u)
      BY <1>2, <2>1, ReportRange, BucketsTile
    <2> HIDE DEF s, u
    <2>3. s \in Seq(Ranges) /\ DOMAIN s = 1 .. Len(s) /\ Len(s) \in Nat
      BY <2>2 DEF Tiles
    <2>4. s[1].from = Span(q).from /\ s[Len(s)].to = Span(q).to
      BY <2>1, <2>2 DEF Tiles
    <2>5. \A n \in DOMAIN s :
            /\ s[n].from < s[n].to
            /\ UnitAt(u, s[n].from) = UnitAt(u, s[n].to - 1)
            /\ n > 1 => /\ s[n].from = s[n - 1].to
                        /\ UnitAt(u, s[n].from) = UnitAt(u, s[n - 1].from) + 1
      <3>1. TAKE n \in DOMAIN s
      <3>2. n \in 1 .. Len(s)
        BY <2>3
      <3>3. s[n].from < s[n].to /\ UnitAt(u, s[n].from) = UnitAt(u, s[n].to - 1)
        BY <2>2, <3>2 DEF Tiles
      <3>4. ASSUME n > 1
            PROVE  /\ s[n].from = s[n - 1].to
                   /\ UnitAt(u, s[n].from) = UnitAt(u, s[n - 1].from) + 1
        <4>1. PICK m \in 1 .. Len(s) - 1 : m = n - 1
          BY <2>3, <3>2, <3>4
        <4>2. m + 1 = n
          BY <3>2, <4>1
        <4>3. QED
          BY <2>2, <4>1, <4>2 DEF Tiles
      <3>5. QED
        BY <3>3, <3>4
    <2>6. ASSUME q.kind = "dashboard", NEW n \in DOMAIN s
          PROVE  Current(q.period, s[n], q.day) <=> UnitAt(u, s[n].from) = UnitAt(u, StartOf(q.day))
      <3>1. n \in 1 .. Len(s) /\ s[n] \in Ranges
        BY <2>3, <2>6, ElementOfSeq
      <3>2. from <= s[n].from /\ s[n].from < s[n].to /\ s[n].to <= to
        BY <2>2, <3>1 DEF Tiles
      <3>3. s[n].from \in Int /\ s[n].to \in Int
        BY <3>1 DEF Ranges
      <3>4. PICK b \in Ranges : b = s[n]
        BY <3>1
      <3>5. Span(q).from <= b.from /\ b.from < Span(q).to
        BY <2>1, <3>2, <3>3, <3>4
      <3>6. Current(q.period, b, q.day) <=> UnitAt(u, b.from) = UnitAt(u, StartOf(q.day))
        BY <2>6, <3>5, CurrentBucket DEF u
      <3>7. QED
        BY <3>4, <3>6
    <2>7. QED
      BY <2>4, <2>5, <2>6 DEF s, u
  <1>3. QED
    BY <1>1, <1>2

-----------------------------------------------------------------------------
\* A finite set can be put in an order.
LEMMA Ordered ==
  ASSUME NEW S, IsFiniteSet(S)
  PROVE  SetToSeq(S) \in Seq(S)
  <1>1. Cardinality(S) \in Nat /\ ExistsBijection(1 .. Cardinality(S), S)
    BY FS_CardinalityType
  <1>2. PICK f \in [1 .. Cardinality(S) -> S] : IsInjective(f)
    BY <1>1 DEF ExistsBijection, Bijection, Injection, IsInjective
  <1>3. SetToSeq(S) \in [1 .. Cardinality(S) -> S]
    BY <1>2 DEF SetToSeq
  <1>4. QED
    BY <1>1, <1>3

\* What the queries of budgets are.
LEMMA BudgetQueries ==
  ASSUME NEW m \in Int
  PROVE  /\ BudgetSums(m) \in Seq(Selects)
         /\ \A n \in 1 .. Len(BudgetSums(m)) : BudgetSums(m)[n].what = "budget"
  <1> DEFINE overlapping == {b \in DOMAIN BudgetPeriods :
                               /\ BudgetPeriods[b].from < FirstDay(m + 1)
                               /\ BudgetPeriods[b].to > FirstDay(m)}
             order == SetToSeq(overlapping)
             Sum(period) == Select("budget", {"expense"},
                                   [from |-> StartOf(period.from), to |-> StartOf(period.to)])
  <1>1. BudgetSums(m) = [n \in DOMAIN order |-> Sum(BudgetPeriods[order[n]])]
    BY DEF BudgetSums
  <1>2. IsFiniteSet(overlapping)
    BY ReportsAssumption, FS_Subset DEF ReportsAssumption
  <1>3. order \in Seq(overlapping)
    <2> HIDE DEF overlapping
    <2>1. QED
      BY <1>2, Ordered
  <1>4. \A b \in overlapping :
          Sum(BudgetPeriods[b]) \in Selects /\ Sum(BudgetPeriods[b]).what = "budget"
    BY ReportsAssumption DEF ReportsAssumption, Select, Selects, StartOf, Slots, RowTypes
  <1> HIDE DEF overlapping, order, Sum
  <1>5. DOMAIN order = 1 .. Len(order) /\ Len(order) \in Nat
    BY <1>3
  <1>6. \A n \in 1 .. Len(order) : order[n] \in overlapping
    BY <1>3, ElementOfSeq
  <1>7. QED
    BY <1>1, <1>4, <1>5, <1>6

\* A query for the total or the categories is over the report's range.
OverRange(s, q) ==
  /\ s.what # "bucket"
  /\ s.what = "total" => s = Select("total", {"income", "expense"}, Span(q))
  /\ s.what = "categories" => s = Select("categories", {"expense"}, Span(q))

\* The queries that are no bucket's: one is for the total and one for the categories where
\* a report shows them.
LEMMA TotalsShape ==
  ASSUME NEW q \in Queries
  PROVE  /\ Totals(q) \in Seq(Selects)
         /\ \A n \in 1 .. Len(Totals(q)) : OverRange(Totals(q)[n], q)
         /\ q.kind \in {"dashboard", "monthly"} =>
              \E n \in 1 .. Len(Totals(q)) : Totals(q)[n].what = "total"
         /\ q.kind \in {"monthly", "spending"} =>
              \E n \in 1 .. Len(Totals(q)) : Totals(q)[n].what = "categories"
  <1> DEFINE total == Select("total", {"income", "expense"}, Span(q))
             categories == Select("categories", {"expense"}, Span(q))
  <1>1. /\ total \in Selects /\ total.what = "total" /\ OverRange(total, q)
        /\ categories \in Selects /\ categories.what = "categories" /\ OverRange(categories, q)
    BY ReportRange DEF Select, Selects, RowTypes, OverRange, Ranges
  <1>2. Balance \in Selects /\ OverRange(Balance, q)
    BY DEF Balance, Select, Selects, RowTypes, OverRange
  <1> HIDE DEF total, categories
  <1>3. CASE q.kind = "dashboard"
    <2>1. Totals(q) = <<Balance, total>>
      BY <1>3 DEF Totals, total
    <2>2. QED
      BY <1>1, <1>2, <1>3, <2>1
  <1>4. CASE q.kind = "monthly"
    <2>1. q.month \in Int /\ q.month - 1 \in Int
      BY <1>4, QueryShape
    <2>2. \A m \in Int : MonthRange(m) \in Ranges
      <3>1. TAKE m \in Int
      <3>2. PICK n \in Int : n = m + 1
        OBVIOUS
      <3>3. FirstDay(m) \in Int /\ FirstDay(n) \in Int
        BY NextMonth
      <3>4. QED
        BY <3>2, <3>3 DEF MonthRange, Ranges, StartOf, Slots
    <2> DEFINE saved == Select("savings", {"contribution"}, Span(q))
               earlier == Select("savings", {"contribution"}, MonthRange(q.month - 1))
               budgets == BudgetSums(q.month)
    <2>3. /\ saved \in Selects /\ OverRange(saved, q)
          /\ earlier \in Selects /\ OverRange(earlier, q)
      BY <2>1, <2>2, ReportRange DEF Select, Selects, RowTypes, OverRange, Ranges
    <2>4. /\ budgets \in Seq(Selects) /\ Len(budgets) \in Nat
          /\ \A n \in 1 .. Len(budgets) : OverRange(budgets[n], q)
      <3>1. PICK m \in Int : m = q.month
        BY <2>1
      <3>2. PICK b : b = BudgetSums(m)
        OBVIOUS
      <3>3. b \in Seq(Selects) /\ \A n \in 1 .. Len(b) : b[n].what = "budget"
        BY <3>2, BudgetQueries
      <3>4. \A n \in 1 .. Len(b) : OverRange(b[n], q)
        BY <3>3 DEF OverRange
      <3>5. Len(b) \in Nat
        BY <3>3
      <3>6. QED
        BY <3>1, <3>2, <3>3, <3>4, <3>5
    <2>5. Totals(q) = <<total, saved, earlier>> \o budgets \o <<categories>>
      BY <1>4 DEF Totals, total, categories
    <2> HIDE DEF saved, earlier, budgets
    <2> DEFINE first == <<total, saved, earlier>> \o budgets
    <2>6. /\ <<total, saved, earlier>> \in Seq(Selects) /\ Len(<<total, saved, earlier>>) = 3
          /\ \A n \in 1 .. 3 : OverRange(<<total, saved, earlier>>[n], q)
          /\ <<total, saved, earlier>>[1] = total
      BY <1>1, <2>3
    <2>7. /\ first \in Seq(Selects) /\ Len(first) = 3 + Len(budgets)
          /\ \A n \in 1 .. 3 + Len(budgets) :
               first[n] = IF n <= 3 THEN <<total, saved, earlier>>[n] ELSE budgets[n - 3]
      <3>1. PICK three \in Seq(Selects) : three = <<total, saved, earlier>> /\ Len(three) = 3
        BY <2>6
      <3>2. QED
        BY <2>4, <3>1, ConcatProperties
    <2>8. \A n \in 1 .. Len(first) : OverRange(first[n], q)
      <3>1. TAKE n \in 1 .. Len(first)
      <3>2. CASE n <= 3
        BY <2>4, <2>6, <2>7, <3>2
      <3>3. CASE n > 3
        <4>1. n - 3 \in 1 .. Len(budgets) /\ first[n] = budgets[n - 3]
          BY <2>4, <2>7, <3>3
        <4>2. QED
          BY <2>4, <4>1
      <3>4. QED
        BY <2>4, <2>7, <3>2, <3>3
    <2>9. 1 \in 1 .. Len(first) /\ first[1] = total
      BY <2>4, <2>6, <2>7
    <2> HIDE DEF first
    <2>10. /\ Totals(q) \in Seq(Selects) /\ Len(Totals(q)) = Len(first) + 1
           /\ Totals(q)[Len(first) + 1] = categories
           /\ \A n \in 1 .. Len(first) : Totals(q)[n] = first[n]
      <3>1. Totals(q) = first \o <<categories>>
        BY <2>5 DEF first
      <3>2. Totals(q) = Append(first, categories)
        BY <1>1, <2>7, <3>1, AppendIsConcat
      <3>3. QED
        BY <1>1, <2>7, <3>2, AppendProperties
    <2>11. Len(first) \in Nat
      BY <2>4, <2>7
    <2>12. \A n \in 1 .. Len(Totals(q)) : OverRange(Totals(q)[n], q)
      <3>1. TAKE n \in 1 .. Len(Totals(q))
      <3>2. n \in 1 .. Len(first) \/ n = Len(first) + 1
        BY <2>10, <2>11
      <3>3. QED
        BY <1>1, <2>8, <2>10, <3>2
    <2>13. 1 \in 1 .. Len(Totals(q)) /\ Totals(q)[1].what = "total"
      BY <1>1, <2>9, <2>10, <2>11
    <2>14. /\ Len(first) + 1 \in 1 .. Len(Totals(q))
           /\ Totals(q)[Len(first) + 1].what = "categories"
      BY <1>1, <2>10, <2>11
    <2>15. QED
      BY <2>10, <2>12, <2>13, <2>14
  <1>5. CASE q.kind = "cash_flow"
    <2>1. Totals(q) = <<>> /\ Len(<<>>) = 0
      BY <1>5 DEF Totals
    <2>2. QED
      BY <1>5, <2>1
  <1>6. CASE q.kind = "spending"
    <2>1. Totals(q) = <<categories>>
      BY <1>6 DEF Totals, categories
    <2>2. QED
      BY <1>1, <1>6, <2>1
  <1>7. QED
    BY <1>3, <1>4, <1>5, <1>6, QueryShape

-----------------------------------------------------------------------------
\* Reports: figures

\* A report's queries are the totals and then one for each bucket.
LEMMA PlanShape ==
  ASSUME NEW q \in Queries
  PROVE  /\ Plan(q) \in Seq(Selects)
         /\ Len(Totals(q)) \in Nat /\ Len(Buckets(q)) \in Nat
         /\ Len(Plan(q)) = Len(Totals(q)) + Len(Buckets(q))
         /\ \A n \in 1 .. Len(Totals(q)) : Plan(q)[n] = Totals(q)[n]
         /\ \A n \in 1 .. Len(Buckets(q)) :
              Plan(q)[Len(Totals(q)) + n] = Select("bucket", BucketTypes(q), Buckets(q)[n])
  <1>1. PICK totals : totals = Totals(q)
    OBVIOUS
  <1>2. totals \in Seq(Selects)
    BY <1>1, TotalsShape
  <1>3. PICK s : s = Buckets(q)
    OBVIOUS
  <1>4. s \in Seq(Ranges)
    <2>1. CASE q.kind = "spending"
      <3>1. s = <<>>
        BY <1>3, <2>1, ReportRange
      <3>2. QED
        BY <3>1
    <2>2. CASE q.kind # "spending"
      <3>1. PICK from \in Int, to \in Int :
              from = Span(q).from /\ to = Span(q).to /\ from < to
        BY ReportRange DEF Ranges
      <3>2. Tiles(s, from, to, BucketUnit(q))
        BY <1>3, <2>2, <3>1, ReportRange, BucketsTile
      <3>3. QED
        BY <3>2 DEF Tiles
    <2>3. QED
      BY <2>1, <2>2
  <1> DEFINE sums == [n \in DOMAIN s |-> Select("bucket", BucketTypes(q), s[n])]
  <1>5. \A n \in 1 .. Len(s) : s[n] \in Ranges
    BY <1>4, ElementOfSeq
  <1>6. \A r \in Ranges : Select("bucket", BucketTypes(q), r) \in Selects
    <2>1. BucketTypes(q) \subseteq RowTypes
      BY QueryShape DEF BucketTypes, RowTypes
    <2>2. QED
      BY <2>1 DEF Select, Selects, Ranges
  <1>7. DOMAIN s = 1 .. Len(s) /\ Len(s) \in Nat
    BY <1>4
  <1>8. sums \in Seq(Selects) /\ Len(sums) = Len(s)
    BY <1>5, <1>6, <1>7
  <1>9. \A n \in 1 .. Len(s) : sums[n] = Select("bucket", BucketTypes(q), s[n])
    BY <1>7
  <1>10. Plan(q) = totals \o sums
    BY <1>1, <1>3 DEF Plan
  <1> HIDE DEF sums
  <1>11. PICK b \in Seq(Selects) : b = sums
    BY <1>8
  <1>12. PICK plan : plan = totals \o b
    OBVIOUS
  <1>13. /\ plan \in Seq(Selects) /\ Len(plan) = Len(totals) + Len(b)
         /\ \A n \in 1 .. Len(totals) + Len(b) :
              plan[n] = IF n <= Len(totals) THEN totals[n] ELSE b[n - Len(totals)]
    BY <1>2, <1>12, ConcatProperties
  <1>14. Len(totals) \in Nat /\ Len(b) = Len(s)
    BY <1>2, <1>8, <1>11
  <1>15. \A n \in 1 .. Len(totals) : plan[n] = totals[n]
    BY <1>7, <1>13, <1>14
  <1>16. \A n \in 1 .. Len(s) : plan[Len(totals) + n] = b[n]
    <2>1. TAKE n \in 1 .. Len(s)
    <2>2. PICK m \in Int : m = Len(totals) + n
      BY <1>7, <1>14
    <2>3. m \in 1 .. Len(totals) + Len(b) /\ ~ (m <= Len(totals)) /\ m - Len(totals) = n
      BY <1>7, <1>14, <2>2
    <2>4. QED
      BY <1>13, <2>2, <2>3
  <1>17. plan = Plan(q)
    BY <1>10, <1>11, <1>12
  <1>18. QED
    BY <1>1, <1>3, <1>7, <1>9, <1>11, <1>13, <1>14, <1>15, <1>16, <1>17

\* The first of the queries left is the plan's, and it goes to the end of the answers.
LEMMA ReportsInductive ==
  ReportsInv /\ [ReportsNext]_reportVars => ReportsInv'
  <1> SUFFICES ASSUME ReportsInv, [ReportsNext]_reportVars
               PROVE  ReportsInv'
    OBVIOUS
  <1> USE DEF ReportsInv
  <1>1. CASE RunQuery
    <2>1. /\ pending # <<>> /\ pending' = Tail(pending)
          /\ answers' = Append(answers, [query |-> Head(pending),
                                         rows |-> {i \in Ids : Counts(table[i], Head(pending))}])
          /\ table' = table /\ report' = report /\ touched' = touched
      BY <1>1 DEF RunQuery
    <2>2. PICK s \in Seq(Selects) : s = pending
      BY DEF ReportsTypeOK
    <2>3. PICK a \in Seq([query : Selects, rows : SUBSET Ids]) : a = answers
      BY DEF ReportsTypeOK
    <2>4. PICK q : q = Head(s)
      OBVIOUS
    <2>5. PICK e : e = [query |-> q, rows |-> {i \in Ids : Counts(table[i], q)}]
      OBVIOUS
    <2>6. /\ q \in Selects /\ q = s[1] /\ 1 \in 1 .. Len(s) /\ Len(s) \in Nat
          /\ Tail(s) \in Seq(Selects) /\ Len(Tail(s)) = Len(s) - 1
          /\ \A n \in 1 .. Len(s) - 1 : Tail(s)[n] = s[n + 1]
      BY <2>1, <2>2, <2>4
    <2>7. e \in [query : Selects, rows : SUBSET Ids]
      BY <2>5, <2>6
    <2>8. /\ answers' = Append(a, e) /\ pending' = Tail(s)
      BY <2>1, <2>2, <2>3, <2>4, <2>5
    <2>9. /\ Append(a, e) \in Seq([query : Selects, rows : SUBSET Ids])
          /\ Len(Append(a, e)) = Len(a) + 1 /\ Append(a, e)[Len(a) + 1] = e
          /\ \A n \in 1 .. Len(a) : Append(a, e)[n] = a[n]
      BY <2>7, AppendProperties
    <2>10. PICK k \in Nat : k = Len(a)
      BY <2>3
    <2>11. ReportsTypeOK'
      BY <2>1, <2>6, <2>8, <2>9 DEF ReportsTypeOK
    <2>12. Progress'
      <3>1. PICK plan : plan = Plan(report)
        OBVIOUS
      <3>2. /\ k + Len(s) = Len(plan)
            /\ \A n \in 1 .. k : a[n].query = plan[n]
            /\ \A n \in 1 .. Len(s) : s[n] = plan[k + n]
        BY <2>2, <2>3, <2>10, <3>1 DEF Progress
      <3>3. plan = Plan(report')
        BY <2>1, <3>1
      <3>4. Len(answers') + Len(pending') = Len(plan)
        BY <2>6, <2>8, <2>9, <2>10, <3>2
      <3>5. \A n \in 1 .. k + 1 : answers'[n].query = plan[n]
        <4>1. TAKE n \in 1 .. k + 1
        <4>2. CASE n = k + 1
          BY <2>5, <2>6, <2>8, <2>9, <2>10, <3>2, <4>2
        <4>3. CASE n \in 1 .. k
          BY <2>8, <2>9, <2>10, <3>2, <4>3
        <4>4. QED
          BY <4>2, <4>3
      <3>6. \A n \in 1 .. Len(s) - 1 : pending'[n] = plan[k + 1 + n]
        <4>1. TAKE n \in 1 .. Len(s) - 1
        <4>2. PICK m \in 1 .. Len(s) : m = n + 1
          BY <2>6
        <4>3. k + m = k + 1 + n
          BY <4>2
        <4>4. s[m] = plan[k + m]
          BY <3>2, <4>2
        <4>5. pending'[n] = s[m]
          BY <2>6, <2>8, <4>2
        <4>6. QED
          BY <4>3, <4>4, <4>5
      <3>7. Len(answers') = k + 1 /\ Len(pending') = Len(s) - 1
        BY <2>6, <2>8, <2>9, <2>10
      <3>8. QED
        BY <3>3, <3>4, <3>5, <3>6, <3>7 DEF Progress
    <2>13. AnswersStand'
      <3> SUFFICES ASSUME NEW n \in 1 .. Len(answers'), NEW i \in Ids \ touched
                   PROVE  i \in answers'[n].rows <=> Counts(table[i], answers'[n].query)
        BY <2>1 DEF AnswersStand, Counts
      <3>1. CASE n = k + 1
        <4>1. answers'[n] = e
          BY <2>8, <2>9, <2>10, <3>1
        <4>2. QED
          BY <2>5, <4>1
      <3>2. CASE n \in 1 .. k
        BY <2>3, <2>8, <2>9, <2>10, <3>2 DEF AnswersStand
      <3>3. QED
        BY <2>8, <2>9, <2>10, <3>1, <3>2
    <2>14. QED
      BY <2>11, <2>12, <2>13
  <1>2. ASSUME NEW i \in Ids, NEW row \in RowValues, Write(i, row)
        PROVE  ReportsInv'
    <2>1. ReportsTypeOK'
      BY <1>2 DEF Write, ReportsTypeOK
    <2>2. Progress'
      BY <1>2 DEF Write, Progress
    <2>3. AnswersStand'
      <3> SUFFICES ASSUME NEW n \in 1 .. Len(answers), NEW j \in Ids \ touched'
                   PROVE  j \in answers[n].rows <=> Counts(table'[j], answers[n].query)
        BY <1>2 DEF AnswersStand, Write, Counts
      <3>1. j \in Ids \ touched /\ j # i
        BY <1>2 DEF Write
      <3>2. table'[j] = table[j]
        BY <1>2, <3>1 DEF Write, ReportsTypeOK
      <3>3. j \in answers[n].rows <=> Counts(table[j], answers[n].query)
        BY <3>1 DEF AnswersStand
      <3>4. QED
        BY <3>2, <3>3
    <2>4. QED
      BY <2>1, <2>2, <2>3
  <1>3. CASE UNCHANGED reportVars
    BY <1>3 DEF reportVars, ReportsTypeOK, Progress, AnswersStand, Counts
  <1>4. QED
    BY <1>1, <1>2, <1>3 DEF ReportsNext

\* A report starts with its plan and no answer.
LEMMA ReportsStart ==
  ReportsInit => ReportsInv
  <1> SUFFICES ASSUME ReportsInit
               PROVE  ReportsInv
    OBVIOUS
  <1>1. PICK q \in Queries : q = report
    BY DEF ReportsInit
  <1>2. PICK plan \in Seq(Selects) : plan = Plan(q)
    BY PlanShape
  <1>3. pending = plan /\ answers = <<>> /\ touched = {} /\ Len(<<>>) = 0
    BY <1>1, <1>2 DEF ReportsInit
  <1>4. Len(plan) \in Nat
    BY <1>2
  <1>5. ReportsTypeOK
    BY <1>2, <1>3 DEF ReportsInit, ReportsTypeOK
  <1>6. Progress
    BY <1>1, <1>2, <1>3, <1>4 DEF Progress
  <1>7. AnswersStand
    BY <1>3 DEF AnswersStand
  <1>8. QED
    BY <1>5, <1>6, <1>7 DEF ReportsInv

\* The invariant holds of every report that is made.
THEOREM ReportsInvariance == ReportsSpec => []ReportsInv
  <1>1. QED
    BY ReportsStart, ReportsInductive, PTL DEF ReportsSpec

\* Every report's buckets are its days, weeks or months: no arithmetic of the calendar
\* leaves a gap, an overlap or an empty bucket, whatever the range.
THEOREM BucketsOfCalendar == ReportsSpec => []BucketsFollowCalendar
  <1>1. ReportsInv => BucketsFollowCalendar
    <2> SUFFICES ASSUME ReportsInv
                 PROVE  BucketsFollowCalendar
      OBVIOUS
    <2>1. PICK q \in Queries : q = report
      BY DEF ReportsInv, ReportsTypeOK
    <2>2. QED
      BY <2>1, BucketsRight DEF BucketsFollowCalendar
  <1>2. QED
    BY <1>1, ReportsInvariance, PTL

\* A row that is in the figures of a report.
InRange(row, types, q) ==
  /\ row # None /\ row.type \in types /\ ~ row.voided
  /\ Span(q).from <= row.at /\ row.at < Span(q).to
Hits(row, q, what) ==
  {n \in 1 .. Len(Plan(q)) : Plan(q)[n].what = what /\ Counts(row, Plan(q)[n])}

\* A row is in exactly one bucket if it is in the report's range, and in none otherwise.
LEMMA OneBucket ==
  ASSUME NEW q \in Queries, q.kind # "spending", NEW row \in RowValues \cup {None}
  PROVE  Cardinality(Hits(row, q, "bucket")) = IF InRange(row, BucketTypes(q), q) THEN 1 ELSE 0
  <1>1. PICK from \in Int, to \in Int :
          from = Span(q).from /\ to = Span(q).to /\ from < to
    BY ReportRange DEF Ranges
  <1>2. PICK s : s = Buckets(q)
    OBVIOUS
  <1>3. Tiles(s, from, to, BucketUnit(q)) /\ Covers(s, from, to)
    BY <1>1, <1>2, ReportRange, BucketsTile
  <1>4. PICK plan \in Seq(Selects) : plan = Plan(q)
    BY PlanShape
  <1>5. PICK k \in Nat : k = Len(Totals(q))
    BY PlanShape
  <1>6. PICK l \in Nat : l = Len(s)
    BY <1>2, PlanShape
  <1>7. /\ Len(plan) = k + l
        /\ \A n \in 1 .. k : plan[n] = Totals(q)[n]
        /\ \A n \in 1 .. l : plan[k + n] = Select("bucket", BucketTypes(q), s[n])
    BY <1>2, <1>4, <1>5, <1>6, PlanShape
  <1>8. \A n \in 1 .. k : plan[n].what # "bucket"
    BY <1>5, <1>7, TotalsShape DEF OverRange
  <1> DEFINE Fits(n) == s[n].from <= row.at /\ row.at < s[n].to
             right == row # None /\ row.type \in BucketTypes(q) /\ ~ row.voided
  <1>9. \A n \in 1 .. l : /\ plan[k + n].what = "bucket"
                          /\ Counts(row, plan[k + n]) <=> (right /\ Fits(n))
    <2>1. TAKE n \in 1 .. l
    <2>2. PICK m : m = k + n
      OBVIOUS
    <2>3. PICK b : b = s[n]
      OBVIOUS
    <2>4. plan[m] = Select("bucket", BucketTypes(q), b)
      BY <1>7, <2>2, <2>3
    <2>5. plan[m].what = "bucket" /\ (Counts(row, plan[m]) <=> right /\ Fits(n))
      BY <2>3, <2>4 DEF Select, Counts
    <2>6. QED
      BY <2>2, <2>5
  <1>10. \A n \in 1 .. l : /\ from <= s[n].from /\ s[n].to <= to
                           /\ s[n].from \in Int /\ s[n].to \in Int
    <2>1. TAKE n \in 1 .. l
    <2>2. s[n] \in Ranges
      BY <1>3, <1>6, ElementOfSeq DEF Tiles
    <2>3. QED
      BY <1>3, <1>6, <2>2 DEF Tiles, Ranges
  <1>11. row # None => row.at \in Int
    BY ReportsAssumption DEF ReportsAssumption, RowSet
  <1>12. InRange(row, BucketTypes(q), q) <=> right /\ from <= row.at /\ row.at < to
    BY <1>1 DEF InRange
  <1>13. Hits(row, q, "bucket") =
           {n \in 1 .. Len(plan) : plan[n].what = "bucket" /\ Counts(row, plan[n])}
    BY <1>4 DEF Hits
  <1>14. CASE InRange(row, BucketTypes(q), q)
    <2>1. PICK n \in 1 .. l : Fits(n)
      BY <1>3, <1>6, <1>11, <1>12, <1>14 DEF Covers
    <2>2. \A m \in 1 .. l : Fits(m) => m = n
      <3>1. TAKE m \in 1 .. l
      <3>2. CASE n < m
        BY <1>3, <1>6, <1>10, <1>11, <1>12, <1>14, <2>1, <3>2 DEF Covers
      <3>3. CASE m < n
        BY <1>3, <1>6, <1>10, <1>11, <1>12, <1>14, <2>1, <3>3 DEF Covers
      <3>4. QED
        BY <3>2, <3>3
    <2> HIDE DEF Fits, right
    <2>3. \A m \in 1 .. Len(plan) :
            plan[m].what = "bucket" /\ Counts(row, plan[m]) <=> m = k + n
      <3>1. TAKE m \in 1 .. Len(plan)
      <3>2. CASE m \in 1 .. k
        BY <1>8, <2>1, <3>2
      <3>3. CASE m > k
        <4>1. PICK j \in 1 .. l : m = k + j
          <5>1. PICK j \in Int : j = m - k
            OBVIOUS
          <5>2. QED
            BY <1>7, <3>3, <5>1
        <4>2. plan[m].what = "bucket" /\ (Counts(row, plan[m]) <=> right /\ Fits(j))
          BY <1>9, <4>1
        <4>3. right
          BY <1>12, <1>14
        <4>4. Fits(j) <=> j = n
          BY <2>1, <2>2
        <4>5. QED
          BY <4>1, <4>2, <4>3, <4>4
      <3>4. QED
        BY <1>7, <3>2, <3>3
    <2>4. k + n \in 1 .. Len(plan)
      BY <1>7, <2>1
    <2>5. Hits(row, q, "bucket") = {k + n}
      BY <1>13, <2>3, <2>4
    <2>6. QED
      BY <1>14, <2>5, FS_Singleton
  <1>15. CASE ~ InRange(row, BucketTypes(q), q)
    <2>1. \A n \in 1 .. l : ~ (right /\ Fits(n))
      BY <1>1, <1>10, <1>11, <1>12, <1>15
    <2> HIDE DEF Fits, right
    <2>2. \A m \in 1 .. Len(plan) : ~ (plan[m].what = "bucket" /\ Counts(row, plan[m]))
      <3>1. TAKE m \in 1 .. Len(plan)
      <3>2. CASE m \in 1 .. k
        BY <1>8, <3>2
      <3>3. CASE m > k
        <4>1. PICK j \in 1 .. l : m = k + j
          <5>1. PICK j \in Int : j = m - k
            OBVIOUS
          <5>2. QED
            BY <1>7, <3>3, <5>1
        <4>2. QED
          BY <1>9, <2>1, <4>1
      <3>4. QED
        BY <1>7, <3>2, <3>3
    <2>3. Hits(row, q, "bucket") = {}
      BY <1>13, <2>2
    <2>4. QED
      BY <1>15, <2>3, FS_EmptySet
  <1>16. QED
    BY <1>14, <1>15

\* The total and the categories have the rows of the report's range, where there are such
\* figures.
LEMMA RangeFigures ==
  ASSUME NEW q \in Queries, NEW row
  PROVE  /\ q.kind \in {"dashboard", "monthly"} =>
              (Hits(row, q, "total") # {} <=> InRange(row, {"income", "expense"}, q))
         /\ q.kind \in {"monthly", "spending"} =>
              (Hits(row, q, "categories") # {} <=> InRange(row, {"expense"}, q))
  <1>1. PICK plan \in Seq(Selects) : plan = Plan(q)
    BY PlanShape
  <1>2. PICK k \in Nat : k = Len(Totals(q))
    BY PlanShape
  <1>3. PICK l \in Nat : l = Len(Buckets(q))
    BY PlanShape
  <1>4. /\ Len(plan) = k + l
        /\ \A n \in 1 .. k : plan[n] = Totals(q)[n]
        /\ \A n \in 1 .. l : plan[k + n].what = "bucket"
    <2>1. \A n \in 1 .. l : plan[k + n] = Select("bucket", BucketTypes(q), Buckets(q)[n])
      BY <1>1, <1>2, <1>3, PlanShape, Zenon
    <2>2. \A n \in 1 .. l : plan[k + n].what = "bucket"
      <3>1. \A b : Select("bucket", BucketTypes(q), b).what = "bucket"
        BY DEF Select
      <3>2. QED
        BY <2>1, <3>1
    <2>3. QED
      BY <1>1, <1>2, <1>3, <2>2, PlanShape
  <1>5. \A n \in 1 .. k : OverRange(plan[n], q)
    BY <1>2, <1>4, TotalsShape
  <1>6. \A n \in 1 .. Len(plan) : plan[n].what # "bucket" => n \in 1 .. k
    <2>1. TAKE n \in 1 .. Len(plan)
    <2>2. SUFFICES ASSUME n > k
                   PROVE  plan[n].what = "bucket"
      BY <1>4
    <2>3. PICK j \in Int : j = n - k
      OBVIOUS
    <2>4. j \in 1 .. l /\ n = k + j
      BY <1>4, <2>2, <2>3
    <2>5. QED
      BY <1>4, <2>4
  <1>7. \A what :
          Hits(row, q, what) = {n \in 1 .. Len(plan) : plan[n].what = what /\ Counts(row, plan[n])}
    BY <1>1 DEF Hits
  <1>8. /\ InRange(row, {"income", "expense"}, q)
             <=> Counts(row, Select("total", {"income", "expense"}, Span(q)))
        /\ InRange(row, {"expense"}, q) <=> Counts(row, Select("categories", {"expense"}, Span(q)))
    BY DEF InRange, Counts, Select
  <1>9. ASSUME q.kind \in {"dashboard", "monthly"}
        PROVE  Hits(row, q, "total") # {} <=> InRange(row, {"income", "expense"}, q)
    <2>1. PICK n \in 1 .. k : plan[n].what = "total"
      BY <1>2, <1>4, <1>9, TotalsShape
    <2>2. n \in 1 .. Len(plan)
      BY <1>4, <2>1
    <2>3. \A m \in 1 .. Len(plan) : plan[m].what = "total" =>
            plan[m] = Select("total", {"income", "expense"}, Span(q))
      BY <1>5, <1>6 DEF OverRange
    <2>4. PICK s : s = Select("total", {"income", "expense"}, Span(q))
      OBVIOUS
    <2>5. \A m \in 1 .. Len(plan) : plan[m].what = "total" => plan[m] = s
      BY <2>3, <2>4
    <2>6. Hits(row, q, "total") =
            {m \in 1 .. Len(plan) : plan[m].what = "total" /\ Counts(row, plan[m])}
      BY <1>7
    <2>7. ASSUME Counts(row, s)
          PROVE  n \in Hits(row, q, "total")
      BY <2>1, <2>2, <2>5, <2>6, <2>7
    <2>8. ASSUME NEW m \in Hits(row, q, "total")
          PROVE  Counts(row, s)
      BY <2>5, <2>6
    <2>9. QED
      BY <1>8, <2>4, <2>7, <2>8
  <1>10. ASSUME q.kind \in {"monthly", "spending"}
         PROVE  Hits(row, q, "categories") # {} <=> InRange(row, {"expense"}, q)
    <2>1. PICK n \in 1 .. k : plan[n].what = "categories"
      BY <1>2, <1>4, <1>10, TotalsShape
    <2>2. n \in 1 .. Len(plan)
      BY <1>4, <2>1
    <2>3. \A m \in 1 .. Len(plan) : plan[m].what = "categories" =>
            plan[m] = Select("categories", {"expense"}, Span(q))
      BY <1>5, <1>6 DEF OverRange
    <2>4. PICK s : s = Select("categories", {"expense"}, Span(q))
      OBVIOUS
    <2>5. \A m \in 1 .. Len(plan) : plan[m].what = "categories" => plan[m] = s
      BY <2>3, <2>4
    <2>6. Hits(row, q, "categories") =
            {m \in 1 .. Len(plan) : plan[m].what = "categories" /\ Counts(row, plan[m])}
      BY <1>7
    <2>7. ASSUME Counts(row, s)
          PROVE  n \in Hits(row, q, "categories")
      BY <2>1, <2>2, <2>5, <2>6, <2>7
    <2>8. ASSUME NEW m \in Hits(row, q, "categories")
          PROVE  Counts(row, s)
      BY <2>5, <2>6
    <2>9. QED
      BY <1>8, <2>4, <2>7, <2>8
  <1>11. QED
    BY <1>9, <1>10

\* The figures of every report agree, whatever its range, but for the rows that are
\* written while it is made.
THEOREM FiguresOfReports == ReportsSpec => []FiguresAgree
  <1>1. ReportsInv => FiguresAgree
    <2> SUFFICES ASSUME ReportsInv, pending = <<>>, NEW i \in Ids \ touched
                 PROVE  /\ report.kind # "spending" =>
                             Cardinality(CountedBy(i, "bucket")) =
                               IF InRange(table[i], BucketTypes(report), report) THEN 1 ELSE 0
                        /\ report.kind \in {"dashboard", "monthly"} =>
                             (CountedBy(i, "total") # {}
                                <=> InRange(table[i], {"income", "expense"}, report))
                        /\ report.kind \in {"monthly", "spending"} =>
                             (CountedBy(i, "categories") # {}
                                <=> InRange(table[i], {"expense"}, report))
      BY DEF FiguresAgree, InRange
    <2>1. PICK q \in Queries : q = report
      BY DEF ReportsInv, ReportsTypeOK
    <2>2. PICK row \in RowValues \cup {None} : row = table[i]
      BY DEF ReportsInv, ReportsTypeOK
    <2>3. PICK plan : plan = Plan(q)
      OBVIOUS
    <2>4. PICK a \in Seq([query : Selects, rows : SUBSET Ids]) : a = answers
      BY DEF ReportsInv, ReportsTypeOK
    <2>5. Len(plan) = Len(a)
      <3>1. Len(pending) = 0 /\ Len(a) \in Nat
        BY <2>4
      <3>2. QED
        BY <2>1, <2>3, <2>4, <3>1 DEF ReportsInv, Progress
    <2>6. DOMAIN a = 1 .. Len(plan)
      BY <2>4, <2>5
    <2>7. \A n \in 1 .. Len(plan) :
            a[n].query = plan[n] /\ (i \in a[n].rows <=> Counts(row, plan[n]))
      BY <2>1, <2>2, <2>3, <2>4, <2>5 DEF ReportsInv, Progress, AnswersStand
    <2>8. \A what : CountedBy(i, what) = Hits(row, q, what)
      BY <2>3, <2>4, <2>6, <2>7 DEF CountedBy, Hits
    <2>9. QED
      BY <2>1, <2>2, <2>8, OneBucket, RangeFigures
  <1>2. QED
    BY <1>1, ReportsInvariance, PTL

-----------------------------------------------------------------------------
\* Schedules: local times and instants

\* What is known of a zone, and of a schedule.
ZoneOK(zone) ==
  zone.standard \in Int /\ zone.summer \in Int /\ zone.standard <= zone.summer
LEMMA ScheduleShape ==
  ASSUME NEW r \in Schedules
  PROVE  /\ r.frequency \in {"daily", "weekly", "monthly", "yearly"}
         /\ r.interval \in Nat \ {0} /\ r.start \in Int /\ ZoneOK(r.zone)
  BY ScheduleAssumption DEF ScheduleAssumption, ZoneOK

\* A local time is ahead by one of the zone's two offsets.
LEMMA LocalShape ==
  ASSUME NEW zone, ZoneOK(zone), NEW t \in Int
  PROVE  /\ OffsetAt(zone, t) \in {zone.summer, zone.standard}
         /\ LocalTime(zone, t).wall = t + OffsetAt(zone, t)
         /\ LocalTime(zone, t).wall \in Int /\ LocalTime(zone, t).fold \in {0, 1}
         /\ LocalTime(zone, t).fold = 1 <=>
              /\ OffsetAt(zone, t) # OffsetAt(zone, t - (zone.summer - zone.standard))
              /\ OffsetAt(zone, t) = zone.standard
  BY DEF LocalTime, OffsetAt, ZoneOK

\* What Utc makes of a wall clock and its fold: with the offset before a change if the wall
\* never shows it, with the first or the second if it shows it twice.
UtcIs(zone, wall, fold, a, b, u) ==
  /\ a = wall - zone.summer /\ b = wall - zone.standard
  /\ u = Utc(zone, [wall |-> wall, fold |-> fold])
  /\ u \in {a, b} /\ a <= b
  /\ LET summer == OffsetAt(zone, a) = zone.summer
         winter == OffsetAt(zone, b) = zone.standard
     IN /\ summer /\ ~ winter => u = a
        /\ winter /\ ~ summer => u = b
        /\ summer /\ winter => u = IF fold = 0 THEN a ELSE b
        /\ ~ summer /\ ~ winter => u = IF fold = 0 THEN b ELSE a
LEMMA UtcOf ==
  ASSUME NEW zone, ZoneOK(zone), NEW wall \in Int, NEW fold \in {0, 1}
  PROVE  \E a \in Int, b \in Int, u \in Int : UtcIs(zone, wall, fold, a, b, u)
  <1>1. PICK a \in Int, b \in Int :
          a = wall - zone.summer /\ b = wall - zone.standard /\ a <= b
    BY DEF ZoneOK
  <1>2. PICK u : u = Utc(zone, [wall |-> wall, fold |-> fold])
    OBVIOUS
  <1>3. UtcIs(zone, wall, fold, a, b, u)
    BY <1>1, <1>2 DEF Utc, UtcIs
  <1>4. u \in Int
    BY <1>1, <1>3 DEF UtcIs
  <1>5. QED
    BY <1>3, <1>4

\* An instant is what its local time says.
LEMMA RoundTrip ==
  ASSUME NEW zone, ZoneOK(zone), NEW t \in Int
  PROVE  Utc(zone, LocalTime(zone, t)) = t
  <1>1. PICK wall \in Int, fold \in {0, 1} :
          wall = LocalTime(zone, t).wall /\ fold = LocalTime(zone, t).fold
    BY LocalShape
  <1>2. LocalTime(zone, t) = [wall |-> wall, fold |-> fold]
    BY <1>1 DEF LocalTime
  <1>3. PICK a \in Int, b \in Int, u \in Int : UtcIs(zone, wall, fold, a, b, u)
    BY UtcOf
  <1>4. /\ a = wall - zone.summer /\ b = wall - zone.standard
        /\ u = Utc(zone, [wall |-> wall, fold |-> fold])
    BY <1>3 DEF UtcIs
  <1>5. wall = t + OffsetAt(zone, t)
    BY <1>1, LocalShape
  <1>6. CASE OffsetAt(zone, t) = zone.summer
    <2>1. a = t
      BY <1>4, <1>5, <1>6 DEF ZoneOK
    <2>2. zone.summer # zone.standard => fold = 0
      BY <1>1, <1>6, LocalShape
    <2>3. zone.summer = zone.standard => b = a
      BY <1>4
    <2>4. u = a
      BY <1>3, <1>6, <2>1, <2>2, <2>3 DEF UtcIs, ZoneOK
    <2>5. QED
      BY <1>2, <1>4, <2>1, <2>4
  <1>7. CASE OffsetAt(zone, t) = zone.standard /\ zone.standard # zone.summer
    <2>1. b = t /\ a = t - (zone.summer - zone.standard)
      BY <1>4, <1>5, <1>7 DEF ZoneOK
    <2>2. PICK c \in Int : c = t - (zone.summer - zone.standard)
      BY <2>1
    <2>3. OffsetAt(zone, a) = zone.summer <=> fold = 1
      <3>1. fold = 1 <=> OffsetAt(zone, t) # OffsetAt(zone, c)
        BY <1>1, <1>7, <2>2, LocalShape
      <3>2. OffsetAt(zone, c) \in {zone.summer, zone.standard}
        BY <2>2, LocalShape
      <3>3. a = c
        BY <2>1, <2>2
      <3>4. QED
        BY <1>7, <3>1, <3>2, <3>3
    <2>4. u = b
      BY <1>1, <1>3, <1>7, <2>1, <2>3 DEF UtcIs
    <2>5. QED
      BY <1>2, <1>4, <2>1, <2>4
  <1>8. QED
    BY <1>6, <1>7, LocalShape

\* A time that the wall shows is what the wall shows then.
LEMMA UtcShown ==
  ASSUME NEW zone, ZoneOK(zone), NEW wall \in Int, NEW fold \in {0, 1}, Shown(zone, wall)
  PROVE  LocalTime(zone, Utc(zone, [wall |-> wall, fold |-> fold])).wall = wall
  <1>1. PICK a \in Int, b \in Int, u \in Int : UtcIs(zone, wall, fold, a, b, u)
    BY UtcOf
  <1>2. /\ a = wall - zone.summer /\ b = wall - zone.standard
        /\ u = Utc(zone, [wall |-> wall, fold |-> fold])
    BY <1>1 DEF UtcIs
  <1>3. OffsetAt(zone, a) = zone.summer \/ OffsetAt(zone, b) = zone.standard
    BY <1>2 DEF Shown
  <1>4. \/ u = a /\ OffsetAt(zone, a) = zone.summer
        \/ u = b /\ OffsetAt(zone, b) = zone.standard
    BY <1>1, <1>3 DEF UtcIs
  <1>5. LocalTime(zone, u).wall = u + OffsetAt(zone, u)
    BY LocalShape
  <1>6. QED
    BY <1>2, <1>4, <1>5 DEF ZoneOK

\* No change of the clock in the hour before t, nor in the one after it for the second of
\* two times.
Calm(zone, t, fold) ==
  \A u \in t - (zone.summer - zone.standard) .. t + (zone.summer - zone.standard) * fold :
    OffsetAt(zone, u) = OffsetAt(zone, t)

\* Then a later wall clock is a later time, and an earlier one an earlier.
LEMMA CalmOrder ==
  ASSUME NEW zone, ZoneOK(zone), NEW t \in Int, NEW fold \in {0, 1}, Calm(zone, t, fold),
         NEW wall \in Int, NEW u, u = Utc(zone, [wall |-> wall, fold |-> fold])
  PROVE  /\ wall > LocalTime(zone, t).wall => u > t
         /\ wall <= LocalTime(zone, t).wall => u <= t
  <1>1. PICK a \in Int, b \in Int : UtcIs(zone, wall, fold, a, b, u)
    <2>1. PICK a \in Int, b \in Int, v \in Int : UtcIs(zone, wall, fold, a, b, v)
      BY UtcOf
    <2>2. v = u
      BY <2>1 DEF UtcIs
    <2>3. QED
      BY <2>1, <2>2
  <1>2. PICK shown \in Int : shown = LocalTime(zone, t).wall /\ shown = t + OffsetAt(zone, t)
    BY LocalShape
  <1>3. PICK hour \in Nat : hour = zone.summer - zone.standard
    BY DEF ZoneOK
  <1>4. \A v \in t - hour .. t + hour * fold : OffsetAt(zone, v) = OffsetAt(zone, t)
    BY <1>3 DEF Calm
  <1>5. b = a + hour /\ u \in {a, b}
    BY <1>1, <1>3 DEF UtcIs, ZoneOK
  <1>6. CASE wall > shown
    <2>1. CASE OffsetAt(zone, t) = zone.summer
      BY <1>1, <1>2, <1>5, <1>6, <2>1 DEF ZoneOK, UtcIs
    <2>2. CASE OffsetAt(zone, t) = zone.standard /\ zone.standard # zone.summer
      <3>1. b > t
        BY <1>1, <1>2, <1>6, <2>2 DEF ZoneOK, UtcIs
      <3>2. SUFFICES ASSUME u = a, a <= t
                     PROVE  FALSE
        BY <1>5, <1>6, <3>1, LocalShape, <1>2
      <3>3. a \in t - hour .. t + hour * fold
        BY <1>3, <1>5, <3>1, <3>2
      <3>4. OffsetAt(zone, a) # zone.summer
        BY <1>4, <2>2, <3>3
      <3>5. fold = 1 /\ OffsetAt(zone, b) # zone.standard
        BY <1>1, <1>3, <1>5, <2>2, <3>1, <3>2, <3>4 DEF UtcIs
      <3>6. b \in t - hour .. t + hour * fold
        BY <1>3, <1>5, <3>1, <3>2, <3>5
      <3>7. QED
        BY <1>4, <2>2, <3>5, <3>6
    <2>3. QED
      BY <2>1, <2>2, LocalShape
  <1>7. CASE wall <= shown
    <2>1. CASE OffsetAt(zone, t) = zone.standard
      BY <1>1, <1>2, <1>5, <1>7, <2>1 DEF ZoneOK, UtcIs
    <2>2. CASE OffsetAt(zone, t) = zone.summer /\ zone.standard # zone.summer
      <3>1. a <= t
        BY <1>1, <1>2, <1>7, <2>2 DEF ZoneOK, UtcIs
      <3>2. SUFFICES ASSUME u = b, b > t
                     PROVE  FALSE
        BY <1>5, <1>7, <3>1, <1>2
      <3>3. a \in t - hour .. t + hour * fold
        BY <1>3, <1>5, <3>1, <3>2
      <3>4. OffsetAt(zone, a) = zone.summer
        BY <1>4, <2>2, <3>3
      <3>5. fold = 1 /\ OffsetAt(zone, b) = zone.standard
        BY <1>1, <1>3, <1>5, <2>2, <3>1, <3>2, <3>4 DEF UtcIs
      <3>6. b \in t - hour .. t + hour * fold
        BY <1>3, <1>5, <3>1, <3>2, <3>5
      <3>7. QED
        BY <1>4, <2>2, <3>5, <3>6
    <2>3. QED
      BY <2>1, <2>2, LocalShape
  <1>8. QED
    BY <1>2, <1>6, <1>7

-----------------------------------------------------------------------------
\* Schedules: the days of runs

\* A wall clock is a day and a time of the day.
LEMMA WallParts ==
  ASSUME NEW wall \in Int
  PROVE  \E day \in Int, clock \in 0 .. Slots - 1 :
           /\ wall = day * Slots + clock /\ DayOf(wall) = day /\ wall % Slots = clock
  <1>1. PICK day \in Int : day = wall \div Slots
    BY DEF Slots
  <1>2. PICK clock \in 0 .. 47 : wall = day * 48 + clock
    BY <1>1 DEF Slots
  <1>3. wall % 48 = clock
    BY <1>2
  <1>4. QED
    BY <1>1, <1>2, <1>3 DEF DayOf, Slots

LEMMA PartsOfWall ==
  ASSUME NEW day \in Int, NEW clock \in 0 .. Slots - 1
  PROVE  /\ DayOf(day * Slots + clock) = day
         /\ (day * Slots + clock) % Slots = clock
         /\ day * Slots + clock \in Int
  BY DEF DayOf, Slots

\* The length of a month is the time to the next.
LEMMA MonthLengths ==
  ASSUME NEW m \in Int
  PROVE  /\ FirstDay(m + 1) = FirstDay(m) + LengthOfMonth(m)
         /\ LengthOfMonth(m) \in 28 .. 31
  <1>1. PICK y \in Int, k \in 0 .. 11 : m = 12 * y + k
    BY MonthParts
  <1>2. PICK leap \in 0 .. 1 : leap = LeapDay(y)
    BY DEF LeapDay
  <1>3. FirstDay(m) = YearStart(y) + DaysOfYearBefore(k, leap)
    BY <1>1, <1>2, FirstDayParts
  <1>4. Leap(m) <=> leap = 1
    <2>1. m \div 12 = y
      BY <1>1
    <2>2. QED
      BY <1>2, <2>1 DEF Leap, LeapDay
  <1>5. LengthOfMonth(m) = CASE k = 1 -> 28 + leap
                             [] k \in {3, 5, 8, 10} -> 30
                             [] OTHER -> 31
    <2>1. m % 12 = k
      BY <1>1
    <2>2. QED
      BY <1>4, <2>1 DEF LengthOfMonth
  <1>6. YearStart(y) \in Int /\ YearStart(y + 1) = YearStart(y) + 365 + leap
    BY <1>2, YearLength
  <1>7. CASE k \in 0 .. 10
    <2>1. PICK j \in 1 .. 11 : j = k + 1
      BY <1>7
    <2>2. m + 1 = 12 * y + j
      BY <1>1, <2>1
    <2>3. FirstDay(m + 1) = YearStart(y) + DaysOfYearBefore(j, leap)
      <3>1. PICK i \in 0 .. 11 : i = j
        OBVIOUS
      <3>2. FirstDay(12 * y + i) = YearStart(y) + DaysOfYearBefore(i, LeapDay(y))
        BY FirstDayParts
      <3>3. QED
        BY <1>2, <2>2, <3>1, <3>2
    <2>4. DaysOfYearBefore(j, leap) = DaysOfYearBefore(k, leap) + LengthOfMonth(m)
      BY <1>5, <1>7, <2>1 DEF DaysOfYearBefore, DaysBefore
    <2>5. DaysOfYearBefore(k, leap) \in Int
      BY TableValues
    <2>6. LengthOfMonth(m) \in 28 .. 31
      BY <1>5
    <2>7. QED
      BY <1>3, <1>6, <2>3, <2>4, <2>5, <2>6
  <1>8. CASE k = 11
    <2>1. PICK z \in Int : z = y + 1
      OBVIOUS
    <2>2. m + 1 = 12 * z + 0
      BY <1>1, <1>8, <2>1
    <2>3. PICK later \in 0 .. 1 : later = LeapDay(z)
      BY DEF LeapDay
    <2>4. FirstDay(m + 1) = YearStart(z) + DaysOfYearBefore(0, later)
      BY <2>2, <2>3, FirstDayParts
    <2>5. DaysOfYearBefore(0, later) = 0 /\ DaysOfYearBefore(11, leap) = 334 + leap
      BY TableEnds
    <2>6. LengthOfMonth(m) = 31
      BY <1>5, <1>8
    <2>7. QED
      BY <1>3, <1>6, <1>8, <2>1, <2>4, <2>5, <2>6
  <1>9. QED
    BY <1>7, <1>8

\* A day is in its month by its number, which is not above the month's length.
LEMMA DayNumbers ==
  ASSUME NEW day \in Int
  PROVE  /\ DayOfMonth(day) \in 1 .. LengthOfMonth(MonthOf(day))
         /\ day = FirstDay(MonthOf(day)) + DayOfMonth(day) - 1
  <1>1. PICK m \in Int : m = MonthOf(day)
    BY MonthOfDay
  <1>2. FirstDay(m) <= day /\ day < FirstDay(m + 1) /\ FirstDay(m) \in Int
    BY <1>1, MonthOfDay, NextMonth
  <1>3. FirstDay(m + 1) = FirstDay(m) + LengthOfMonth(m) /\ LengthOfMonth(m) \in Int
    BY MonthLengths
  <1>4. DayOfMonth(day) = day - FirstDay(m) + 1
    BY <1>1 DEF DayOfMonth
  <1>5. QED
    BY <1>1, <1>2, <1>3, <1>4

\* The day of a month with the number n, or its last.
DayFor(n, m) == FirstDay(m) + DayIn(n, m) - 1
LEMMA DayForMonth ==
  ASSUME NEW n \in Nat \ {0}, NEW m \in Int
  PROVE  /\ DayFor(n, m) \in Int /\ MonthOf(DayFor(n, m)) = m
         /\ FirstDay(m) <= DayFor(n, m) /\ DayFor(n, m) < FirstDay(m + 1)
         /\ DayOfMonth(DayFor(n, m)) = DayIn(n, m)
  <1>1. PICK f \in Int : f = FirstDay(m)
    BY NextMonth
  <1>2. PICK l \in 28 .. 31 : l = LengthOfMonth(m) /\ FirstDay(m + 1) = f + l
    BY <1>1, MonthLengths
  <1>3. PICK d \in 1 .. l : d = DayIn(n, m)
    BY <1>2 DEF DayIn
  <1>4. PICK day \in Int : day = DayFor(n, m) /\ day = f + d - 1
    BY <1>1, <1>3 DEF DayFor
  <1>5. f <= day /\ day < f + l
    BY <1>2, <1>3, <1>4
  <1>6. PICK k \in Int : k = m + 1
    OBVIOUS
  <1>7. PICK j \in Int : j = MonthOf(day)
    BY MonthOfDay
  <1>8. m <= j /\ j < k
    BY <1>1, <1>2, <1>5, <1>6, <1>7, MonthFixed
  <1>9. j = m
    BY <1>6, <1>8
  <1>10. DayOfMonth(day) = d
    BY <1>1, <1>4, <1>7, <1>9 DEF DayOfMonth
  <1>11. QED
    BY <1>1, <1>2, <1>3, <1>4, <1>5, <1>7, <1>9, <1>10

\* A day has a number in its month that is given, or the month's last, if it is that day.
LEMMA DayForOnly ==
  ASSUME NEW n \in Nat \ {0}, NEW day \in Int,
         DayOfMonth(day) = DayIn(n, MonthOf(day))
  PROVE  day = DayFor(n, MonthOf(day))
  <1>1. day = FirstDay(MonthOf(day)) + DayOfMonth(day) - 1
    BY DayNumbers
  <1>2. QED
    BY <1>1 DEF DayFor

\* Later months' days are later.
LEMMA DayForOrder ==
  ASSUME NEW n \in Nat \ {0}, NEW m \in Int, NEW k \in Int, m < k
  PROVE  DayFor(n, m) < DayFor(n, k)
  <1>1. PICK j \in Int : j = m + 1
    OBVIOUS
  <1>2. PICK a \in Int : a = DayFor(n, m) /\ a < FirstDay(j)
    BY <1>1, DayForMonth
  <1>3. PICK b \in Int : b = DayFor(n, k) /\ FirstDay(k) <= b
    BY DayForMonth
  <1>4. FirstDay(j) \in Int /\ FirstDay(k) \in Int
    BY NextMonth
  <1>5. FirstDay(j) <= FirstDay(k)
    <2>1. CASE j = k
      BY <1>4, <2>1
    <2>2. CASE j < k
      BY <1>4, <2>2, MonthsOrdered
    <2>3. QED
      BY <1>1, <2>1, <2>2
  <1>6. QED
    BY <1>2, <1>3, <1>4, <1>5

\* Multiples of a variable number.
LEMMA Multiples ==
  ASSUME NEW k \in Nat \ {0}
  PROVE  /\ \A i \in Int : (i * k) % k = 0
         /\ \A i, j \in Int : i < j <=> i * k < j * k
         /\ \A i, j \in Int : i < j => i * k + k <= j * k
  <1>1. \A i \in Int : (i * k) % k = 0
    OBVIOUS
  <1>2. \A i, j \in Int : i < j => i * k + k <= j * k
    <2>1. TAKE i, j \in Int
    <2>2. HAVE i < j
    <2>3. PICK e \in Nat : j = i + 1 + e
      <3>1. j - i - 1 \in Nat /\ j = i + 1 + (j - i - 1)
        BY <2>2
      <3>2. QED
        BY <3>1
    <2>4. e * k \in Nat
      OBVIOUS
    <2>5. j * k = i * k + k + e * k
      BY <2>3
    <2>6. i * k \in Int
      OBVIOUS
    <2>7. QED
      BY <2>4, <2>5, <2>6
  <1>3. \A i \in Int : i * k \in Int
    OBVIOUS
  <1>4. \A i, j \in Int : i < j <=> i * k < j * k
    <2>1. TAKE i, j \in Int
    <2>2. i * k \in Int /\ j * k \in Int
      BY <1>3
    <2>3. CASE i < j
      BY <1>2, <2>2, <2>3
    <2>4. CASE j < i
      BY <1>2, <2>2, <2>4
    <2>5. CASE i = j
      BY <2>2, <2>5
    <2>6. QED
      BY <2>3, <2>4, <2>5
  <1>5. QED
    BY <1>1, <1>2, <1>4

\* A number without remainder is a multiple.
LEMMA NoRemainder ==
  ASSUME NEW k \in Nat \ {0}, NEW n \in Int, n % k = 0
  PROVE  \E j \in Int : n = j * k
  <1>1. PICK q \in Int : q * k <= n /\ n < q * k + k
    <2>1. n \div k \in Int /\ (n \div k) * k <= n /\ n < (n \div k) * k + k
      OBVIOUS
    <2>2. QED
      BY <2>1
  <1>2. PICK m \in Int : m = q * k
    OBVIOUS
  <1>3. PICK e \in 0 .. k - 1 : n = m + e
    BY <1>1, <1>2
  <1>4. (q * k + e) % k = e
    OBVIOUS
  <1>5. n = q * k
    BY <1>2, <1>3, <1>4
  <1>6. QED
    BY <1>5

\* The runs of a schedule by their number: so many days or months lie between two.
Daily(r) == r.frequency \in {"daily", "weekly"}
Stride(r) ==
  CASE r.frequency = "daily" -> r.interval
    [] r.frequency = "weekly" -> 7 * r.interval
    [] r.frequency = "monthly" -> r.interval
    [] r.frequency = "yearly" -> 12 * r.interval
Anchor(r) == DayOfMonth(FirstOf(r))
FirstMonth(r) == MonthOf(FirstOf(r))
DayAt(r, i) ==
  IF Daily(r) THEN FirstOf(r) + i * Stride(r) ELSE DayFor(Anchor(r), FirstMonth(r) + i * Stride(r))

\* What these are.
LEMMA StartShape ==
  ASSUME NEW r \in Schedules
  PROVE  /\ FirstOf(r) \in Int /\ Clock(r) \in 0 .. Slots - 1
         /\ Start(r) = [wall |-> FirstOf(r) * Slots + Clock(r), fold |-> Start(r).fold]
         /\ Start(r).wall = FirstOf(r) * Slots + Clock(r)
         /\ Start(r).wall \in Int /\ Start(r).fold \in {0, 1} /\ RunFold(r) \in {0, 1}
         /\ Stride(r) \in Nat \ {0}
         /\ Anchor(r) \in Nat \ {0} /\ FirstMonth(r) \in Int
         /\ DayFor(Anchor(r), FirstMonth(r)) = FirstOf(r)
         /\ Utc(r.zone, Start(r)) = r.start
  <1>1. r.start \in Int /\ ZoneOK(r.zone) /\ r.interval \in Nat \ {0}
        /\ r.frequency \in {"daily", "weekly", "monthly", "yearly"}
    BY ScheduleShape
  <1>2. PICK wall \in Int, fold \in {0, 1} :
          /\ wall = LocalTime(r.zone, r.start).wall /\ fold = LocalTime(r.zone, r.start).fold
          /\ LocalTime(r.zone, r.start) = [wall |-> wall, fold |-> fold]
    <2>1. /\ LocalTime(r.zone, r.start).wall \in Int
          /\ LocalTime(r.zone, r.start).fold \in {0, 1}
      BY <1>1, LocalShape
    <2>2. LocalTime(r.zone, r.start) = [wall |-> LocalTime(r.zone, r.start).wall,
                                        fold |-> LocalTime(r.zone, r.start).fold]
      BY DEF LocalTime
    <2>3. QED
      BY <2>1, <2>2
  <1>3. PICK day \in Int, clock \in 0 .. Slots - 1 :
          wall = day * Slots + clock /\ DayOf(wall) = day /\ wall % Slots = clock
    BY WallParts
  <1>4. FirstOf(r) = day /\ Clock(r) = clock /\ Start(r) = [wall |-> wall, fold |-> fold]
    BY <1>2, <1>3 DEF FirstOf, Clock, Start
  <1>5. Stride(r) \in Nat \ {0}
    BY <1>1 DEF Stride
  <1>6. PICK m \in Int : m = FirstMonth(r) /\ m = MonthOf(day)
    BY <1>4, MonthOfDay DEF FirstMonth
  <1>7. PICK n \in Nat \ {0} : n = Anchor(r) /\ n = DayOfMonth(day) /\ n <= LengthOfMonth(m)
    <2>1. DayOfMonth(day) \in 1 .. LengthOfMonth(m) /\ LengthOfMonth(m) \in Int
      BY <1>6, DayNumbers, MonthLengths
    <2>2. QED
      BY <1>4, <2>1 DEF Anchor
  <1>8. DayFor(n, m) = day
    <2>1. DayIn(n, m) = n
      BY <1>7 DEF DayIn
    <2>2. day = FirstDay(m) + n - 1
      BY <1>6, <1>7, DayNumbers
    <2>3. QED
      BY <2>1, <2>2 DEF DayFor
  <1>9. Utc(r.zone, Start(r)) = r.start
    BY <1>1, RoundTrip DEF Start
  <1>10. QED
    BY <1>2, <1>3, <1>4, <1>5, <1>6, <1>7, <1>8, <1>9 DEF RunFold

\* Runs have days, in their order, from the first.
LEMMA DaysInOrder ==
  ASSUME NEW r \in Schedules
  PROVE  /\ DayAt(r, 0) = FirstOf(r)
         /\ \A i \in Int : DayAt(r, i) \in Int
         /\ \A i, j \in Int : i < j => DayAt(r, i) < DayAt(r, j)
  <1>1. PICK k \in Nat \ {0} : k = Stride(r)
    BY StartShape
  <1>2. PICK first \in Int : first = FirstOf(r)
    BY StartShape
  <1>3. PICK n \in Nat \ {0}, m \in Int :
          n = Anchor(r) /\ m = FirstMonth(r) /\ DayFor(n, m) = first
    BY <1>2, StartShape
  <1>4. \A i \in Int : i * k \in Int
    OBVIOUS
  <1>5. CASE Daily(r)
    <2>1. \A i \in Int : DayAt(r, i) = first + i * k
      BY <1>1, <1>2, <1>5 DEF DayAt
    <2>2. \A i, j \in Int : i < j => i * k < j * k
      BY Multiples
    <2>3. DayAt(r, 0) = first
      BY <2>1
    <2>4. QED
      BY <1>2, <1>4, <2>1, <2>2, <2>3
  <1>6. CASE ~ Daily(r)
    <2>1. \A i \in Int : DayAt(r, i) = DayFor(n, m + i * k)
      BY <1>1, <1>3, <1>6 DEF DayAt
    <2>2. DayAt(r, 0) = first
      <3>1. m + 0 * k = m
        OBVIOUS
      <3>2. QED
        BY <1>3, <2>1, <3>1
    <2>3. ASSUME NEW i \in Int
          PROVE  DayAt(r, i) \in Int
      <3>1. PICK a \in Int : a = m + i * k
        BY <1>4
      <3>2. QED
        BY <2>1, <3>1, DayForMonth
    <2>4. ASSUME NEW i \in Int, NEW j \in Int, i < j
          PROVE  DayAt(r, i) < DayAt(r, j)
      <3>1. PICK a \in Int, b \in Int : a = m + i * k /\ b = m + j * k
        BY <1>4
      <3>2. a < b
        <4>1. i * k < j * k
          BY <2>4, Multiples
        <4>2. QED
          BY <1>4, <3>1, <4>1
      <3>3. QED
        BY <2>1, <3>1, <3>2, DayForOrder
    <2>5. QED
      BY <1>2, <2>2, <2>3, <2>4
  <1>7. QED
    BY <1>5, <1>6

\* The days a schedule names are those of its runs.
LEMMA NamedDays ==
  ASSUME NEW r \in Schedules, NEW d \in Int
  PROVE  Names(r, d) <=> \E i \in Nat : d = DayAt(r, i)
  <1>1. PICK k \in Nat \ {0} : k = Stride(r)
    BY StartShape
  <1>2. PICK first \in Int : first = FirstOf(r)
    BY StartShape
  <1>3. PICK n \in Nat \ {0}, m \in Int :
          /\ n = Anchor(r) /\ m = FirstMonth(r) /\ DayFor(n, m) = first
          /\ n = DayOfMonth(first) /\ m = MonthOf(first)
    BY <1>2, StartShape DEF Anchor, FirstMonth
  <1>4. PICK month \in Int : month = MonthOf(d)
    BY MonthOfDay
  <1>5. \A i \in Int : i * k \in Int
    OBVIOUS
  <1>6. r.frequency \in {"daily", "weekly", "monthly", "yearly"}
    BY ScheduleShape
  <1>7. CASE Daily(r)
    <2>1. Names(r, d) <=> d >= first /\ (d - first) % k = 0
      BY <1>1, <1>2, <1>7 DEF Names, Daily, Stride
    <2>2. \A i \in Int : DayAt(r, i) = first + i * k
      BY <1>1, <1>2, <1>7 DEF DayAt
    <2>3. ASSUME d >= first, (d - first) % k = 0
          PROVE  \E i \in Nat : d = DayAt(r, i)
      <3>1. PICK e \in Int : e = d - first /\ e >= 0 /\ e % k = 0
        <4>1. d - first \in Int /\ d - first >= 0 /\ (d - first) % k = 0
          BY <2>3
        <4>2. QED
          BY <4>1, Zenon
      <3>2. PICK i \in Int : e = i * k
        BY <3>1, NoRemainder, Zenon
      <3>3. i >= 0
        <4>1. i < 0 => i * k < 0 * k
          BY Multiples
        <4>2. QED
          BY <1>5, <3>1, <3>2, <4>1
      <3>4. PICK j \in Int : j = i * k
        BY <1>5
      <3>5. d = first + j
        BY <3>1, <3>2, <3>4
      <3>6. DayAt(r, i) = first + j
        BY <2>2, <3>4
      <3>7. QED
        BY <3>3, <3>5, <3>6
    <2>4. ASSUME NEW i \in Nat, d = DayAt(r, i)
          PROVE  d >= first /\ (d - first) % k = 0
      <3>1. PICK e \in Nat : e = i * k
        OBVIOUS
      <3>2. d - first = e
        BY <2>2, <2>4, <3>1
      <3>3. (i * k) % k = 0
        BY Multiples
      <3>4. QED
        BY <3>1, <3>2, <3>3
    <2>5. QED
      BY <2>1, <2>3, <2>4
  <1>8. CASE ~ Daily(r)
    <2>1. Names(r, d) <=> /\ d >= first /\ (month - m) % k = 0
                          /\ DayOfMonth(d) = DayIn(n, month)
      BY <1>1, <1>2, <1>3, <1>4, <1>6, <1>8 DEF Names, Daily, Stride, SameDayOfMonth, DayIn
    <2>2. \A i \in Int : DayAt(r, i) = DayFor(n, m + i * k)
      BY <1>1, <1>3, <1>8 DEF DayAt
    <2>3. ASSUME d >= first, (month - m) % k = 0, DayOfMonth(d) = DayIn(n, month)
          PROVE  \E i \in Nat : d = DayAt(r, i)
      <3>1. d = DayFor(n, month)
        BY <1>4, <2>3, DayForOnly
      <3>2. PICK e \in Int : e = month - m
        OBVIOUS
      <3>3. PICK i \in Int : e = i * k
        <4>1. e % k = 0
          BY <2>3, <3>2
        <4>2. QED
          BY <4>1, NoRemainder
      <3>4. e >= 0
        <4>1. month < m => DayFor(n, month) < DayFor(n, m)
          BY DayForOrder
        <4>2. QED
          BY <1>3, <2>3, <3>1, <3>2, <4>1
      <3>5. i >= 0
        <4>1. i < 0 => i * k < 0 * k
          BY Multiples
        <4>2. QED
          BY <1>5, <3>3, <3>4, <4>1
      <3>6. m + i * k = month
        BY <3>2, <3>3
      <3>7. DayAt(r, i) = d
        BY <2>2, <3>1, <3>6
      <3>8. QED
        BY <3>5, <3>7
    <2>4. ASSUME NEW i \in Nat, d = DayAt(r, i)
          PROVE  /\ d >= first /\ (month - m) % k = 0
                 /\ DayOfMonth(d) = DayIn(n, month)
      <3>1. PICK e \in Nat : e = i * k
        OBVIOUS
      <3>2. PICK j \in Int : j = m + e
        OBVIOUS
      <3>3. d = DayFor(n, j)
        BY <2>2, <2>4, <3>1, <3>2
      <3>4. month = j /\ DayOfMonth(d) = DayIn(n, j)
        BY <1>4, <3>3, DayForMonth
      <3>5. d >= first
        <4>1. m < j => DayFor(n, m) < DayFor(n, j)
          BY DayForOrder
        <4>2. DayFor(n, m) \in Int /\ DayFor(n, j) \in Int
          BY DayForMonth
        <4>3. CASE m < j
          BY <1>3, <3>3, <4>1, <4>2, <4>3
        <4>4. CASE m = j
          BY <1>3, <3>3, <4>2, <4>4
        <4>5. QED
          BY <3>1, <3>2, <4>3, <4>4
      <3>6. (i * k) % k = 0
        BY Multiples
      <3>7. month - m = e
        BY <3>2, <3>4
      <3>8. QED
        BY <3>1, <3>4, <3>5, <3>6, <3>7
    <2>5. QED
      BY <2>1, <2>3, <2>4
  <1>9. QED
    BY <1>7, <1>8

\* The wall clock of a run.
WallAt(r, i) == DayAt(r, i) * Slots + Clock(r)
LEMMA WallsInOrder ==
  ASSUME NEW r \in Schedules
  PROVE  /\ WallAt(r, 0) = Start(r).wall
         /\ \A i \in Int : WallAt(r, i) \in Int /\ DayOf(WallAt(r, i)) = DayAt(r, i)
         /\ \A i, j \in Int : i < j => WallAt(r, i) < WallAt(r, j)
  <1>1. PICK clock \in 0 .. Slots - 1 : clock = Clock(r)
    BY StartShape
  <1>2. \A i \in Int : DayAt(r, i) \in Int
    BY DaysInOrder
  <1>3. WallAt(r, 0) = Start(r).wall
    BY DaysInOrder, StartShape DEF WallAt
  <1>4. ASSUME NEW i \in Int
        PROVE  WallAt(r, i) \in Int /\ DayOf(WallAt(r, i)) = DayAt(r, i)
    <2>1. PICK day \in Int : day = DayAt(r, i)
      BY <1>2
    <2>2. QED
      BY <1>1, <2>1, PartsOfWall DEF WallAt
  <1>5. ASSUME NEW i \in Int, NEW j \in Int, i < j
        PROVE  WallAt(r, i) < WallAt(r, j)
    <2>1. PICK a \in Int, b \in Int : a = DayAt(r, i) /\ b = DayAt(r, j)
      BY <1>2
    <2>2. a < b
      BY <1>5, <2>1, DaysInOrder
    <2>3. QED
      BY <1>1, <2>1, <2>2 DEF WallAt, Slots
  <1>6. QED
    BY <1>3, <1>4, <1>5

\* A run is the instant of its wall clock; the first is the start.
LEMMA RunOfDay ==
  ASSUME NEW r \in Schedules, NEW i \in Nat
  PROVE  /\ i = 0 => RunOn(r, DayAt(r, i)) = r.start
         /\ i > 0 \/ ~ Daily(r) =>
              RunOn(r, DayAt(r, i)) = Utc(r.zone, [wall |-> WallAt(r, i), fold |-> RunFold(r)])
  <1>1. i = 0 => RunOn(r, DayAt(r, i)) = r.start
    BY DaysInOrder DEF RunOn
  <1>2. i > 0 => DayAt(r, i) # FirstOf(r)
    <2>1. i > 0 => DayAt(r, 0) < DayAt(r, i)
      BY DaysInOrder
    <2>2. DayAt(r, 0) = FirstOf(r) /\ FirstOf(r) \in Int /\ DayAt(r, i) \in Int
      BY DaysInOrder, StartShape
    <2>3. QED
      BY <2>1, <2>2
  <1>3. i > 0 => RunOn(r, DayAt(r, i)) = Utc(r.zone, [wall |-> WallAt(r, i), fold |-> RunFold(r)])
    BY <1>2 DEF RunOn, WallAt
  <1>4. ASSUME i = 0, ~ Daily(r)
        PROVE  RunOn(r, DayAt(r, i)) = Utc(r.zone, [wall |-> WallAt(r, i), fold |-> RunFold(r)])
    <2>1. RunFold(r) = Start(r).fold
      BY <1>4 DEF RunFold, Daily
    <2>2. WallAt(r, i) = FirstOf(r) * Slots + Clock(r)
      BY <1>4, DaysInOrder DEF WallAt
    <2>3. [wall |-> WallAt(r, i), fold |-> RunFold(r)] = Start(r)
      BY <2>1, <2>2, StartShape
    <2>4. QED
      BY <1>1, <1>4, <2>3, StartShape
  <1>5. QED
    BY <1>1, <1>3, <1>4

-----------------------------------------------------------------------------
\* Schedules: the next run

\* A run of the number index is the next after the wall clock of an instant.
FirstAfter(r, index, wall) ==
  index \in Nat /\ WallAt(r, index) > wall /\ (index > 0 => WallAt(r, index - 1) <= wall)

\* The occurrence computed from the wall clock is one of the schedule's runs.
LEMMA TimedeltaRun ==
  ASSUME NEW r \in Schedules, Daily(r), NEW after, NEW wall \in Int, wall = after.wall
  PROVE  \E i \in Nat :
           /\ FirstAfter(r, i, wall)
           /\ Utc(r.zone, NextTimedeltaOccurrence(r, after)) = RunOn(r, DayAt(r, i))
  <1>1. PICK k \in Nat \ {0} : k = Stride(r)
    BY StartShape
  <1>2. PICK step \in Nat \ {0} : step = Step(r) /\ step = k * Slots
    <2>1. r.interval \in Nat \ {0}
      BY ScheduleShape
    <2>2. Step(r) = k * Slots /\ k * Slots \in Nat \ {0}
      BY <1>1, <2>1 DEF Step, Stride, Daily, Slots
    <2>3. QED
      BY <2>2
  <1>3. PICK first \in Int : first = Start(r).wall
    BY StartShape
  <1>4. ASSUME NEW i \in Nat
        PROVE  WallAt(r, i) = first + i * step
    <2>1. PICK day \in Int, clock \in Int :
            day = FirstOf(r) /\ clock = Clock(r) /\ first = day * Slots + clock
      BY <1>3, StartShape
    <2>2. WallAt(r, i) = (day + i * k) * Slots + clock
      BY <1>1, <2>1 DEF WallAt, DayAt
    <2>3. (day + i * k) * Slots = day * Slots + i * (k * Slots)
      BY DEF Slots
    <2>4. i * (k * Slots) = i * step
      BY <1>2
    <2>5. i * step \in Int
      OBVIOUS
    <2>6. QED
      BY <2>1, <2>2, <2>3, <2>4, <2>5 DEF Slots
  <1>5. CASE first > wall
    <2>1. NextTimedeltaOccurrence(r, after) = Start(r)
      BY <1>3, <1>5 DEF NextTimedeltaOccurrence
    <2>2. FirstAfter(r, 0, wall)
      BY <1>3, <1>5, WallsInOrder DEF FirstAfter
    <2>3. RunOn(r, DayAt(r, 0)) = r.start
      BY RunOfDay
    <2>4. QED
      BY <2>1, <2>2, <2>3, StartShape
  <1>6. CASE first <= wall
    <2>1. PICK e \in Nat : e = wall - first
      BY <1>6
    <2>2. PICK q \in Nat : q = e \div step /\ q * step <= e /\ e < q * step + step
      <3>1. /\ e \div step \in Nat /\ (e \div step) * step <= e
            /\ e < (e \div step) * step + step
        OBVIOUS
      <3>2. QED
        BY <3>1
    <2>3. PICK i \in Nat : i = q + 1 /\ i > 0 /\ i - 1 = q
      OBVIOUS
    <2>4. PICK p \in Int : p = q * step
      OBVIOUS
    <2>5. i * step = p + step
      BY <2>3, <2>4
    <2>6. WallAt(r, q) = first + p /\ WallAt(r, i) = first + (p + step)
      BY <1>4, <2>4, <2>5
    <2>7. FirstAfter(r, i, wall)
      BY <2>1, <2>2, <2>3, <2>4, <2>6 DEF FirstAfter
    <2>8. NextTimedeltaOccurrence(r, after) = [wall |-> WallAt(r, i), fold |-> 0]
      <3>1. after.wall - Start(r).wall = e
        BY <1>3, <2>1
      <3>2. ~ (Start(r).wall > after.wall)
        BY <1>3, <1>6
      <3>3. (after.wall - Start(r).wall) \div Step(r) + 1 = i
        BY <1>2, <2>2, <2>3, <3>1
      <3>4. Start(r).wall + i * Step(r) = WallAt(r, i)
        BY <1>2, <1>3, <1>4
      <3>5. QED
        BY <3>2, <3>3, <3>4 DEF NextTimedeltaOccurrence
    <2>9. RunFold(r) = 0
      BY DEF RunFold, Daily
    <2>10. RunOn(r, DayAt(r, i)) = Utc(r.zone, [wall |-> WallAt(r, i), fold |-> RunFold(r)])
      BY <2>3, RunOfDay
    <2>11. QED
      BY <2>7, <2>8, <2>9, <2>10
  <1>7. QED
    BY <1>3, <1>5, <1>6

\* A month from the start on has the run of the schedule's day of the month.
LEMMA MonthRun ==
  ASSUME NEW r \in Schedules, ~ Daily(r), NEW i \in Nat
  PROVE  /\ AddMonths(Start(r), i * Step(r)) = [wall |-> WallAt(r, i), fold |-> RunFold(r)]
         /\ MonthOf(DayAt(r, i)) = FirstMonth(r) + i * Step(r)
  <1>1. PICK k \in Nat \ {0} : k = Stride(r) /\ k = Step(r)
    <2>1. r.frequency \in {"daily", "weekly", "monthly", "yearly"}
      BY ScheduleShape
    <2>2. Stride(r) = Step(r)
      BY <2>1 DEF Stride, Step, Daily
    <2>3. QED
      BY <2>2, StartShape
  <1>2. PICK first \in Int, clock \in 0 .. Slots - 1, wall \in Int, fold \in {0, 1} :
          /\ first = FirstOf(r) /\ clock = Clock(r) /\ wall = first * Slots + clock
          /\ Start(r) = [wall |-> wall, fold |-> fold] /\ Start(r).wall = wall
          /\ Start(r).fold = fold
    <2>1. FirstOf(r) \in Int /\ Clock(r) \in 0 .. Slots - 1 /\ Start(r).fold \in {0, 1}
          /\ FirstOf(r) * Slots + Clock(r) \in Int
          /\ Start(r).wall = FirstOf(r) * Slots + Clock(r)
          /\ Start(r) = [wall |-> FirstOf(r) * Slots + Clock(r), fold |-> Start(r).fold]
      BY StartShape
    <2>2. QED
      BY <2>1
  <1>3. PICK n \in Nat \ {0}, m \in Int :
          n = Anchor(r) /\ m = FirstMonth(r) /\ n = DayOfMonth(first) /\ m = MonthOf(first)
    BY <1>2, StartShape DEF Anchor, FirstMonth
  <1>4. PICK j \in Int : j = m + i * k
    OBVIOUS
  <1>5. DayOf(wall) = first /\ wall % Slots = clock
    BY <1>2, PartsOfWall
  <1>6. DayAt(r, i) = DayFor(n, j)
    BY <1>1, <1>3, <1>4 DEF DayAt
  <1>7. AddMonths(Start(r), i * Step(r)) = InMonth(Start(r), j)
    BY <1>1, <1>2, <1>3, <1>4, <1>5 DEF AddMonths
  <1>8. InMonth(Start(r), j) = [wall |-> DayFor(n, j) * Slots + clock, fold |-> fold]
    BY <1>2, <1>3, <1>5 DEF InMonth, DayFor, StartOf
  <1>9. RunFold(r) = fold
    BY <1>2 DEF RunFold, Daily
  <1>10. MonthOf(DayFor(n, j)) = j
    BY DayForMonth
  <1>11. QED
    BY <1>1, <1>2, <1>3, <1>4, <1>6, <1>7, <1>8, <1>9, <1>10 DEF WallAt

\* A wall clock of an earlier month, or day, shows less.
LEMMA EarlierMonth ==
  ASSUME NEW v \in Int, NEW w \in Int, MonthOf(DayOf(v)) < MonthOf(DayOf(w))
  PROVE  v < w
  <1>1. PICK d \in Int, e \in Int : d = DayOf(v) /\ e = DayOf(w)
    BY DEF DayOf, Slots
  <1>2. PICK j \in Int, m \in Int : j = MonthOf(d) /\ m = MonthOf(e)
    BY MonthOfDay
  <1>3. PICK k \in Int : k = j + 1 /\ k <= m
    BY <1>1, <1>2
  <1>4. d < FirstDay(k) /\ FirstDay(m) <= e
    BY <1>2, <1>3, MonthOfDay
  <1>5. FirstDay(k) \in Int /\ FirstDay(m) \in Int
    BY NextMonth
  <1>6. FirstDay(k) <= FirstDay(m)
    <2>1. CASE k = m
      BY <1>5, <2>1
    <2>2. CASE k < m
      BY <1>5, <2>2, MonthsOrdered
    <2>3. QED
      BY <1>3, <2>1, <2>2
  <1>7. d < e
    BY <1>4, <1>5, <1>6
  <1>8. QED
    BY <1>1, <1>7 DEF DayOf, Slots

\* The search for a monthly run ends: the last month looked at is after the wall clock's.
LEMMA LastAfter ==
  ASSUME NEW r \in Schedules, ~ Daily(r), NEW wall \in Int, NEW last,
         last = LET months == MonthOf(DayOf(wall)) - FirstMonth(r)
                IN IF months < 0 THEN 0 ELSE months \div Step(r) + 1
  PROVE  last \in Nat /\ WallAt(r, last) > wall
  <1>1. PICK k \in Nat \ {0} : k = Step(r)
    <2>1. r.frequency \in {"daily", "weekly", "monthly", "yearly"} /\ r.interval \in Nat \ {0}
      BY ScheduleShape
    <2>2. Step(r) \in Nat \ {0}
      BY <2>1 DEF Step, Daily
    <2>3. QED
      BY <2>2
  <1>2. PICK m \in Int, month \in Int : m = FirstMonth(r) /\ month = MonthOf(DayOf(wall))
    <2>1. DayOf(wall) \in Int
      BY DEF DayOf, Slots
    <2>2. QED
      BY <2>1, MonthOfDay, StartShape
  <1>3. last \in Nat /\ month < m + last * k
    <2>1. CASE month < m
      <3>1. last = 0
        BY <1>2, <2>1
      <3>2. 0 * k = 0
        OBVIOUS
      <3>3. QED
        BY <2>1, <3>1, <3>2
    <2>2. CASE ~ (month < m)
      <3>1. PICK e \in Nat : e = month - m
        BY <2>2
      <3>2. PICK q \in Nat : q = e \div k /\ e < q * k + k
        <4>1. e \div k \in Nat /\ e < (e \div k) * k + k
          OBVIOUS
        <4>2. QED
          BY <4>1
      <3>3. last = q + 1
        BY <1>1, <1>2, <2>2, <3>1, <3>2
      <3>4. last * k = q * k + k
        BY <3>3
      <3>5. PICK p \in Int : p = q * k
        OBVIOUS
      <3>6. QED
        BY <3>1, <3>2, <3>3, <3>4, <3>5
    <2>3. QED
      BY <2>1, <2>2
  <1>4. PICK i \in Nat : i = last
    BY <1>3
  <1>5. MonthOf(DayAt(r, i)) = m + i * k
    BY <1>1, <1>2, MonthRun
  <1>6. PICK w \in Int : w = WallAt(r, i) /\ DayOf(w) = DayAt(r, i)
    BY WallsInOrder
  <1>7. MonthOf(DayOf(wall)) < MonthOf(DayOf(w))
    BY <1>2, <1>3, <1>4, <1>5, <1>6
  <1>8. wall < w
    BY <1>7, EarlierMonth
  <1>9. QED
    BY <1>4, <1>6, <1>8

LEMMA MonthlyRun ==
  ASSUME NEW r \in Schedules, ~ Daily(r), NEW after, NEW wall \in Int, wall = after.wall
  PROVE  \E i \in Nat :
           /\ FirstAfter(r, i, wall)
           /\ Utc(r.zone, NextMonthlyOccurrence(r, after)) = RunOn(r, DayAt(r, i))
  <1>1. PICK last : last = LET months == MonthOf(DayOf(wall)) - FirstMonth(r)
                           IN IF months < 0 THEN 0 ELSE months \div Step(r) + 1
    OBVIOUS
  <1>2. last \in Nat /\ WallAt(r, last) > wall
    BY <1>1, LastAfter
  <1> DEFINE Candidate(i) == AddMonths(Start(r), i * Step(r))
             Good(i) == /\ Candidate(i).wall > wall
                        /\ i > 0 => Candidate(i - 1).wall <= wall
  <1>3. ASSUME NEW i \in Nat
        PROVE  /\ Candidate(i) = [wall |-> WallAt(r, i), fold |-> RunFold(r)]
               /\ Candidate(i).wall = WallAt(r, i)
    <2>1. Candidate(i) = [wall |-> WallAt(r, i), fold |-> RunFold(r)]
      BY MonthRun
    <2>2. QED
      BY <2>1
  <1> HIDE DEF Candidate
  <1>4. ASSUME NEW i \in Nat
        PROVE  Good(i) <=> FirstAfter(r, i, wall)
    <2>1. Candidate(i).wall = WallAt(r, i)
      BY <1>3
    <2>2. i > 0 => Candidate(i - 1).wall = WallAt(r, i - 1)
      <3>1. SUFFICES ASSUME i > 0
                     PROVE  Candidate(i - 1).wall = WallAt(r, i - 1)
        OBVIOUS
      <3>2. PICK j \in Nat : j = i - 1
        BY <3>1
      <3>3. Candidate(j).wall = WallAt(r, j)
        BY <1>3
      <3>4. QED
        BY <3>2, <3>3
    <2>3. QED
      BY <2>1, <2>2 DEF FirstAfter
  <1>5. \E i \in 0 .. last : Good(i)
    <2>1. PICK later : later = {i \in 0 .. last : WallAt(r, i) > wall}
      OBVIOUS
    <2>2. PICK i \in later : \A j \in later : i <= j
      <3>1. last \in later /\ later \subseteq Nat
        BY <1>2, <2>1
      <3>2. QED
        BY <3>1, LeastNatural
    <2>3. i \in 0 .. last /\ WallAt(r, i) > wall
      BY <2>1, <2>2
    <2>4. i > 0 => WallAt(r, i - 1) <= wall
      <3>1. SUFFICES ASSUME i > 0
                     PROVE  WallAt(r, i - 1) <= wall
        OBVIOUS
      <3>2. PICK j \in 0 .. last : j = i - 1
        BY <1>2, <2>3, <3>1
      <3>3. j \notin later
        BY <1>2, <2>2, <2>3, <3>2
      <3>4. WallAt(r, j) \in Int
        BY <1>2, WallsInOrder
      <3>5. QED
        BY <2>1, <3>2, <3>3, <3>4
    <2>5. FirstAfter(r, i, wall)
      BY <1>2, <2>3, <2>4 DEF FirstAfter
    <2>6. QED
      BY <1>2, <1>4, <2>3, <2>5
  <1>6. PICK index : index = CHOOSE i \in 0 .. last : Good(i)
    OBVIOUS
  <1>7. index \in 0 .. last /\ Good(index)
    BY <1>5, <1>6
  <1>8. NextMonthlyOccurrence(r, after) = Candidate(index)
    <2>1. MonthOf(DayOf(Start(r).wall)) = FirstMonth(r)
      BY DEF FirstMonth, FirstOf
    <2>2. QED
      BY <1>1, <1>6, <2>1 DEF NextMonthlyOccurrence, Candidate
  <1>9. index \in Nat /\ FirstAfter(r, index, wall)
    BY <1>2, <1>4, <1>7
  <1>10. RunOn(r, DayAt(r, index)) = Utc(r.zone, Candidate(index))
    BY <1>3, <1>9, RunOfDay
  <1>11. QED
    BY <1>8, <1>9, <1>10

\* The next run computed from an instant is the schedule's first that the wall clock then
\* was before.
LEMMA NextRunOf ==
  ASSUME NEW r \in Schedules, NEW t \in Int
  PROVE  \E i \in Nat : /\ FirstAfter(r, i, LocalTime(r.zone, t).wall)
                        /\ NextRunAfter(r, t) = RunOn(r, DayAt(r, i))
  <1>1. PICK after : after = LocalTime(r.zone, t)
    OBVIOUS
  <1>2. PICK wall \in Int : wall = after.wall /\ wall = LocalTime(r.zone, t).wall
    BY <1>1, ScheduleShape, LocalShape
  <1>3. CASE Daily(r)
    <2>1. NextRunAfter(r, t) = Utc(r.zone, NextTimedeltaOccurrence(r, after))
      BY <1>1, <1>3 DEF NextRunAfter, Daily
    <2>2. QED
      BY <1>2, <1>3, <2>1, TimedeltaRun
  <1>4. CASE ~ Daily(r)
    <2>1. NextRunAfter(r, t) = Utc(r.zone, NextMonthlyOccurrence(r, after))
      BY <1>1, <1>4 DEF NextRunAfter, Daily
    <2>2. QED
      BY <1>2, <1>4, <2>1, MonthlyRun
  <1>5. QED
    BY <1>3, <1>4

\* In such an hour an earlier instant is not shown later.
LEMMA CalmLocal ==
  ASSUME NEW zone, ZoneOK(zone), NEW t \in Int, NEW fold \in {0, 1}, Calm(zone, t, fold),
         NEW u \in Int, u < t
  PROVE  LocalTime(zone, u).wall <= LocalTime(zone, t).wall
  <1>1. PICK hour \in Nat : hour = zone.summer - zone.standard
    BY DEF ZoneOK
  <1>2. PICK a \in Int, b \in Int :
          /\ a = OffsetAt(zone, u) /\ b = OffsetAt(zone, t)
          /\ a \in {zone.summer, zone.standard} /\ b \in {zone.summer, zone.standard}
          /\ LocalTime(zone, u).wall = u + a /\ LocalTime(zone, t).wall = t + b
    <2>1. OffsetAt(zone, u) \in {zone.summer, zone.standard}
          /\ OffsetAt(zone, t) \in {zone.summer, zone.standard}
          /\ LocalTime(zone, u).wall = u + OffsetAt(zone, u)
          /\ LocalTime(zone, t).wall = t + OffsetAt(zone, t)
      BY LocalShape
    <2>2. QED
      BY <2>1 DEF ZoneOK
  <1>3. CASE u >= t - hour
    <2>1. u \in t - hour .. t + hour * fold
      BY <1>1, <1>3
    <2>2. a = b
      BY <1>1, <1>2, <2>1 DEF Calm
    <2>3. QED
      BY <1>2, <2>2
  <1>4. CASE u < t - hour
    BY <1>1, <1>2, <1>4 DEF ZoneOK
  <1>5. QED
    BY <1>3, <1>4

\* A run that is not the first is at its day's time by one of the zone's offsets.
LEMMA DayOfRun ==
  ASSUME NEW r \in Schedules, NEW i \in Nat, NEW u, u = RunOn(r, DayAt(r, i))
  PROVE  /\ u \in Int
         /\ DayAt(r, i) \in {DayOf(u + r.zone.standard), DayOf(u + r.zone.summer)}
         /\ Shown(r.zone, WallAt(r, i)) => LocalTime(r.zone, u).wall = WallAt(r, i)
  <1>1. r.start \in Int /\ ZoneOK(r.zone)
    BY ScheduleShape
  <1>2. PICK wall \in Int : wall = WallAt(r, i) /\ DayOf(wall) = DayAt(r, i)
    BY WallsInOrder
  <1>3. CASE i = 0
    <2>1. u = r.start /\ wall = Start(r).wall
      BY <1>2, <1>3, RunOfDay, WallsInOrder
    <2>2. wall = LocalTime(r.zone, u).wall
      BY <2>1 DEF Start
    <2>3. wall \in {u + r.zone.standard, u + r.zone.summer}
      BY <1>1, <2>1, <2>2, LocalShape
    <2>4. QED
      BY <1>1, <1>2, <2>1, <2>2, <2>3
  <1>4. CASE i > 0
    <2>1. PICK fold \in {0, 1} : fold = RunFold(r)
      BY StartShape
    <2>2. u = Utc(r.zone, [wall |-> wall, fold |-> fold])
      BY <1>2, <1>4, <2>1, RunOfDay
    <2>3. PICK a \in Int, b \in Int, v \in Int : UtcIs(r.zone, wall, fold, a, b, v)
      BY <1>1, UtcOf
    <2>4. u \in Int /\ wall \in {u + r.zone.standard, u + r.zone.summer}
      BY <1>1, <2>2, <2>3 DEF UtcIs, ZoneOK
    <2>5. ASSUME Shown(r.zone, wall)
          PROVE  LocalTime(r.zone, u).wall = wall
      <3>1. LocalTime(r.zone, Utc(r.zone, [wall |-> wall, fold |-> fold])).wall = wall
        BY <1>1, <2>5, UtcShown
      <3>2. QED
        BY <2>2, <3>1
    <2>6. QED
      BY <1>2, <2>4, <2>5
  <1>5. QED
    BY <1>3, <1>4

\* While the clock is steady, a run that the wall clock is before is later, and one that it
\* has passed is not.
LEMMA SteadyRuns ==
  ASSUME NEW r \in Schedules, NEW t \in Int, t > r.start, ClockSteady(r, t), NEW i \in Nat
  PROVE  /\ WallAt(r, i) > LocalTime(r.zone, t).wall => RunOn(r, DayAt(r, i)) > t
         /\ WallAt(r, i) <= LocalTime(r.zone, t).wall => RunOn(r, DayAt(r, i)) <= t
  <1>1. r.start \in Int /\ ZoneOK(r.zone)
    BY ScheduleShape
  <1>2. PICK fold \in {0, 1} : fold = RunFold(r)
    BY StartShape
  <1>3. Calm(r.zone, t, fold)
    BY <1>2 DEF Calm, ClockSteady
  <1>4. PICK wall \in Int : wall = WallAt(r, i)
    BY WallsInOrder
  <1>5. PICK shown \in Int : shown = LocalTime(r.zone, t).wall
    BY <1>1, LocalShape
  <1>6. CASE i = 0
    <2>1. RunOn(r, DayAt(r, i)) = r.start
      BY <1>6, RunOfDay
    <2>2. wall = LocalTime(r.zone, r.start).wall
      BY <1>4, <1>6, WallsInOrder DEF Start
    <2>3. wall <= shown
      BY <1>1, <1>3, <1>5, <2>2, CalmLocal
    <2>4. QED
      BY <1>1, <1>4, <1>5, <2>1, <2>3
  <1>7. CASE i > 0
    <2>1. PICK u : u = Utc(r.zone, [wall |-> wall, fold |-> fold])
      OBVIOUS
    <2>2. RunOn(r, DayAt(r, i)) = u
      BY <1>2, <1>4, <1>7, <2>1, RunOfDay
    <2>3. QED
      BY <1>1, <1>3, <1>4, <2>1, <2>2, CalmOrder
  <1>8. QED
    BY <1>6, <1>7

\* What NextRunIsNext and RemindersMatchRuns say of a schedule, an instant, the run found
\* then and whether it was due.
NextOf(r, t, next) ==
  \E day \in {DayOf(next + r.zone.standard), DayOf(next + r.zone.summer)} :
    /\ Names(r, day) /\ next = RunOn(r, day)
    /\ Shown(r.zone, day * Slots + Clock(r)) => DayOf(LocalTime(r.zone, next).wall) = day
    /\ ClockSteady(r, t) =>
         /\ next > t \/ (next = r.start /\ t = next)
         /\ \A d \in DayOf(LocalTime(r.zone, t).wall) .. day - 1 :
              Names(r, d) => RunOn(r, d) <= t
DueAt(r, t) ==
  LET today == DayOf(LocalTime(r.zone, t).wall)
      month == FirstDay(MonthOf(today)) .. FirstDay(MonthOf(today) + 1) - 1
  IN r.frequency = "monthly" /\ \E d \in month : Names(r, d) /\ RunOn(r, d) <= t

LEMMA NextFound ==
  ASSUME NEW r \in Schedules, NEW t \in Int, t >= r.start,
         NEW next, next = NextRunOnOrAfter(r, t)
  PROVE  NextOf(r, t, next)
  <1>1. r.start \in Int /\ ZoneOK(r.zone)
    BY ScheduleShape
  <1>2. PICK shown \in Int : shown = LocalTime(r.zone, t).wall
    BY <1>1, LocalShape
  <1>3. PICK i \in Nat :
          /\ next = RunOn(r, DayAt(r, i))
          /\ IF t = r.start THEN i = 0 ELSE FirstAfter(r, i, shown)
    <2>1. CASE t = r.start
      <3>1. next = r.start
        BY <1>1, <2>1 DEF NextRunOnOrAfter
      <3>2. next = RunOn(r, DayAt(r, 0))
        BY <3>1, RunOfDay
      <3>3. QED
        BY <2>1, <3>2
    <2>2. CASE t > r.start
      <3>1. next = NextRunAfter(r, t)
        BY <1>1, <2>2 DEF NextRunOnOrAfter
      <3>2. QED
        BY <1>1, <1>2, <2>2, <3>1, NextRunOf
    <2>3. QED
      BY <1>1, <2>1, <2>2
  <1>4. PICK day \in Int : day = DayAt(r, i)
    BY DaysInOrder
  <1>5. /\ next \in Int /\ day \in {DayOf(next + r.zone.standard), DayOf(next + r.zone.summer)}
        /\ Shown(r.zone, WallAt(r, i)) => LocalTime(r.zone, next).wall = WallAt(r, i)
    BY <1>3, <1>4, DayOfRun
  <1>6. Names(r, day)
    BY <1>4, NamedDays
  <1>7. /\ day * Slots + Clock(r) = WallAt(r, i)
        /\ WallAt(r, i) \in Int /\ DayOf(WallAt(r, i)) = day
    BY <1>4, WallsInOrder DEF WallAt
  <1>8. ASSUME ClockSteady(r, t)
        PROVE  /\ next > t \/ (next = r.start /\ t = next)
               /\ \A d \in DayOf(shown) .. day - 1 : Names(r, d) => RunOn(r, d) <= t
    <2>1. CASE t = r.start
      <3>1. next = r.start
        BY <1>3, <2>1, RunOfDay
      <3>2. DayOf(shown) = day
        <4>1. WallAt(r, 0) = shown
          BY <1>2, <2>1, WallsInOrder DEF Start
        <4>2. QED
          BY <1>3, <1>7, <2>1, <4>1
      <3>3. DayOf(shown) .. day - 1 = {}
        BY <3>2
      <3>4. QED
        BY <2>1, <3>1, <3>3
    <2>2. CASE t > r.start
      <3>1. FirstAfter(r, i, shown)
        BY <1>1, <1>3, <2>2
      <3>2. next > t
        BY <1>2, <1>3, <1>8, <2>2, <3>1, SteadyRuns DEF FirstAfter
      <3>3. ASSUME NEW d \in DayOf(shown) .. day - 1, Names(r, d)
            PROVE  RunOn(r, d) <= t
        <4>1. d \in Int /\ d < day
          BY <1>2 DEF DayOf, Slots
        <4>2. PICK j \in Nat : d = DayAt(r, j)
          BY <3>3, <4>1, NamedDays
        <4>3. j < i
          <5>1. i < j => day < d
            BY <1>4, <4>2, DaysInOrder
          <5>2. i = j => day = d
            BY <1>4, <4>2
          <5>3. QED
            BY <4>1, <5>1, <5>2
        <4>4. PICK h \in Nat : h = i - 1 /\ j <= h
          BY <4>3
        <4>5. PICK v \in Int, w \in Int : v = WallAt(r, j) /\ w = WallAt(r, h)
          BY WallsInOrder
        <4>6. w <= shown
          BY <3>1, <4>3, <4>4, <4>5 DEF FirstAfter
        <4>7. v <= w
          <5>1. j < h => v < w
            BY <4>5, WallsInOrder
          <5>2. j = h => v = w
            BY <4>5
          <5>3. QED
            BY <4>4, <5>1, <5>2
        <4>8. v <= shown
          BY <1>2, <4>5, <4>6, <4>7
        <4>9. QED
          BY <1>2, <1>8, <2>2, <4>2, <4>5, <4>8, SteadyRuns
      <3>4. QED
        BY <3>2, <3>3
    <2>3. QED
      BY <1>1, <2>1, <2>2
  <1>9. QED
    BY <1>2, <1>3, <1>4, <1>5, <1>6, <1>7, <1>8 DEF NextOf

\* When a monthly rule is due in a month it runs in is its run of that month.
LEMMA DueIsRun ==
  ASSUME NEW r \in Schedules, r.frequency = "monthly", NEW i \in Nat,
         NEW month \in Int, month = FirstMonth(r) + i * r.interval
  PROVE  /\ MonthlyDueAt(r, month) = RunOn(r, DayAt(r, i))
         /\ MonthOf(DayAt(r, i)) = month
  <1>1. ~ Daily(r) /\ Step(r) = r.interval
    BY DEF Daily, Step
  <1>2. /\ AddMonths(Start(r), i * Step(r)) = [wall |-> WallAt(r, i), fold |-> RunFold(r)]
        /\ MonthOf(DayAt(r, i)) = FirstMonth(r) + i * Step(r)
    BY <1>1, MonthRun
  <1>3. AddMonths(Start(r), i * Step(r)) = InMonth(Start(r), month)
    BY <1>1 DEF AddMonths, FirstMonth, FirstOf
  <1>4. RunOn(r, DayAt(r, i)) = Utc(r.zone, [wall |-> WallAt(r, i), fold |-> RunFold(r)])
    BY <1>1, RunOfDay
  <1>5. QED
    BY <1>1, <1>2, <1>3, <1>4 DEF MonthlyDueAt

LEMMA DueFound ==
  ASSUME NEW r \in Schedules, NEW t \in Int
  PROVE  MonthlyDue(r, t) <=> DueAt(r, t)
  <1>1. CASE r.frequency # "monthly"
    BY <1>1 DEF MonthlyDue, DueAt
  <1>2. CASE r.frequency = "monthly"
    <2>1. ZoneOK(r.zone) /\ r.start \in Int
      BY ScheduleShape
    <2>2. PICK k \in Nat \ {0} : k = r.interval
      BY ScheduleShape
    <2>3. PICK today \in Int : today = DayOf(LocalTime(r.zone, t).wall)
      <3>1. LocalTime(r.zone, t).wall \in Int
        BY <2>1, LocalShape
      <3>2. QED
        BY <3>1 DEF DayOf, Slots
    <2>4. PICK month \in Int, m \in Int :
            /\ month = MonthOf(today) /\ m = FirstMonth(r)
            /\ month = MonthAt(r.zone, t) /\ m = MonthAt(r.zone, r.start)
      BY <2>3, MonthOfDay, StartShape DEF MonthAt, FirstMonth, FirstOf, Start
    <2>5. PICK e \in Int : e = month - m
      OBVIOUS
    <2>6. MonthlyDue(r, t) <=> e >= 0 /\ e % k = 0 /\ t >= MonthlyDueAt(r, month)
      BY <1>2, <2>2, <2>4, <2>5 DEF MonthlyDue, MonthlyDueWindow
    <2>7. FirstDay(month) \in Int /\ FirstDay(month + 1) \in Int
      <3>1. PICK later \in Int : later = month + 1
        OBVIOUS
      <3>2. QED
        BY <3>1, NextMonth
    <2>8. ASSUME NEW i \in Nat, e = i * k
          PROVE  /\ DayAt(r, i) \in FirstDay(month) .. FirstDay(month + 1) - 1
                 /\ Names(r, DayAt(r, i))
                 /\ RunOn(r, DayAt(r, i)) = MonthlyDueAt(r, month)
                 /\ RunOn(r, DayAt(r, i)) \in Int
      <3>1. month = FirstMonth(r) + i * r.interval
        BY <2>2, <2>4, <2>5, <2>8
      <3>2. /\ RunOn(r, DayAt(r, i)) = MonthlyDueAt(r, month)
            /\ MonthOf(DayAt(r, i)) = month
        BY <1>2, <3>1, DueIsRun
      <3>3. PICK d \in Int : d = DayAt(r, i)
        BY DaysInOrder
      <3>4. FirstDay(month) <= d /\ d < FirstDay(month + 1)
        BY <3>2, <3>3, MonthOfDay
      <3>5. Names(r, d)
        BY <3>3, NamedDays
      <3>6. PICK u : u = RunOn(r, DayAt(r, i))
        OBVIOUS
      <3>7. u \in Int
        BY <3>6, DayOfRun
      <3>8. QED
        BY <2>7, <3>2, <3>3, <3>4, <3>5, <3>6, <3>7
    <2>9. ASSUME e >= 0, e % k = 0, t >= MonthlyDueAt(r, month)
          PROVE  DueAt(r, t)
      <3>1. PICK i \in Int : e = i * k
        BY <2>9, NoRemainder
      <3>2. i \in Nat
        <4>1. i < 0 => i * k < 0 * k
          BY Multiples
        <4>2. 0 * k = 0
          OBVIOUS
        <4>3. QED
          BY <2>9, <3>1, <4>1, <4>2
      <3>3. /\ DayAt(r, i) \in FirstDay(month) .. FirstDay(month + 1) - 1
            /\ Names(r, DayAt(r, i)) /\ RunOn(r, DayAt(r, i)) <= t
        BY <2>8, <2>9, <3>1, <3>2
      <3>4. QED
        BY <1>2, <2>3, <2>4, <3>3 DEF DueAt
    <2>10. ASSUME DueAt(r, t)
           PROVE  e >= 0 /\ e % k = 0 /\ t >= MonthlyDueAt(r, month)
      <3>1. PICK d \in FirstDay(month) .. FirstDay(month + 1) - 1 :
              Names(r, d) /\ RunOn(r, d) <= t
        BY <2>3, <2>4, <2>10 DEF DueAt
      <3>2. d \in Int /\ FirstDay(month) <= d /\ d < FirstDay(month + 1)
        BY <2>7, <3>1
      <3>3. PICK i \in Nat : d = DayAt(r, i)
        BY <3>1, <3>2, NamedDays
      <3>4. MonthOf(d) = month
        <4>1. PICK later \in Int : later = month + 1
          OBVIOUS
        <4>2. month <= MonthOf(d) /\ MonthOf(d) < later
          BY <3>2, <4>1, MonthFixed
        <4>3. MonthOf(d) \in Int
          BY <3>2, MonthOfDay
        <4>4. QED
          BY <4>1, <4>2, <4>3
      <3>5. PICK p \in Nat : p = i * k
        OBVIOUS
      <3>6. PICK j \in Int : j = m + p
        OBVIOUS
      <3>7. j = FirstMonth(r) + i * r.interval
        BY <2>2, <2>4, <3>5, <3>6
      <3>8. MonthOf(DayAt(r, i)) = j
        BY <1>2, <3>7, DueIsRun
      <3>9. e = i * k
        BY <2>5, <3>3, <3>4, <3>5, <3>6, <3>8
      <3>10. (i * k) % k = 0 /\ i * k >= 0
        BY <3>5, Multiples
      <3>11. RunOn(r, DayAt(r, i)) = MonthlyDueAt(r, month)
        BY <2>8, <3>9
      <3>12. t >= MonthlyDueAt(r, month)
        BY <2>8, <3>1, <3>3, <3>9, <3>11
      <3>13. QED
        BY <3>9, <3>10, <3>12
    <2>11. QED
      BY <2>6, <2>9, <2>10
  <1>3. QED
    BY <1>1, <1>2

\* The invariant: what was computed is what the code computes at the instant it was asked
\* for, which is not before the start.
THEOREM ScheduleInvariance == ScheduleSpec => []ScheduleInv
  <1>1. InitSchedule => ScheduleInv
    <2>1. SUFFICES ASSUME InitSchedule
                   PROVE  ScheduleInv
      OBVIOUS
    <2>2. schedule \in Schedules /\ asked = schedule.start /\ nextRun = schedule.start
      BY <2>1 DEF InitSchedule
    <2>3. schedule.start \in Int
      BY <2>2, ScheduleShape
    <2>4. nextRun = NextRunOnOrAfter(schedule, asked)
      BY <2>2, <2>3 DEF NextRunOnOrAfter
    <2>5. QED
      BY <2>2, <2>3, <2>4 DEF ScheduleInv
  <1>2. ScheduleInv /\ [NextSchedule]_scheduleVars => ScheduleInv'
    <2>1. SUFFICES ASSUME ScheduleInv, [NextSchedule]_scheduleVars
                   PROVE  ScheduleInv'
      OBVIOUS
    <2>2. CASE NextSchedule
      <3>1. PICK t \in Moments : Look(t)
        BY <2>2 DEF NextSchedule
      <3>2. t \in Int
        BY ScheduleAssumption DEF ScheduleAssumption
      <3>3. schedule' \in Schedules /\ schedule' = schedule /\ asked' = t /\ t > asked
        BY <2>1, <3>1 DEF ScheduleInv, Look
      <3>4. schedule.start \in Int /\ asked \in Int /\ asked >= schedule.start
        BY <2>1, ScheduleShape DEF ScheduleInv
      <3>5. asked' \in Int /\ asked' >= schedule'.start
        BY <3>2, <3>3, <3>4
      <3>6. nextRun' = NextRunOnOrAfter(schedule', asked')
        BY <3>1, <3>3 DEF Look
      <3>7. wasDue' <=> MonthlyDue(schedule', asked')
        BY <3>1, <3>3 DEF Look
      <3>8. QED
        BY <3>3, <3>5, <3>6, <3>7 DEF ScheduleInv
    <2>3. CASE UNCHANGED scheduleVars
      BY <2>1, <2>3 DEF ScheduleInv, scheduleVars
    <2>4. QED
      BY <2>1, <2>2, <2>3
  <1>3. QED
    BY <1>1, <1>2, PTL DEF ScheduleSpec

\* A rule that is resumed or edited next runs on a day its schedule names, at the time of
\* day of its start, and at the first of its runs later than now unless the clock was just
\* changed (calculate_next_run_on_or_after), whatever the start, the interval and the zone.
THEOREM NextRunsAreNext == ScheduleSpec => []NextRunIsNext
  <1>1. ScheduleInv => NextRunIsNext
    <2>1. SUFFICES ASSUME ScheduleInv
                   PROVE  NextRunIsNext
      OBVIOUS
    <2>2. PICK r \in Schedules, t \in Int : r = schedule /\ t = asked
      BY <2>1 DEF ScheduleInv
    <2>3. PICK next : next = nextRun
      OBVIOUS
    <2>4. t >= r.start /\ next = NextRunOnOrAfter(r, t)
      BY <2>1, <2>2, <2>3 DEF ScheduleInv
    <2>5. NextOf(r, t, next)
      BY <2>4, NextFound
    <2>6. QED
      BY <2>2, <2>3, <2>5 DEF NextOf, NextRunIsNext
  <1>2. QED
    BY <1>1, ScheduleInvariance, PTL

\* A monthly rule is due, to the reminders, from its run in a month to the month's end, and
\* in no other month (is_monthly_recurring_due against the schedule's own runs).
THEOREM RemindersFollowRuns == ScheduleSpec => []RemindersMatchRuns
  <1>1. ScheduleInv => RemindersMatchRuns
    <2>1. SUFFICES ASSUME ScheduleInv, asked > schedule.start
                   PROVE  wasDue <=> DueAt(schedule, asked)
      BY DEF RemindersMatchRuns, DueAt
    <2>2. PICK r \in Schedules, t \in Int : r = schedule /\ t = asked
      BY <2>1 DEF ScheduleInv
    <2>3. wasDue <=> MonthlyDue(r, t)
      BY <2>1, <2>2 DEF ScheduleInv
    <2>4. MonthlyDue(r, t) <=> DueAt(r, t)
      BY DueFound
    <2>5. QED
      BY <2>2, <2>3, <2>4
  <1>2. QED
    BY <1>1, ScheduleInvariance, PTL
=============================================================================
