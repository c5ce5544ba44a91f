--------------------------- MODULE AccountsProofs ---------------------------
(***************************************************************************)
(* What holds of accounts for any number of them and any requests: what is *)
(* archived is unused, the constraints of the table refuse nothing if      *)
(* handlers do not overlap, and a handler that ran alone leaves accounts   *)
(* and base currency in order. The invariant IInv says where a handler is, *)
(* what it has locked, and that what one that has met no other has read    *)
(* still stands. A step changes one handler; Others says that the rest of  *)
(* them keep what they have, and each lemma after it deals with that one.  *)
(*                                                                         *)
(* The last part adds what a handler has decided of the accounts it found  *)
(* (Decided), which LeavesOrder needs at its commit. Only its own steps    *)
(* matter there, because it has met no other.                              *)
(***************************************************************************)
EXTENDS Accounts, TLAPS

\* The parts of the assumption that the proofs use.
LEMMA Given ==
  /\ None \notin Requests /\ None \notin Accounts /\ None \notin Currencies
  /\ None \notin Rows /\ None \notin CommandSet
  /\ \A r \in Requests : Ask[r] \subseteq CommandSet
  /\ \A c \in Ask[Lister] : c.op = "list"
  /\ \A s \in Start : /\ s.account \in [Accounts -> Rows \cup {None}] /\ s.base \in Currencies
                     /\ Accepted(s.account)
  <1>1. ASSUME NEW s \in Start
        PROVE  /\ s.account \in [Accounts -> Rows \cup {None}] /\ s.base \in Currencies
               /\ Accepted(s.account)
    BY <1>1, AccountsAssumption DEF AccountsAssumption, Accepted
  <1>2. QED
    BY <1>1, AccountsAssumption DEF AccountsAssumption

\* A command names what its operation needs.
LEMMA Commands ==
  ASSUME NEW c \in CommandSet
  PROVE  /\ c.op \in {"create", "update", "disable", "archive", "set_default", "use", "patch",
                      "list"}
         /\ c.op # "patch" => c.account \in Accounts
         /\ c.op \in {"create", "update", "patch"} => c.currency \in Currencies
  BY DEF CommandSet

\* The invariant holds to begin with.
LEMMA InitInv == Init => IInv
  <1> SUFFICES ASSUME Init PROVE IInv
    OBVIOUS
  <1>1. Running = {}
    BY DEF Init, Running
  <1>2. TypeOK
    BY Given DEF Init, TypeOK
  <1>3. \A r \in Requests : OnPath(r)
    BY DEF Init, OnPath
  <1>4. \A r \in Requests : HasRow(r) /\ Lone(r)
    BY <1>1 DEF HasRow, Lone
  <1>5. Accepted(account)
    BY Given DEF Init
  <1>6. Together /\ UseChecked /\ ArchiveChecked
    BY <1>1 DEF Together, UseChecked, ArchiveChecked
  <1>7. LocksHeld
    BY <1>1 DEF Init, LocksHeld
  <1>8. (\A a \in refs : account[a] # None) /\ ArchivedIsUnused /\ ErrorsAreRaces
    BY DEF Init, ArchivedIsUnused, ErrorsAreRaces
  <1>9. QED
    BY <1>2, <1>3, <1>4, <1>5, <1>6, <1>7, <1>8 DEF IInv

\* Where a running handler may be.
LEMMA Places ==
  ASSUME IInv, NEW r \in Running
  PROVE  /\ r \in Requests /\ cmd[r] \in CommandSet /\ pc[r] \in Path[cmd[r].op]
         /\ r = Lister => cmd[r].op = "list"
         /\ reply[r] = "none"
  BY Commands DEF IInv, TypeOK, OnPath, Running, Path

\* A step of one handler leaves the others as they are; those that run have met it.
LEMMA Others ==
  ASSUME IInv, NEW r \in Running, UNCHANGED <<cmd, met>>, pc'[r] # "new",
         Rowed \subseteq Rowed',
         \A q \in Requests \ {r} : /\ pc'[q] = pc[q] /\ row'[q] = row[q] /\ found'[q] = found[q]
  PROVE  /\ Running' \subseteq Running /\ Running \subseteq Running' \cup {r}
         /\ \A q \in Running \ {r} : met[q] /\ met[r]
         /\ Together'
         /\ \A q \in Requests \ {r} : OnPath(q)' /\ HasRow(q)' /\ Lone(q)'
  <1>1. Running' \subseteq Running /\ Running \subseteq Running' \cup {r}
    BY DEF Running
  <1>2. \A q \in Running \ {r} : met[q] /\ met[r]
    BY DEF IInv, Together
  <1>3. Together'
    BY <1>1 DEF IInv, Together
  <1>4. ASSUME NEW q \in Requests \ {r} PROVE OnPath(q)' /\ HasRow(q)' /\ Lone(q)'
    <2>1. OnPath(q)'
      BY DEF IInv, OnPath
    <2>2. HasRow(q)'
      <3>1. HasRow(q) /\ cmd[q] \in CommandSet \cup {None}
        BY DEF IInv, TypeOK
      <3>2. q \in Running' => q \in Running /\ cmd[q] \in CommandSet
        BY <1>1, Places
      <3>3. QED
        BY <3>1, <3>2, Commands DEF HasRow, Rowed
    <2>3. Lone(q)'
      BY <1>1, <1>2 DEF Lone
    <2>4. QED
      BY <2>1, <2>2, <2>3
  <1>5. QED
    BY <1>1, <1>2, <1>3, <1>4

\* A step that reads: no table changes, and its handler is as the invariant wants it.
LEMMA ReadInv ==
  ASSUME IInv, NEW r \in Running, UNCHANGED <<account, refs, cmd, met, reply>>, pc'[r] # "new",
         \A q \in Requests \ {r} : /\ pc'[q] = pc[q] /\ row'[q] = row[q] /\ found'[q] = found[q],
         TypeOK', OnPath(r)', HasRow(r)', Lone(r)', LocksHeld',
         cmd[r].op = "use" /\ pc'[r] = "commit" => ~ account[cmd[r].account].archived,
         cmd[r].op = "archive" /\ pc[r] \in {"load", "referenced"} =>
           pc'[r] \in {"load", "referenced"} \/ cmd[r].account \notin refs
  PROVE  IInv'
  <1>1. /\ Running' \subseteq Running /\ Together'
        /\ \A q \in Requests \ {r} : OnPath(q)' /\ HasRow(q)' /\ Lone(q)'
    BY Others DEF Rowed
  <1>2. Accepted(account)' /\ (\A a \in refs' : account'[a] # None)
    BY DEF IInv, Accepted
  <1>3. UseChecked'
    BY <1>1 DEF IInv, UseChecked, Met, Running
  <1>4. ArchiveChecked'
    BY <1>1 DEF IInv, ArchiveChecked, Met, Running
  <1>5. ArchivedIsUnused' /\ ErrorsAreRaces'
    BY DEF IInv, ArchivedIsUnused, ErrorsAreRaces, Met
  <1>6. QED
    BY <1>1, <1>2, <1>3, <1>4, <1>5 DEF IInv

\* Whoever is over has released its locks.
LEMMA AnswerReleases ==
  ASSUME IInv, NEW r \in Running, UNCHANGED cmd,
         NEW answer \in {"ok", "refused", "error", "aborted"}, Answer(r, answer)
  PROVE  /\ pc' = [pc EXCEPT ![r] = "done"] /\ reply' = [reply EXCEPT ![r] = answer]
         /\ lock' \in [Accounts -> Requests \cup {None}]
         /\ \A q \in Requests : reply'[q] = "none" <=> pc'[q] # "done"
         /\ OnPath(r)' /\ r \notin Running' /\ LocksHeld'
  <1>1. pc' = [pc EXCEPT ![r] = "done"] /\ reply' = [reply EXCEPT ![r] = answer]
    BY DEF Answer
  <1>2. r \in Requests
    BY DEF Running
  <1>3. lock' \in [Accounts -> Requests \cup {None}]
    BY DEF IInv, TypeOK, Answer
  <1>4. \A q \in Requests : reply'[q] = "none" <=> pc'[q] # "done"
    BY <1>1 DEF IInv, TypeOK
  <1>5. OnPath(r)'
    BY <1>1, <1>2 DEF IInv, TypeOK, OnPath, Running
  <1>6. Running' = Running \ {r}
    BY <1>1, <1>2 DEF IInv, TypeOK, Running
  <1>7. LocksHeld'
    <2>1. \A a \in Accounts : lock'[a] = IF lock[a] = r THEN None ELSE lock[a]
      BY DEF Answer
    <2>2. \A q \in Running' : q # r /\ q \in Running /\ pc'[q] = pc[q]
      BY <1>1, <1>2, <1>6 DEF IInv, TypeOK, Running
    <2>3. \A q \in Running : cmd[q].op \in {"disable", "archive"} => cmd[q].account \in Accounts
      BY Places, Commands
    <2>4. QED
      BY <1>6, <2>1, <2>2, <2>3 DEF IInv, LocksHeld
  <1>8. QED
    BY <1>1, <1>3, <1>4, <1>5, <1>6, <1>7

\* A handler ends without a write to the tables.
LEMMA AnswerInv ==
  ASSUME IInv, NEW r \in Running, UNCHANGED <<account, refs, base, changed, cmd, met, user>>,
         NEW answer \in {"ok", "refused", "error", "aborted"}, Answer(r, answer),
         answer = "error" => met[r],
         row' \in [Requests -> Rows \cup {None}], found' \in [Requests -> SUBSET Accounts],
         currency' \in [Requests -> Currencies \cup {None}],
         \A q \in Requests \ {r} : row'[q] = row[q] /\ found'[q] = found[q]
  PROVE  IInv'
  <1>1. /\ pc' = [pc EXCEPT ![r] = "done"] /\ reply' = [reply EXCEPT ![r] = answer]
        /\ lock' \in [Accounts -> Requests \cup {None}]
        /\ \A q \in Requests : reply'[q] = "none" <=> pc'[q] # "done"
        /\ OnPath(r)' /\ r \notin Running' /\ LocksHeld'
    BY AnswerReleases
  <1>2. pc'[r] = "done" /\ \A q \in Requests \ {r} : pc'[q] = pc[q]
    BY <1>1 DEF IInv, TypeOK, Running
  <1>3. /\ Running' \subseteq Running /\ Together'
        /\ \A q \in Requests \ {r} : OnPath(q)' /\ HasRow(q)' /\ Lone(q)'
    BY <1>2, Others DEF Rowed
  <1>4. HasRow(r)' /\ Lone(r)'
    BY <1>1 DEF HasRow, Lone
  <1>5. TypeOK'
    BY <1>1 DEF IInv, TypeOK
  <1>6. Accepted(account)' /\ (\A a \in refs' : account'[a] # None)
    BY DEF IInv, Accepted
  <1>7. UseChecked' /\ ArchiveChecked'
    BY <1>1, <1>2, <1>3 DEF IInv, UseChecked, ArchiveChecked, Met, Running
  <1>8. ArchivedIsUnused' /\ ErrorsAreRaces'
    BY <1>1 DEF IInv, TypeOK, ArchivedIsUnused, ErrorsAreRaces, Met
  <1>9. QED
    BY <1>1, <1>3, <1>4, <1>5, <1>6, <1>7, <1>8 DEF IInv

\* A request comes in: whoever runs has met it, and it has met them.
LEMMA ArriveInv ==
  ASSUME IInv, NEW r \in Requests, NEW c \in Ask[r], Arrive(r, c)
  PROVE  IInv'
  <1> DEFINE place == CASE c.op = "create" -> "default" [] c.op = "patch" -> "sync"
                        [] c.op = "list" -> "any" [] OTHER -> "load"
  <1>1. c \in CommandSet /\ (r = Lister => c.op = "list")
    BY Given
  <1>2. \/ c.op = "create" /\ place = "default"
        \/ c.op = "patch" /\ place = "sync"
        \/ c.op = "list" /\ place = "any"
        \/ c.op \in {"update", "disable", "archive", "set_default", "use"} /\ place = "load"
    BY <1>1, Commands
  <1>3. pc' = [pc EXCEPT ![r] = place]
    BY DEF Arrive
  <1> HIDE DEF place
  <1>4. TypeOK'
    <2>1. pc' \in [Requests -> {"new", "load", "referenced", "flush", "clear", "any", "default",
                          "promote", "sync", "choose", "commit", "done"}]
      BY <1>1, <1>2, <1>3, Commands DEF IInv, TypeOK, Path
    <2>2. /\ reply' = [reply EXCEPT ![r] = "none"]
          /\ \A q \in Requests : reply'[q] = "none" <=> pc'[q] # "done"
      BY <1>2, <1>3 DEF IInv, TypeOK, Arrive
    <2>3. /\ user' \in [Requests -> [base : Currencies, changed : BOOLEAN] \cup {None}]
          /\ \A q \in Requests :
               cmd'[q] # None => user'[q] \in [base : Currencies, changed : BOOLEAN]
      <3> DEFINE Users == [base : Currencies, changed : BOOLEAN]
                 loaded == [base |-> base, changed |-> changed]
      <3>1. loaded \in Users
        BY DEF IInv, TypeOK
      <3>2. /\ user' = [user EXCEPT ![r] = loaded] /\ cmd' = [cmd EXCEPT ![r] = c]
            /\ user \in [Requests -> Users \cup {None}]
             /\ cmd \in [Requests -> CommandSet \cup {None}]
            /\ \A q \in Requests : cmd[q] # None => user[q] \in Users
        BY DEF IInv, TypeOK, Arrive
      <3> HIDE DEF Users, loaded
      <3>3. /\ user' \in [Requests -> Users \cup {None}]
            /\ \A q \in Requests : cmd'[q] # None => user'[q] \in Users
        BY <3>1, <3>2
      <3>4. QED
        BY <3>3 DEF Users
    <2>4. /\ cmd' \in [Requests -> CommandSet \cup {None}]
          /\ row' \in [Requests -> Rows \cup {None}]
          /\ found' \in [Requests -> SUBSET Accounts]
          /\ currency' \in [Requests -> Currencies \cup {None}]
      BY <1>1 DEF IInv, TypeOK, Arrive
    <2>5. met' \in [Requests -> BOOLEAN]
      BY DEF IInv, TypeOK, Arrive
    <2>6. UNCHANGED <<account, base, changed, refs, lock>>
      BY DEF Arrive
    <2>7. reply' \in [Requests -> {"none", "ok", "refused", "error", "aborted"}]
      BY <2>2 DEF IInv, TypeOK
    <2>8. QED
      BY <2>1, <2>2, <2>3, <2>4, <2>5, <2>6, <2>7 DEF IInv, TypeOK
  <1>5. r \notin Running /\ Running' = Running \cup {r}
    BY <1>2, <1>3 DEF IInv, TypeOK, Arrive, Running
  <1>6. \A q \in Running : met'[q]
    BY <1>5 DEF Arrive, Running
  <1>7. ~ met'[r] => Running = {}
    BY <1>5 DEF Arrive
  <1>8. \A q \in Requests \ {r} : /\ pc'[q] = pc[q] /\ cmd'[q] = cmd[q] /\ row'[q] = row[q]
                                 /\ found'[q] = found[q] /\ (met[q] => met'[q])
    BY DEF IInv, TypeOK, Arrive
  <1>9. cmd'[r] = c /\ pc'[r] = place /\ row'[r] = None /\ found'[r] = {}
        /\ UNCHANGED <<account, refs, lock>>
    BY <1>3 DEF IInv, TypeOK, Arrive
  <1>10. ASSUME NEW q \in Requests PROVE OnPath(q)' /\ HasRow(q)' /\ Lone(q)'
    <2>1. CASE q = r
      <3>1. OnPath(r)'
        BY <1>1, <1>2, <1>9, Given DEF OnPath, Path
      <3>2. HasRow(r)'
        BY <1>2, <1>9 DEF HasRow
      <3>3. Lone(r)'
        BY <1>2, <1>9 DEF Lone
      <3>4. QED
        BY <2>1, <3>1, <3>2, <3>3
    <2>2. CASE q # r
      <3>1. OnPath(q)'
        BY <1>8, <2>2 DEF IInv, OnPath
      <3>2. HasRow(q)'
        BY <1>5, <1>8, <1>9, <2>2 DEF IInv, HasRow, Rowed
      <3>3. Lone(q)'
        BY <1>5, <1>6, <2>2 DEF Lone
      <3>4. QED
        BY <3>1, <3>2, <3>3
    <2>3. QED
      BY <2>1, <2>2
  <1>11. Together'
    BY <1>5, <1>6, <1>7 DEF Together
  <1>12. LocksHeld'
    BY <1>2, <1>5, <1>8, <1>9, Given DEF IInv, LocksHeld, Running
  <1>13. \A op \in {"use", "archive"} : \A a : Met(op, a) => Met(op, a)'
    <2>1. cmd[r] = None \/ cmd[r].op = "list"
      BY DEF IInv, TypeOK, OnPath, Arrive
    <2>2. QED
      BY <1>8, <2>1 DEF Met
  <1>14. UseChecked' /\ ArchiveChecked'
    <2>1. \A q \in Running' : q = r \/ (q \in Running /\ q \in Requests \ {r})
      BY <1>5 DEF Running
    <2>2. UseChecked'
      BY <1>2, <1>6, <1>8, <1>9, <1>13, <2>1 DEF IInv, UseChecked
    <2>3. ArchiveChecked'
      BY <1>2, <1>6, <1>8, <1>9, <1>13, <2>1 DEF IInv, ArchiveChecked
    <2>4. QED
      BY <2>2, <2>3
  <1>15. ArchivedIsUnused'
    BY <1>9, <1>13 DEF IInv, ArchivedIsUnused
  <1>16. ErrorsAreRaces'
    BY <1>8 DEF IInv, TypeOK, ErrorsAreRaces, Arrive
  <1>17. Accepted(account)' /\ (\A a \in refs' : account'[a] # None)
    BY <1>9 DEF IInv, Accepted
  <1>18. QED
    BY <1>4, <1>10, <1>11, <1>12, <1>14, <1>15, <1>16, <1>17 DEF IInv

\* A handler goes on to another place on its way, with what it has read.
LEMMA GoToInv ==
  ASSUME IInv, NEW r \in Running, NEW place \in Path[cmd[r].op], GoTo(r, place),
         UNCHANGED <<account, base, changed, refs, cmd, met, user>>,
         row' \in [Requests -> Rows \cup {None}], found' \in [Requests -> SUBSET Accounts],
         currency' \in [Requests -> Currencies \cup {None}],
         \A q \in Requests \ {r} : row'[q] = row[q] /\ found'[q] = found[q],
         pc'[r] = place => HasRow(r)' /\ Lone(r)',
         cmd[r].op \in {"disable", "archive"} /\ place \in {"default", "promote", "sync"} =>
           lock[cmd[r].account] = r,
         cmd[r].op = "use" /\ place = "commit" => ~ account[cmd[r].account].archived,
         cmd[r].op = "archive" /\ pc[r] \in {"load", "referenced"} =>
           place \in {"load", "referenced"} \/ cmd[r].account \notin refs
  PROVE  IInv'
  <1>1. r \in Requests /\ cmd[r] \in CommandSet /\ reply[r] = "none" /\ pc[r] # "new"
    BY Places DEF Running
  <1>2. place \in {"load", "referenced", "flush", "clear", "any", "default", "promote", "sync",
                   "choose", "commit"}
    BY <1>1, Commands DEF Path
  <1>3. pc' = [pc EXCEPT ![r] = place] /\ UNCHANGED <<reply, lock>>
    BY DEF GoTo
  <1>4. pc'[r] = place /\ \A q \in Requests \ {r} : pc'[q] = pc[q]
    BY <1>1, <1>3 DEF IInv, TypeOK
  <1>5. TypeOK'
    <2>1. pc' \in [Requests -> {"new", "load", "referenced", "flush", "clear", "any", "default",
                                "promote", "sync", "choose", "commit", "done"}]
      BY <1>2, <1>3 DEF IInv, TypeOK
    <2>2. \A q \in Requests : reply'[q] = "none" <=> pc'[q] # "done"
      BY <1>1, <1>2, <1>3, <1>4 DEF IInv, TypeOK
    <2>3. QED
      BY <1>3, <2>1, <2>2 DEF IInv, TypeOK
  <1>6. OnPath(r)'
    BY <1>1, <1>2, <1>4, Given DEF IInv, OnPath
  <1>7. Running' = Running
    BY <1>1, <1>2, <1>4 DEF Running
  <1>8. LocksHeld'
    <2>1. \A a \in Accounts : lock'[a] # None =>
            /\ lock'[a] \in Running'
            /\ cmd'[lock'[a]].op \in {"disable", "archive"} /\ cmd'[lock'[a]].account = a
      BY <1>3, <1>7 DEF IInv, LocksHeld
    <2>2. ASSUME NEW q \in Running', cmd'[q].op \in {"disable", "archive"},
                 pc'[q] \in {"default", "promote", "sync"}
          PROVE  lock'[cmd'[q].account] = q
      BY <1>3, <1>4, <1>7, <2>2 DEF IInv, LocksHeld, Running
    <2>3. QED
      BY <2>1, <2>2 DEF LocksHeld
  <1>9. QED
    BY <1>2, <1>3, <1>4, <1>5, <1>6, <1>8, ReadInv

\* A handler keeps the row and the accounts it has: the rest of what it knows may change.
LEMMA SameRead ==
  ASSUME IInv, UNCHANGED <<row, found>>
  PROVE  /\ row' \in [Requests -> Rows \cup {None}] /\ found' \in [Requests -> SUBSET Accounts]
         /\ \A q \in Requests : row'[q] = row[q] /\ found'[q] = found[q]
  BY DEF IInv, TypeOK

\* An account is loaded.
LEMMA LoadInv ==
  ASSUME IInv, NEW r \in Requests, Load(r)
  PROVE  IInv'
  <1> DEFINE op == cmd[r].op
             own == cmd[r].account
             loaded == account[own]
  <1>1. r \in Running /\ pc[r] = "load" /\ cmd[r] \in CommandSet
        /\ op \in {"update", "disable", "archive", "set_default", "use"} /\ own \in Accounts
    <2>1. r \in Running /\ pc[r] = "load"
      BY DEF Load, Running
    <2>2. QED
      BY <2>1, Places, Commands DEF Path
  <1>2. /\ UNCHANGED <<account, base, changed, refs, met, cmd, user, found, currency>>
        /\ row' = [row EXCEPT ![r] = loaded]
    BY DEF Load
  <1>3. /\ row' \in [Requests -> Rows \cup {None}] /\ found' \in [Requests -> SUBSET Accounts]
        /\ currency' \in [Requests -> Currencies \cup {None}]
        /\ \A q \in Requests \ {r} : row'[q] = row[q] /\ found'[q] = found[q]
        /\ row'[r] = loaded
    BY <1>1, <1>2 DEF IInv, TypeOK
  <1>4. \/ Answer(r, "ok") \/ Answer(r, "refused")
        \/ /\ loaded # None
           /\ \/ op = "archive" /\ GoTo(r, "referenced")
              \/ op = "update" /\ GoTo(r, "commit")
              \/ op = "disable" /\ (GoTo(r, "flush") \/ GoTo(r, "commit"))
              \/ op = "set_default" /\ GoTo(r, "clear") /\ ~ loaded.archived /\ ~ loaded.disabled
              \/ op = "use" /\ GoTo(r, "commit") /\ ~ loaded.archived
    BY <1>1 DEF Load
  <1>5. CASE Answer(r, "ok") \/ Answer(r, "refused")
    BY <1>1, <1>2, <1>3, <1>5, AnswerInv
  <1>6. ASSUME NEW place \in Path[op], GoTo(r, place), loaded # None,
               \/ op = "archive" /\ place = "referenced"
               \/ op = "update" /\ place = "commit"
               \/ op = "disable" /\ place \in {"flush", "commit"}
               \/ op = "set_default" /\ place = "clear" /\ ~ loaded.archived /\ ~ loaded.disabled
               \/ op = "use" /\ place = "commit" /\ ~ loaded.archived
        PROVE  IInv'
    <2>1. HasRow(r)
      BY DEF IInv
    <2>2. HasRow(r)'
      BY <1>1, <1>2, <1>3, <1>6, <2>1 DEF HasRow, Rowed
    <2>3. Lone(r)
      BY DEF IInv
    <2>4. pc'[r] = place => Lone(r)'
      <3>1. op = "set_default" => own \in Active
        BY <1>1, <1>6 DEF Active, Rowed
      <3>2. QED
        BY <1>1, <1>2, <1>3, <1>6, <2>3, <3>1 DEF Lone, Default, Active, Rowed
    <2>5. QED
      BY <1>1, <1>2, <1>3, <1>6, <2>2, <2>4, GoToInv
  <1>7. QED
    BY <1>1, <1>4, <1>5, <1>6 DEF Path

\* An archiving finds its account unused, or is refused.
LEMMA CheckReferencesInv ==
  ASSUME IInv, NEW r \in Requests, CheckReferences(r)
  PROVE  IInv'
  <1>1. r \in Running /\ pc[r] = "referenced" /\ cmd[r].op = "archive"
    <2>1. r \in Running /\ pc[r] = "referenced"
      BY DEF CheckReferences, Running
    <2>2. QED
      BY <2>1, Places, Commands DEF Path
  <1>2. UNCHANGED <<account, base, changed, refs, met, cmd, user, row, found, currency>>
    BY DEF CheckReferences, requestVars
  <1>3. /\ row' \in [Requests -> Rows \cup {None}] /\ found' \in [Requests -> SUBSET Accounts]
        /\ currency' \in [Requests -> Currencies \cup {None}]
        /\ \A q \in Requests : row'[q] = row[q] /\ found'[q] = found[q]
    BY <1>2 DEF IInv, TypeOK
  <1>4. \/ Answer(r, "ok") \/ Answer(r, "refused")
        \/ cmd[r].account \notin refs /\ (GoTo(r, "flush") \/ GoTo(r, "commit"))
    BY DEF CheckReferences
  <1>5. CASE Answer(r, "ok") \/ Answer(r, "refused")
    BY <1>1, <1>2, <1>3, <1>5, AnswerInv
  <1>6. ASSUME NEW place \in {"flush", "commit"}, GoTo(r, place), cmd[r].account \notin refs
        PROVE  IInv'
    <2>1. place \in Path[cmd[r].op]
      BY <1>1 DEF Path
    <2>2. HasRow(r) /\ Lone(r)
      BY DEF IInv
    <2>3. HasRow(r)'
      BY <1>1, <1>2, <2>2 DEF HasRow, Rowed
    <2>4. pc'[r] = place => Lone(r)'
      BY <1>1, <1>2, <2>2 DEF Lone, Default, Active, Rowed
    <2>5. QED
      BY <1>1, <1>2, <1>3, <1>6, <2>1, <2>3, <2>4, GoToInv
  <1>7. QED
    BY <1>4, <1>5, <1>6

\* A handler locks the row it flushes.
LEMMA FlushInv ==
  ASSUME IInv, NEW r \in Requests, Flush(r)
  PROVE  IInv'
  <1> DEFINE own == cmd[r].account
  <1>1. /\ r \in Running /\ pc[r] = "flush" /\ cmd[r].op \in {"disable", "archive"}
        /\ own \in Accounts /\ reply[r] = "none" /\ cmd[r] # None
    <2>1. r \in Running /\ pc[r] = "flush"
      BY DEF Flush, Running
    <2>2. QED
      BY <2>1, Places, Commands, Given DEF Path
  <1>2. /\ UNCHANGED <<account, base, changed, refs, reply, met, cmd, user, row, found, currency>>
        /\ pc' = [pc EXCEPT ![r] = "default"] /\ lock' = [lock EXCEPT ![own] = r]
        /\ lock[own] = None
    BY DEF Flush, requestVars
  <1>3. pc'[r] = "default" /\ \A q \in Requests \ {r} : pc'[q] = pc[q]
    BY <1>2 DEF IInv, TypeOK
  <1>4. Running' = Running
    BY <1>1, <1>3 DEF Running
  <1>5. TypeOK'
    <2>1. \A q \in Requests : reply'[q] = "none" <=> pc'[q] # "done"
      BY <1>1, <1>2, <1>3 DEF IInv, TypeOK
    <2>2. QED
      BY <1>1, <1>2, <2>1 DEF IInv, TypeOK
  <1>6. HasRow(r) /\ Lone(r) /\ OnPath(r)
    BY DEF IInv
  <1>7. OnPath(r)'
    BY <1>1, <1>2, <1>3, <1>6 DEF OnPath, Path
  <1>8. HasRow(r)'
    BY <1>1, <1>2, <1>3, <1>4, <1>6 DEF HasRow, Rowed
  <1>9. Lone(r)'
    BY <1>1, <1>2, <1>3, <1>4, <1>6 DEF Lone, Default, Active, Rowed
  <1>10. LocksHeld'
    <2>1. \A a \in Accounts : lock'[a] = IF a = own THEN r ELSE lock[a]
      BY <1>2 DEF IInv, TypeOK
    <2>2. \A a \in Accounts : lock'[a] # None =>
            /\ lock'[a] \in Running
            /\ cmd[lock'[a]].op \in {"disable", "archive"} /\ cmd[lock'[a]].account = a
      BY <1>1, <2>1 DEF IInv, LocksHeld
    <2>3. ASSUME NEW q \in Running, cmd[q].op \in {"disable", "archive"},
                 pc'[q] \in {"default", "promote", "sync"}
          PROVE  lock'[cmd[q].account] = q
      <3>1. CASE q = r
        BY <1>1, <2>1, <3>1
      <3>2. CASE q # r
        <4>1. q \in Requests /\ cmd[q].account \in Accounts
          BY <2>3, Places, Commands
        <4>2. lock[cmd[q].account] = q
          BY <1>3, <2>3, <3>2, <4>1 DEF IInv, LocksHeld
        <4>3. QED
          BY <1>2, <2>1, <4>1, <4>2, Given
      <3>3. QED
        BY <3>1, <3>2
    <2>4. QED
      BY <1>2, <1>4, <2>2, <2>3 DEF LocksHeld
  <1>11. QED
    BY <1>1, <1>2, <1>3, <1>5, <1>7, <1>8, <1>9, <1>10, ReadInv

\* A handler that sets the default has found those it unsets.
LEMMA ClearDefaultsInv ==
  ASSUME IInv, NEW r \in Requests, ClearDefaults(r)
  PROVE  IInv'
  <1>1. r \in Running /\ pc[r] = "clear" /\ cmd[r].op = "set_default"
    <2>1. r \in Running /\ pc[r] = "clear"
      BY DEF ClearDefaults, Running
    <2>2. QED
      BY <2>1, Places, Commands DEF Path
  <1>2. HasRow(r) /\ Lone(r)
    BY DEF IInv
  <1>3. /\ UNCHANGED <<account, base, changed, refs, met, cmd, user, row>> /\ GoTo(r, "commit")
        /\ found' = [found EXCEPT ![r] = {a \in Rowed : account[a].default}]
        /\ currency' = [currency EXCEPT ![r] = row[r].currency]
    BY DEF ClearDefaults
  <1>4. row[r] \in Rows
    BY <1>1, <1>2 DEF IInv, TypeOK, HasRow
  <1>5. /\ row' \in [Requests -> Rows \cup {None}] /\ found' \in [Requests -> SUBSET Accounts]
        /\ currency' \in [Requests -> Currencies \cup {None}]
        /\ \A q \in Requests \ {r} : row'[q] = row[q] /\ found'[q] = found[q]
        /\ found'[r] = {a \in Rowed : account[a].default}
    BY <1>3, <1>4 DEF IInv, TypeOK, Rowed, Rows
  <1>6. HasRow(r)'
    BY <1>1, <1>2, <1>3, <1>5 DEF HasRow, Rowed
  <1>7. pc'[r] = "commit" => Lone(r)'
    BY <1>1, <1>2, <1>3, <1>5 DEF Lone, Default, Active, Rowed
  <1>8. "commit" \in Path[cmd[r].op]
    BY <1>1 DEF Path
  <1>9. QED
    BY <1>1, <1>3, <1>5, <1>6, <1>7, <1>8, GoToInv

\* What a handler does not find among the defaults is the row it has flushed.
LEMMA Unlocked ==
  ASSUME IInv, NEW r \in Running, {a \in Default : lock[a] # r} = {}
  PROVE  /\ cmd[r].op \notin {"disable", "archive"} => Default = {}
         /\ Default \subseteq {cmd[r].account}
  <1>1. \A a \in Default : lock[a] = r /\ a \in Accounts
    BY DEF Default, Active, Rowed
  <1>2. r # None
    BY Given DEF Running
  <1>3. QED
    BY <1>1, <1>2 DEF IInv, LocksHeld

\* A listing looks for any account.
LEMMA LookForAnyInv ==
  ASSUME IInv, NEW r \in Requests, LookForAny(r)
  PROVE  IInv'
  <1> DEFINE new == [currency |-> user[r].base, disabled |-> FALSE, archived |-> FALSE,
                     default |-> TRUE]
  <1>1. r \in Running /\ pc[r] = "any" /\ cmd[r].op = "list"
    <2>1. r \in Running /\ pc[r] = "any"
      BY DEF LookForAny, Running
    <2>2. QED
      BY <2>1, Places, Commands DEF Path
  <1>2. HasRow(r) /\ Lone(r)
    BY DEF IInv
  <1>3. /\ UNCHANGED <<account, base, changed, refs, met, cmd, user, found, currency>>
        /\ row' = [row EXCEPT ![r] = IF Rowed = {} THEN new ELSE None]
        /\ GoTo(r, IF Rowed = {} THEN "commit" ELSE "default")
    BY DEF LookForAny
  <1>4. new \in Rows
    <2>1. user[r] \in [base : Currencies, changed : BOOLEAN]
      BY <1>1, Places, Given DEF IInv, TypeOK
    <2>2. QED
      BY <2>1 DEF Rows
  <1>5. /\ row' \in [Requests -> Rows \cup {None}] /\ found' \in [Requests -> SUBSET Accounts]
        /\ currency' \in [Requests -> Currencies \cup {None}]
        /\ \A q \in Requests \ {r} : row'[q] = row[q] /\ found'[q] = found[q]
        /\ row'[r] = IF Rowed = {} THEN new ELSE None
    BY <1>3, <1>4 DEF IInv, TypeOK
  <1>6. HasRow(r)'
    BY <1>1, <1>2, <1>3, <1>5 DEF HasRow, Rowed
  <1>7. ASSUME NEW place \in {"commit", "default"}, place = "default" \/ Rowed = {}, GoTo(r, place)
        PROVE  IInv'
    <2>1. pc'[r] = place => Lone(r)'
      BY <1>1, <1>2, <1>3, <1>5, <1>7 DEF Lone, Default, Active, Rowed
    <2>2. place \in Path[cmd[r].op]
      BY <1>1 DEF Path
    <2>3. QED
      BY <1>1, <1>3, <1>5, <1>6, <1>7, <2>1, <2>2, GoToInv
  <1>8. QED
    BY <1>3, <1>7

\* A handler looks for a default, to make its own account one or to hand over.
LEMMA LookForDefaultInv ==
  ASSUME IInv, NEW r \in Requests, LookForDefault(r)
  PROVE  IInv'
  <1> DEFINE op == cmd[r].op
             none == {a \in Default : lock[a] # r} = {}
             new == [currency |-> cmd[r].currency, disabled |-> FALSE, archived |-> FALSE,
                     default |-> none]
  <1>1. /\ r \in Running /\ pc[r] = "default" /\ op \in {"create", "list", "disable", "archive"}
        /\ op = "create" => cmd[r].currency \in Currencies
    <2>1. r \in Running /\ pc[r] = "default"
      BY DEF LookForDefault, Running
    <2>2. QED
      BY <2>1, Places, Commands DEF Path
  <1>2. HasRow(r) /\ Lone(r)
    BY DEF IInv
  <1>3. UNCHANGED <<account, base, changed, refs, met, cmd, user, found>>
    BY DEF LookForDefault
  <1>4. none => Default \subseteq {cmd[r].account} /\ (op \in {"create", "list"} => Default = {})
    BY <1>1, Unlocked
  <1>5. CASE op = "create"
    <2>1. /\ row' = [row EXCEPT ![r] = new] /\ GoTo(r, "commit")
          /\ \E c \in Currencies \cup {None} : currency' = [currency EXCEPT ![r] = c]
      BY <1>1, <1>5 DEF LookForDefault
    <2>2. new \in Rows
      BY <1>1, <1>5 DEF Rows
    <2>3. /\ row' \in [Requests -> Rows \cup {None}] /\ found' \in [Requests -> SUBSET Accounts]
          /\ currency' \in [Requests -> Currencies \cup {None}]
          /\ \A q \in Requests \ {r} : row'[q] = row[q] /\ found'[q] = found[q]
          /\ row'[r] = new
      BY <1>3, <2>1, <2>2 DEF IInv, TypeOK
    <2>4. ~ new.archived /\ ~ new.disabled /\ new # None /\ (new.default => none)
      BY <2>2, Given
    <2> HIDE DEF new, none
    <2>5. HasRow(r)'
      BY <1>1, <1>2, <1>3, <1>5, <2>3, <2>4 DEF HasRow, Rowed
    <2>6. pc'[r] = "commit" => Lone(r)'
      BY <1>1, <1>2, <1>3, <1>4, <1>5, <2>3, <2>4 DEF Lone, Default, Active, Rowed
    <2>7. "commit" \in Path[op]
      BY <1>5 DEF Path
    <2>8. QED
      BY <1>1, <1>3, <1>5, <2>1, <2>3, <2>5, <2>6, <2>7, GoToInv
  <1>6. CASE op # "create"
    <2>1. UNCHANGED <<row, currency>> /\ GoTo(r, IF none THEN "promote" ELSE "sync")
      BY <1>6 DEF LookForDefault
    <2>2. /\ row' \in [Requests -> Rows \cup {None}] /\ found' \in [Requests -> SUBSET Accounts]
          /\ currency' \in [Requests -> Currencies \cup {None}]
          /\ \A q \in Requests : row'[q] = row[q] /\ found'[q] = found[q]
      BY <1>3, <2>1 DEF IInv, TypeOK
    <2>3. HasRow(r)'
      BY <1>1, <1>2, <1>3, <1>6, <2>2 DEF HasRow, Rowed
    <2>4. ASSUME NEW place \in {"promote", "sync"}, place = "promote" => none, GoTo(r, place)
          PROVE  IInv'
      <3>1. pc'[r] = place => Lone(r)'
        BY <1>1, <1>2, <1>3, <1>4, <1>6, <2>2, <2>4 DEF Lone, Default, Active, Rowed
      <3>2. place \in Path[op]
        BY <1>1, <1>6 DEF Path
      <3>3. op \in {"disable", "archive"} => lock[cmd[r].account] = r
        BY <1>1 DEF IInv, LocksHeld
      <3>4. QED
        BY <1>1, <1>3, <2>1, <2>2, <2>3, <2>4, <3>1, <3>2, <3>3, GoToInv
    <2>5. QED
      BY <2>1, <2>4
  <1>7. QED
    BY <1>5, <1>6

\* Another active account, if there is one, is found to take over.
LEMMA PromoteInv ==
  ASSUME IInv, NEW r \in Requests, Promote(r)
  PROVE  IInv'
  <1> DEFINE op == cmd[r].op
             own == cmd[r].account
  <1>1. r \in Running /\ pc[r] = "promote" /\ op \in {"list", "disable", "archive"}
    <2>1. r \in Running /\ pc[r] = "promote"
      BY DEF Promote, Running
    <2>2. QED
      BY <2>1, Places, Commands DEF Path
  <1>2. HasRow(r) /\ Lone(r)
    BY DEF IInv
  <1>3. UNCHANGED <<account, base, changed, refs, met, cmd, user, row, currency>> /\ GoTo(r, "sync")
    BY DEF Promote
  <1>4. op \in {"disable", "archive"} => lock[own] = r
    BY <1>1 DEF IInv, LocksHeld
  <1>5. \/ found' = found
        \/ \E a \in Active : lock[a] # r /\ found' = [found EXCEPT ![r] = {a} \ Default]
    BY DEF Promote
  <1>6. /\ found'[r] = found[r] \/ \E a \in Active : lock[a] # r /\ found'[r] = {a} \ Default
        /\ \A q \in Requests \ {r} : found'[q] = found[q]
        /\ found' \in [Requests -> SUBSET Accounts]
    BY <1>5 DEF IInv, TypeOK, Active, Rowed
  <1>7. /\ row' \in [Requests -> Rows \cup {None}]
        /\ currency' \in [Requests -> Currencies \cup {None}]
        /\ \A q \in Requests : row'[q] = row[q]
    BY <1>3 DEF IInv, TypeOK
  <1>8. HasRow(r)'
    BY <1>1, <1>2, <1>3, <1>6, <1>7 DEF HasRow, Rowed, Active
  <1>9. pc'[r] = "sync" => Lone(r)'
    <2>1. CASE found'[r] = found[r]
      BY <1>1, <1>2, <1>3, <1>7, <2>1 DEF Lone, Default, Active, Rowed
    <2>2. ASSUME NEW a \in Active, lock[a] # r, found'[r] = {a} \ Default
          PROVE  pc'[r] = "sync" => Lone(r)'
      <3>1. found'[r] # {} => found'[r] = {a}
        BY <2>2
      <3>2. op \in {"disable", "archive"} => a # own
        BY <1>4, <2>2
      <3>3. Rowed # {}
        BY DEF Active
      <3>4. UNCHANGED <<Default, Active, Rowed>>
        BY <1>3 DEF Default, Active, Rowed
      <3>5. QED
        BY <1>1, <1>2, <1>3, <1>7, <2>2, <3>1, <3>2, <3>3, <3>4 DEF Lone
    <2>3. QED
      BY <1>6, <2>1, <2>2
  <1>10. "sync" \in Path[op]
    BY <1>1 DEF Path
  <1>11. QED
    BY <1>1, <1>3, <1>4, <1>6, <1>7, <1>8, <1>9, <1>10, GoToInv

\* The default is looked for again: its currency is what the base currency is to be.
LEMMA SyncInv ==
  ASSUME IInv, NEW r \in Requests, Sync(r)
  PROVE  IInv'
  <1> DEFINE op == cmd[r].op
             follow == {account[a].currency : a \in {b \in Default : lock[b] # r}}
  <1>1. /\ r \in Running /\ pc[r] = "sync" /\ op \in {"patch", "list", "disable", "archive"}
        /\ op = "patch" => cmd[r].currency \in Currencies
    <2>1. r \in Running /\ pc[r] = "sync"
      BY DEF Sync, Running
    <2>2. QED
      BY <2>1, Places, Commands DEF Path
  <1>2. HasRow(r) /\ Lone(r)
    BY DEF IInv
  <1>3. UNCHANGED <<account, base, changed, refs, met, cmd, user, row, found>>
    BY DEF Sync
  <1>4. follow \subseteq Currencies
    BY Given DEF IInv, TypeOK, Default, Active, Rowed, Rows
  <1>5. /\ currency' \in [Requests -> Currencies \cup {None}]
        /\ \/ Answer(r, "ok") \/ Answer(r, "refused")
           \/ GoTo(r, "commit") \/ (op = "patch" /\ GoTo(r, "choose"))
    <2> DEFINE others == {a \in Default : lock[a] # r}
               free == others = {}
               wanted == cmd[r].currency
               new == follow \ {user[r].base}
               next == IF new = {} THEN None ELSE CHOOSE c \in new : TRUE
               still == new = {}
               known == wanted \in follow
    <2>1. IF op = "patch"
          THEN IF IF ~ free THEN ~ known ELSE wanted # user[r].base /\ user[r].changed
               THEN Answer(r, "refused") /\ UNCHANGED currency
               ELSE /\ currency' = [currency EXCEPT ![r] = wanted]
                    /\ GoTo(r, IF free /\ wanted # user[r].base THEN "choose" ELSE "commit")
          ELSE /\ currency' = [currency EXCEPT ![r] = next]
               /\ IF op = "list" /\ found[r] = {} /\ still THEN Answer(r, "ok")
                  ELSE GoTo(r, "commit")
      BY DEF Sync
    <2>2. next \in Currencies \cup {None}
      BY <1>4
    <2>3. currency \in [Requests -> Currencies \cup {None}]
      BY DEF IInv, TypeOK
    <2> HIDE DEF free, next, still, known
    <2>4. currency' \in [Requests -> Currencies \cup {None}]
      BY <1>1, <2>1, <2>2, <2>3
    <2>5. \/ Answer(r, "ok") \/ Answer(r, "refused")
          \/ GoTo(r, "commit") \/ (op = "patch" /\ GoTo(r, "choose"))
      BY <2>1
    <2>6. QED
      BY <2>4, <2>5
  <1>6. /\ row' \in [Requests -> Rows \cup {None}] /\ found' \in [Requests -> SUBSET Accounts]
        /\ currency' \in [Requests -> Currencies \cup {None}]
        /\ \A q \in Requests : row'[q] = row[q] /\ found'[q] = found[q]
    BY <1>3, <1>5 DEF IInv, TypeOK
  <1>7. CASE Answer(r, "ok") \/ Answer(r, "refused")
    BY <1>1, <1>3, <1>6, <1>7, AnswerInv
  <1>8. HasRow(r)'
    BY <1>1, <1>2, <1>3, <1>6 DEF HasRow, Rowed
  <1>9. ASSUME NEW place \in {"commit", "choose"}, place = "choose" => op = "patch", GoTo(r, place)
        PROVE  IInv'
    <2>1. pc'[r] = place => Lone(r)'
      BY <1>1, <1>2, <1>3, <1>6, <1>9 DEF Lone, Default, Active, Rowed
    <2>2. place \in Path[op]
      BY <1>1, <1>9 DEF Path
    <2>3. QED
      BY <1>1, <1>3, <1>6, <1>8, <1>9, <2>1, <2>2, GoToInv
  <1>10. QED
    BY <1>5, <1>7, <1>9

\* A handler is lost.
LEMMA AbortInv ==
  ASSUME IInv, NEW r \in Requests, Abort(r)
  PROVE  IInv'
  <1>1. r \in Running /\ Answer(r, "aborted")
        /\ UNCHANGED <<account, base, changed, refs, met, cmd, user, row, found, currency>>
    BY DEF Abort, Running, requestVars
  <1>2. /\ row' \in [Requests -> Rows \cup {None}] /\ found' \in [Requests -> SUBSET Accounts]
        /\ currency' \in [Requests -> Currencies \cup {None}]
        /\ \A q \in Requests : row'[q] = row[q] /\ found'[q] = found[q]
    BY <1>1 DEF IInv, TypeOK
  <1>3. QED
    BY <1>1, <1>2, AnswerInv

\* A row that names an account is inserted. If the account was archived since it was
\* found active, or is being archived, the two have met.
LEMMA CommitUseInv ==
  ASSUME IInv, NEW r \in Requests, CommitUse(r)
  PROVE  IInv'
  <1> DEFINE own == cmd[r].account
  <1>1. /\ r \in Running /\ pc[r] = "commit" /\ cmd[r].op = "use" /\ own \in Accounts
        /\ cmd[r] # None
    <2>1. r \in Running /\ pc[r] = "commit" /\ cmd[r].op = "use"
      BY DEF CommitUse, Running
    <2>2. QED
      BY <2>1, Places, Commands, Given
  <1>2. /\ UNCHANGED <<account, base, changed, met, cmd, user, row, found, currency>>
        /\ refs' = refs \cup {own} /\ Answer(r, "ok")
    BY DEF CommitUse, requestVars
  <1>3. /\ pc' = [pc EXCEPT ![r] = "done"] /\ reply' = [reply EXCEPT ![r] = "ok"]
        /\ lock' \in [Accounts -> Requests \cup {None}]
        /\ \A q \in Requests : reply'[q] = "none" <=> pc'[q] # "done"
        /\ OnPath(r)' /\ r \notin Running' /\ LocksHeld'
    BY <1>1, <1>2, AnswerReleases
  <1>4. pc'[r] = "done" /\ \A q \in Requests \ {r} : pc'[q] = pc[q]
    BY <1>3 DEF IInv, TypeOK
  <1>5. /\ Running' \subseteq Running /\ Together'
        /\ \A q \in Running \ {r} : met[q] /\ met[r]
        /\ \A q \in Requests \ {r} : OnPath(q)' /\ HasRow(q)' /\ Lone(q)'
    BY <1>1, <1>2, <1>4, Others DEF Rowed
  <1>6. HasRow(r)' /\ Lone(r)'
    BY <1>3 DEF HasRow, Lone
  <1>7. TypeOK'
    BY <1>1, <1>2, <1>3 DEF IInv, TypeOK
  <1>8. Accepted(account)'
    BY <1>2 DEF IInv, Accepted
  <1>9. account[own] # None /\ (account[own].archived => met[r] /\ Met("archive", own))
    BY <1>1 DEF IInv, HasRow, UseChecked
  <1>10. \A a \in refs' : account'[a] # None
    BY <1>2, <1>9 DEF IInv
  <1>11. UseChecked'
    BY <1>2, <1>3, <1>4, <1>5 DEF IInv, UseChecked, Met, Running
  <1>12. met[r] => Met("use", own)
    BY <1>1 DEF Met
  <1>13. ArchiveChecked'
    <2>1. \A q \in Running' : q \in Running \ {r} /\ met[q] /\ met[r] /\ pc'[q] = pc[q]
      BY <1>3, <1>4, <1>5 DEF Running
    <2>2. QED
      BY <1>2, <1>12, <2>1 DEF IInv, ArchiveChecked, Met
  <1>14. ArchivedIsUnused'
    BY <1>2, <1>9, <1>12 DEF IInv, ArchivedIsUnused, Met
  <1>15. ErrorsAreRaces'
    BY <1>2, <1>3 DEF IInv, TypeOK, ErrorsAreRaces
  <1>16. QED
    BY <1>3, <1>5, <1>6, <1>7, <1>8, <1>10, <1>11, <1>13, <1>14, <1>15 DEF IInv

\* The row a handler leaves has a type, stays when it was there, and is archived by an
\* archiving only.
LEMMA WrittenRow ==
  ASSUME IInv, NEW r \in Running, pc[r] = "commit", cmd[r].op \notin {"use", "patch"},
         NEW a \in Accounts
  PROVE  /\ Written(r, a) \in Rows \cup {None}
         /\ account[a] # None =>
              /\ Written(r, a) # None
              /\ Written(r, a).archived =>
                   account[a].archived \/ (cmd[r].op = "archive" /\ a = cmd[r].account)
  <1> DEFINE op == cmd[r].op
             own == cmd[r].account
             now == account[a]
             makes == op \in {"create", "list"}
  <1>1. /\ r \in Requests
        /\ op \in {"create", "update", "disable", "archive", "set_default", "list"}
        /\ op \in {"create", "update"} => cmd[r].currency \in Currencies
    BY Places, Commands
  <1>2. HasRow(r) /\ now \in Rows \cup {None} /\ row[r] \in Rows \cup {None}
    BY <1>1 DEF IInv, TypeOK
  <1>3. None \notin Rows
    BY Given
  <1>4. CASE makes /\ a = own /\ row[r] # None
    <2>1. Written(r, a) = row[r] /\ ~ row[r].archived
      BY <1>2, <1>4 DEF Written, HasRow
    <2>2. QED
      BY <1>2, <1>4, <2>1
  <1>5. CASE ~ makes /\ a = own
    <2>1. row[r] \in Rows /\ now \in Rows
      BY <1>1, <1>2, <1>5 DEF HasRow
    <2>2. Assigned(r) \in Rows /\ (op # "archive" => Assigned(r).archived = row[r].archived)
      BY <1>1, <1>5, <2>1 DEF Assigned, Rows
    <2>3. Written(r, a) = [f \in DOMAIN now |->
            IF Assigned(r)[f] # row[r][f] \/ (f = "default" /\ a \in found[r])
            THEN Assigned(r)[f] ELSE now[f]]
      BY <1>5 DEF Written
    <2>4. Written(r, a) \in Rows
      BY <2>1, <2>2, <2>3 DEF Rows
    <2>5. op # "archive" => Written(r, a).archived = now.archived
      BY <2>1, <2>2, <2>3 DEF Rows
    <2>6. QED
      BY <1>3, <1>5, <2>4, <2>5
  <1>6. CASE ~ (makes /\ a = own /\ row[r] # None) /\ ~ (~ makes /\ a = own) /\ a \in found[r]
    <2>1. now \in Rows
      BY <1>2, <1>6 DEF HasRow, Rowed
    <2>2. Written(r, a) = [now EXCEPT !.default = op # "set_default"]
      BY <1>6 DEF Written
    <2>3. QED
      BY <1>3, <2>1, <2>2 DEF Rows
  <1>7. CASE ~ (makes /\ a = own /\ row[r] # None) /\ ~ (~ makes /\ a = own) /\ a \notin found[r]
    <2>1. Written(r, a) = now
      BY <1>7 DEF Written
    <2>2. QED
      BY <1>2, <2>1
  <1>8. QED
    BY <1>4, <1>5, <1>6, <1>7

\* The constraints accept what a handler leaves that has met no other.
LEMMA LoneAccepted ==
  ASSUME IInv, NEW r \in Running, ~ met[r], pc[r] = "commit", cmd[r].op \notin {"use", "patch"}
  PROVE  Accepted([a \in Accounts |-> Written(r, a)])
  <1> DEFINE op == cmd[r].op
             own == cmd[r].account
             table == [a \in Accounts |-> Written(r, a)]
  <1>1. /\ r \in Requests
        /\ op \in {"create", "update", "disable", "archive", "set_default", "list"}
        /\ own \in Accounts
    BY Places, Commands
  <1>2. HasRow(r) /\ Lone(r)
    BY <1>1 DEF IInv
  <1>3. \A a \in Accounts : table[a] = Written(r, a)
    OBVIOUS
  <1>4. \A a \in Accounts : account[a] # None => account[a] \in Rows
    BY DEF IInv, TypeOK
  <1>5. \A a \in Rowed : account[a].default => a \in Default
    BY DEF IInv, Accepted, Rowed, Active, Default
  <1>6. \A a, b \in Default : a = b
    BY DEF IInv, Accepted, Rowed, Active, Default
  <1>7. row[r] # None => row[r] \in Rows
    BY <1>1 DEF IInv, TypeOK
  <1> HIDE DEF table
  <1> SUFFICES /\ \A a \in Accounts : table[a] # None /\ table[a].default =>
                  ~ table[a].disabled /\ ~ table[a].archived
             /\ \A a, b \in Accounts : table[a] # None /\ table[b] # None
                  /\ table[a].default /\ table[b].default => a = b
    BY DEF Accepted, table
  <1>8. CASE op \in {"create", "list"} /\ row[r] # None
    <2>1. /\ table[own] = row[r] /\ \A a \in Accounts \ {own} : table[a] = account[a]
      BY <1>1, <1>2, <1>3, <1>8 DEF Written, Lone
    <2>2. ~ row[r].archived /\ ~ row[r].disabled /\ (row[r].default => Default = {})
      BY <1>1, <1>2, <1>8 DEF HasRow, Lone, Default, Active
    <2>3. QED
      BY <1>5, <1>6, <2>1, <2>2 DEF Rowed, Default, Active
  <1>9. CASE op = "list" /\ row[r] = None
    <2>1. \A a \in Accounts : table[a] = IF a \in found[r] THEN [account[a] EXCEPT !.default = TRUE]
                                         ELSE account[a]
      BY <1>3, <1>9 DEF Written
    <2>2. found[r] = {} \/ (Default = {} /\ \E a \in Active : found[r] = {a})
      BY <1>2, <1>9 DEF Lone
    <2>3. CASE found[r] = {}
      BY <1>5, <1>6, <2>1, <2>3 DEF Rowed, Default, Active
    <2>4. ASSUME NEW b \in Active, found[r] = {b}, Default = {} PROVE
            /\ b \in Accounts /\ table[b].default /\ ~ table[b].disabled /\ ~ table[b].archived
            /\ \A a \in Accounts \ {b} :
                 table[a] = account[a] /\ (account[a] # None => ~ account[a].default)
      BY <1>4, <1>5, <2>1, <2>4 DEF Rowed, Active, Rows
    <2>5. QED
      BY <2>2, <2>3, <2>4
  <1>10. CASE op = "update"
    <2>1. row[r] = account[own] /\ found[r] = {} /\ account[own] \in Rows
      BY <1>1, <1>2, <1>4, <1>10 DEF HasRow, Lone
    <2>2. \A a \in Accounts \ {own} : table[a] = account[a]
      BY <1>3, <1>10, <2>1 DEF Written
    <2>3. table[own] = [f \in DOMAIN account[own] |->
                          IF Assigned(r)[f] # account[own][f] THEN Assigned(r)[f]
                          ELSE account[own][f]]
      BY <1>1, <1>3, <1>10, <2>1 DEF Written
    <2>4. Assigned(r) = [account[own] EXCEPT !.currency = cmd[r].currency]
      BY <1>10, <2>1 DEF Assigned
    <2>5. table[own].default = account[own].default /\ table[own].disabled = account[own].disabled
          /\ table[own].archived = account[own].archived
      BY <2>1, <2>3, <2>4 DEF Rows
    <2>6. own \in Rowed
      BY <1>1, <1>2, <1>10 DEF HasRow, Rowed
    <2>7. QED
      BY <1>5, <1>6, <2>2, <2>5, <2>6 DEF Rowed, Default, Active
  <1>11. CASE op \in {"disable", "archive"}
    <2>1. row[r] = account[own] /\ account[own] \in Rows
      BY <1>1, <1>2, <1>4, <1>11 DEF HasRow, Lone
    <2>2. table[own] = [f \in DOMAIN account[own] |->
            IF Assigned(r)[f] # row[r][f] \/ (f = "default" /\ own \in found[r])
            THEN Assigned(r)[f] ELSE account[own][f]]
      BY <1>1, <1>3, <1>11 DEF Written
    <2>3. ~ Assigned(r).default
      BY <1>11, <2>1 DEF Assigned, Rows
    <2>4. ~ table[own].default
      BY <2>1, <2>2, <2>3 DEF Rows
    <2>5. \A a \in Accounts \ {own} :
            table[a] = IF a \in found[r] THEN [account[a] EXCEPT !.default = TRUE] ELSE account[a]
      BY <1>3, <1>11 DEF Written
    <2>6. found[r] = {} \/ (Default \subseteq {own} /\ \E a \in Active \ {own} : found[r] = {a})
      BY <1>2, <1>11 DEF Lone
    <2>7. CASE found[r] = {}
      BY <1>5, <1>6, <2>4, <2>5, <2>7 DEF Rowed, Default, Active
    <2>8. ASSUME NEW b \in Active \ {own}, found[r] = {b}, Default \subseteq {own} PROVE
            /\ b \in Accounts /\ table[b].default /\ ~ table[b].disabled /\ ~ table[b].archived
            /\ \A a \in Accounts \ {b, own} :
                 table[a] = account[a] /\ (account[a] # None => ~ account[a].default)
      <3>1. /\ b \in Accounts /\ b # own /\ account[b] \in Rows
            /\ ~ account[b].disabled /\ ~ account[b].archived
            /\ table[b] = [account[b] EXCEPT !.default = TRUE]
        BY <1>4, <2>5, <2>8 DEF Rowed, Active
      <3>2. table[b].default /\ ~ table[b].disabled /\ ~ table[b].archived
        BY <3>1 DEF Rows
      <3>3. \A a \in Accounts \ {b, own} : table[a] = account[a]
        BY <2>5, <2>8
      <3>4. \A a \in Accounts \ {b, own} : account[a] # None => ~ account[a].default
        BY <1>5, <2>8 DEF Rowed
      <3>5. QED
        BY <3>1, <3>2, <3>3, <3>4
    <2>9. QED
      BY <2>4, <2>6, <2>7, <2>8
  <1>12. CASE op = "set_default"
    <2>1. row[r] = account[own] /\ account[own] \in Rows /\ own \in Active
          /\ found[r] = {a \in Rowed : account[a].default}
      BY <1>1, <1>2, <1>4, <1>12 DEF HasRow, Lone
    <2>2. table[own] = [f \in DOMAIN account[own] |->
            IF Assigned(r)[f] # row[r][f] \/ (f = "default" /\ own \in found[r])
            THEN Assigned(r)[f] ELSE account[own][f]]
      BY <1>1, <1>3, <1>12 DEF Written
    <2>3. Assigned(r) = [account[own] EXCEPT !.default = TRUE]
      BY <1>12, <2>1 DEF Assigned
    <2>4. table[own].disabled = account[own].disabled /\ table[own].archived = account[own].archived
      BY <2>1, <2>2, <2>3 DEF Rows
    <2>5. \A a \in Accounts \ {own} :
            table[a] = IF a \in found[r] THEN [account[a] EXCEPT !.default = FALSE] ELSE account[a]
      BY <1>3, <1>12 DEF Written
    <2>6. \A a \in Accounts \ {own} : table[a] # None => ~ table[a].default
      BY <1>4, <2>1, <2>5 DEF Rowed, Rows
    <2>7. ~ account[own].disabled /\ ~ account[own].archived
      BY <2>1 DEF Active
    <2>8. QED
      BY <2>4, <2>6, <2>7
  <1>13. QED
    BY <1>1, <1>2, <1>8, <1>9, <1>10, <1>11, <1>12 DEF HasRow

\* A handler commits. It ends in an error only if it has met another, and what it archives
\* is used only by handlers that it has met.
LEMMA CommitInv ==
  ASSUME IInv, NEW r \in Requests, Commit(r)
  PROVE  IInv'
  <1> DEFINE op == cmd[r].op
             own == cmd[r].account
             table == [a \in Accounts |-> Written(r, a)]
             fits == op = "patch" \/ Accepted(table)
  <1>1. r \in Running /\ pc[r] \in {"commit", "choose"} /\ op # "use"
        /\ UNCHANGED <<refs, cmd, met, user, row, found, currency>>
    BY DEF Commit, Running, requestVars
  <1>2. /\ cmd[r] \in CommandSet /\ cmd[r] # None
        /\ op = "archive" => own \in Accounts
        /\ op = "update" => cmd[r].currency \in Currencies
        /\ op = "patch" \/ pc[r] = "commit"
    BY <1>1, Places, Commands, Given DEF Path
  <1>3. CASE ~ fits
    <2>1. Answer(r, "error") /\ UNCHANGED <<account, base, changed>>
      BY <1>3 DEF Commit
    <2>2. met[r]
      BY <1>1, <1>2, <1>3, LoneAccepted
    <2>3. /\ row' \in [Requests -> Rows \cup {None}] /\ found' \in [Requests -> SUBSET Accounts]
          /\ currency' \in [Requests -> Currencies \cup {None}]
          /\ \A q \in Requests : row'[q] = row[q] /\ found'[q] = found[q]
      BY <1>1 DEF IInv, TypeOK
    <2>4. QED
      BY <1>1, <2>1, <2>2, <2>3, AnswerInv
  <1>4. CASE fits
    <2>1. /\ account' = IF op = "patch" THEN account ELSE table
          /\ base' = NewBase(r) /\ changed' \in BOOLEAN /\ Answer(r, "ok")
      BY <1>4 DEF Commit
    <2>2. account' \in [Accounts -> Rows \cup {None}]
          /\ \A a \in Accounts : account[a] # None =>
               /\ account'[a] # None
               /\ account'[a].archived => account[a].archived \/ (op = "archive" /\ a = own)
      <3>1. CASE op = "patch"
        BY <2>1, <3>1 DEF IInv, TypeOK
      <3>2. CASE op # "patch"
        <4>1. \A a \in Accounts : account'[a] = Written(r, a)
          BY <2>1, <3>2
        <4>2. QED
          BY <1>1, <1>2, <2>1, <3>2, <4>1, WrittenRow
      <3>3. QED
        BY <3>1, <3>2
    <2>3. Accepted(account')
      BY <1>4, <2>1 DEF IInv
    <2>4. base' \in Currencies
      BY <1>2, <2>1 DEF IInv, TypeOK, NewBase
    <2>5. /\ pc' = [pc EXCEPT ![r] = "done"] /\ reply' = [reply EXCEPT ![r] = "ok"]
          /\ lock' \in [Accounts -> Requests \cup {None}]
          /\ \A q \in Requests : reply'[q] = "none" <=> pc'[q] # "done"
          /\ OnPath(r)' /\ r \notin Running' /\ LocksHeld'
      BY <1>1, <2>1, AnswerReleases
    <2>6. pc'[r] = "done" /\ \A q \in Requests \ {r} : pc'[q] = pc[q]
      BY <2>5 DEF IInv, TypeOK
    <2>7. Rowed \subseteq Rowed'
      BY <2>2 DEF Rowed
    <2>8. /\ Running' \subseteq Running /\ Together'
          /\ \A q \in Running \ {r} : met[q] /\ met[r]
          /\ \A q \in Requests \ {r} : OnPath(q)' /\ HasRow(q)' /\ Lone(q)'
      BY <1>1, <2>6, <2>7, Others
    <2>9. HasRow(r)' /\ Lone(r)'
      BY <2>5 DEF HasRow, Lone
    <2>10. TypeOK'
      BY <1>1, <2>1, <2>2, <2>4, <2>5 DEF IInv, TypeOK
    <2>11. \A a \in refs' : account'[a] # None
      BY <1>1, <2>2 DEF IInv, TypeOK
    <2>12. \A q \in Running' : /\ q \in Requests /\ q \in Running \ {r} /\ met[q] /\ met[r]
                               /\ pc'[q] = pc[q]
      BY <2>5, <2>6, <2>8 DEF Running
    <2>13. op = "archive" /\ met[r] => Met("archive", own)
      BY <1>1, <1>2 DEF Met
    <2>14. UseChecked'
      <3>1. ASSUME NEW q \in Running', cmd[q].op = "use", pc[q] = "commit",
                   account'[cmd[q].account].archived
            PROVE  met[q] /\ Met("archive", cmd[q].account)
        <4>1. cmd[q].account \in Accounts /\ account[cmd[q].account] # None
          BY <2>12, <3>1, Places, Commands DEF IInv, HasRow
        <4>2. QED
          BY <2>2, <2>12, <2>13, <3>1, <4>1 DEF IInv, UseChecked
      <3>2. QED
        BY <1>1, <2>12, <3>1 DEF UseChecked, Met
    <2>15. ArchiveChecked'
      BY <1>1, <2>12 DEF IInv, ArchiveChecked, Met
    <2>16. ArchivedIsUnused'
      <3>1. ASSUME NEW a \in refs, account'[a].archived PROVE Met("use", a) /\ Met("archive", a)
        <4>1. account[a].archived \/ (op = "archive" /\ a = own)
          BY <2>2, <3>1 DEF IInv, TypeOK
        <4>2. CASE account[a].archived
          BY <4>2 DEF IInv, ArchivedIsUnused
        <4>3. CASE op = "archive" /\ a = own
          <5>1. pc[r] = "commit"
            BY <1>2, <4>3
          <5>2. QED
            BY <1>1, <2>13, <4>3, <5>1 DEF IInv, ArchiveChecked
        <4>4. QED
          BY <4>1, <4>2, <4>3
      <3>2. QED
        BY <1>1, <3>1 DEF ArchivedIsUnused, Met
    <2>17. ErrorsAreRaces'
      BY <1>1, <2>5 DEF IInv, TypeOK, ErrorsAreRaces
    <2>18. Accepted(account)'
      BY <2>3 DEF Accepted
    <2>19. QED
      BY <2>5, <2>8, <2>9, <2>10, <2>11, <2>14, <2>15, <2>16, <2>17, <2>18 DEF IInv
  <1>5. QED
    BY <1>3, <1>4

-----------------------------------------------------------------------------
\* The invariant holds in every reachable state.
THEOREM Invariance == Spec => []IInv
  <1>1. IInv /\ [Next]_vars => IInv'
    <2> SUFFICES ASSUME IInv, [Next]_vars PROVE IInv'
      OBVIOUS
    <2>1. CASE UNCHANGED vars
      <3>1. UNCHANGED <<account, base, changed, refs, lock, cmd, pc, user, row, found, currency,
                        reply, met>>
        BY <2>1 DEF vars, requestVars
      <3>2. \A r \in Requests : OnPath(r)' /\ HasRow(r)' /\ Lone(r)'
        BY <3>1 DEF IInv, OnPath, HasRow, Lone, Running, Rowed, Active, Default
      <3>3. TypeOK' /\ Accepted(account)' /\ LocksHeld'
        BY <3>1 DEF IInv, TypeOK, Accepted, LocksHeld, Running
      <3>4. Together' /\ UseChecked' /\ ArchiveChecked'
        BY <3>1 DEF IInv, Together, UseChecked, ArchiveChecked, Running, Met
      <3>5. (\A a \in refs' : account'[a] # None) /\ ArchivedIsUnused' /\ ErrorsAreRaces'
        BY <3>1 DEF IInv, ArchivedIsUnused, ErrorsAreRaces, Met
      <3>6. QED
        BY <3>2, <3>3, <3>4, <3>5 DEF IInv
    <2>2. ASSUME NEW r \in Requests, Handle(r) PROVE IInv'
      BY <2>2, LoadInv, CheckReferencesInv, FlushInv, ClearDefaultsInv, LookForAnyInv,
         LookForDefaultInv, PromoteInv, SyncInv, CommitInv, CommitUseInv DEF Handle
    <2>3. ASSUME NEW r \in Requests, NEW c \in Ask[r], Arrive(r, c) PROVE IInv'
      BY <2>3, ArriveInv
    <2>4. QED
      BY <2>1, <2>2, <2>3, AbortInv DEF Next
  <1>2. QED
    BY InitInv, <1>1, PTL DEF Spec

\* Rows, locks and handlers keep their types (modules/accounts/services.py).
THEOREM Types == Spec => []TypeOK
  <1>1. IInv => TypeOK
    BY DEF IInv
  <1>2. QED
    BY <1>1, Invariance, PTL

\* Whatever names an archived account ran together with its archiving, for any number of
\* accounts and requests (modules/accounts/services.py, archive_account).
THEOREM UnusedWhenArchived == Spec => []ArchivedIsUnused
  <1>1. IInv => ArchivedIsUnused
    BY DEF IInv
  <1>2. QED
    BY <1>1, Invariance, PTL

\* A handler that ran alone is never refused by the index or the check, whatever
\* overlapping ones have left behind (modules/accounts/services.py).
THEOREM AloneWithoutErrors == Spec => []ErrorsAreRaces
  <1>1. IInv => ErrorsAreRaces
    BY DEF IInv
  <1>2. QED
    BY <1>1, Invariance, PTL

-----------------------------------------------------------------------------
\* What a handler that ran alone leaves

\* No handler that has met no other runs beside one that takes a step.
LEMMA OthersDecided ==
  ASSUME IInv, NEW r \in Running, UNCHANGED <<cmd, met>>,
         \A q \in Requests \ {r} : pc'[q] = pc[q]
  PROVE  \A q \in Requests \ {r} : Decided(q)'
  <1> SUFFICES ASSUME NEW q \in Requests \ {r}, q \in Running', ~ met'[q]
               PROVE  FALSE
    BY DEF Decided
  <1>1. q \in Running
    BY DEF Running
  <1>2. QED
    BY <1>1 DEF IInv, Together

\* A step that reads and answers nothing keeps OrderInv if what its handler decides is right.
LEMMA ReadOrder ==
  ASSUME IInv, OrderInv, NEW r \in Running, UNCHANGED <<account, cmd, met>>,
         \A q \in Requests \ {r} : pc'[q] = pc[q], Decided(r)'
  PROVE  OrderInv'
  <1>1. \A q \in Requests : Decided(q)'
    BY OthersDecided
  <1>2. \A q \in Requests : pc'[q] # "done" => pc[q] # "done"
    BY DEF Running
  <1>3. NewIds'
    BY <1>2 DEF OrderInv, NewIds
  <1>4. QED
    BY <1>1, <1>3 DEF OrderInv

\* A handler that answers without writing an account leaves nothing undecided.
LEMMA AnswerOrder ==
  ASSUME IInv, OrderInv, NEW r \in Running, UNCHANGED <<account, cmd, met>>,
         NEW answer, Answer(r, answer)
  PROVE  OrderInv'
  <1>1. r \notin Running' /\ \A q \in Requests \ {r} : pc'[q] = pc[q]
    BY DEF Answer, Running, IInv, TypeOK
  <1>2. Decided(r)'
    BY <1>1 DEF Decided
  <1>3. QED
    BY <1>1, <1>2, ReadOrder

\* A request arrives; what it loads of its user is what there is.
LEMMA ArriveOrder ==
  ASSUME IInv, IInv', OrderInv, NEW r \in Requests, NEW c \in Ask[r], Arrive(r, c)
  PROVE  OrderInv'
  <1>1. /\ pc[r] \in {"new", "done"} /\ UNCHANGED <<account, base>>
        /\ c \in CommandSet /\ (pc[r] = "done" => r = Lister)
        /\ cmd' = [cmd EXCEPT ![r] = c]
        /\ user'[r].base = base /\ row'[r] = None /\ found'[r] = {} /\ currency'[r] = None
        /\ pc'[r] = CASE c.op = "create" -> "default"
                      [] c.op = "patch" -> "sync"
                      [] c.op = "list" -> "any"
                      [] OTHER -> "load"
        /\ \A q \in Requests \ {r} : pc'[q] = pc[q]
    BY Given DEF Arrive, IInv, TypeOK
  <1>2. cmd'[r] = c /\ \A q \in Requests \ {r} : cmd'[q] = cmd[q]
    BY <1>1 DEF IInv, TypeOK
  <1>3. pc'[r] \in {"default", "sync", "any", "load"} /\ r \in Running'
    <2>1. c.op \in {"create", "update", "disable", "archive", "set_default", "use", "patch", "list"}
      BY <1>1, Commands
    <2>2. pc'[r] \in {"default", "sync", "any", "load"}
      BY <1>1, <2>1
    <2>3. QED
      BY <2>2 DEF Running
  <1>4. \A q \in Requests \ {r} : Decided(q)'
    <2> SUFFICES ASSUME NEW q \in Requests \ {r}, q \in Running', ~ met'[q]
                 PROVE  FALSE
      BY DEF Decided
    <2>1. QED
      BY <1>3 DEF IInv, Together
  <1>5. Decided(r)'
    <2>1. pc'[r] = "sync" => c.op = "patch"
      BY <1>1
    <2>2. QED
      BY <1>1, <1>2, <1>3, <2>1 DEF Decided
  <1>6. NewIds'
    <2> SUFFICES ASSUME NEW q \in Requests
                 PROVE  /\ cmd'[q] # None => cmd'[q] \in Ask[q]
                        /\ \A d \in Ask[q] : d.op = "create" /\ pc'[q] # "done" =>
                             account'[d.account] = None
      BY DEF NewIds
    <2>1. cmd'[q] # None => cmd'[q] \in Ask[q]
      BY <1>2 DEF OrderInv, NewIds
    <2>2. ASSUME NEW d \in Ask[q], d.op = "create", pc'[q] # "done"
          PROVE  account[d.account] = None
      <3>1. pc[q] # "done"
        BY <1>1, <2>2, Given
      <3>2. QED
        BY <2>2, <3>1 DEF OrderInv, NewIds
    <2>3. QED
      BY <1>1, <2>1, <2>2
  <1>7. QED
    BY <1>4, <1>5, <1>6 DEF OrderInv

\* A step that only moves its handler on, among places where nothing is decided yet.
LEMMA MoveOrder ==
  ASSUME IInv, OrderInv, NEW r \in Running,
         UNCHANGED <<account, base, cmd, user, row, found, currency, met>>,
         \A q \in Requests \ {r} : pc'[q] = pc[q],
         cmd[r].op \in {"disable", "archive"},
         pc'[r] \in {"sync", "commit"} /\ found[r] = {} =>
           cmd[r].account \notin Default \/ Active \subseteq {cmd[r].account}
  PROVE  OrderInv'
  <1>1. r \in Requests
    BY DEF Running
  <1>2. Active' = Active /\ Default' = Default
    BY DEF Active, Default, Rowed
  <1>3. Decided(r)
    BY <1>1 DEF OrderInv
  <1>4. Decided(r)'
    BY <1>2, <1>3 DEF Decided
  <1>5. QED
    BY <1>4, ReadOrder

\* A handler loads its account.
LEMMA LoadOrder ==
  ASSUME IInv, OrderInv, NEW r \in Requests, Load(r)
  PROVE  OrderInv'
  <1> DEFINE op == cmd[r].op
             own == cmd[r].account
             loaded == account[own]
  <1>1. /\ r \in Running /\ pc[r] = "load"
        /\ UNCHANGED <<account, base, cmd, user, found, currency, met>>
        /\ row' = [row EXCEPT ![r] = loaded]
    BY DEF Load, Running
  <1>2. op \in {"archive", "update", "disable", "set_default", "use"}
    BY <1>1, Places, Commands DEF Path
  <1>3. \/ \E answer : Answer(r, answer)
        \/ /\ loaded # None
           /\ \E place \in {"referenced", "commit", "flush", "clear"} :
                /\ GoTo(r, place)
                /\ op = "disable" /\ place = "commit" => ~ loaded.default
                /\ op = "archive" => place = "referenced"
                /\ op = "set_default" => place = "clear"
    <2>1. CASE op = "archive"
      BY <1>2, <2>1 DEF Load
    <2>2. CASE op = "update"
      BY <1>2, <2>2 DEF Load
    <2>3. CASE op = "disable"
      BY <1>2, <2>3 DEF Load
    <2>4. CASE op = "set_default"
      BY <1>2, <2>4 DEF Load
    <2>5. CASE op = "use"
      BY <1>2, <2>5 DEF Load
    <2>6. QED
      BY <1>2, <2>1, <2>2, <2>3, <2>4, <2>5
  <1>4. ASSUME NEW place \in {"referenced", "commit", "flush", "clear"}, loaded # None,
               GoTo(r, place), op = "disable" /\ place = "commit" => ~ loaded.default,
               op = "archive" => place = "referenced", op = "set_default" => place = "clear"
        PROVE  OrderInv'
    <2>2. /\ row'[r] = loaded /\ currency'[r] = currency[r] /\ found'[r] = found[r]
          /\ pc'[r] = place /\ \A q \in Requests \ {r} : pc'[q] = pc[q]
      BY <1>1, <1>4 DEF GoTo, IInv, TypeOK
    <2>3. Active' = Active /\ Default' = Default
      BY <1>1 DEF Active, Default, Rowed
    <2>4. Decided(r)
      BY DEF OrderInv
    <2>5. op = "disable" /\ pc'[r] = "commit" => own \notin Default
      BY <1>4, <2>2 DEF Default
    <2>6. Decided(r)'
      BY <1>1, <1>2, <1>4, <2>2, <2>3, <2>4, <2>5 DEF Decided
    <2>7. QED
      BY <1>1, <2>2, <2>6, ReadOrder
  <1>5. QED
    BY <1>1, <1>3, <1>4, AnswerOrder

\* An archiving has looked for references.
LEMMA CheckReferencesOrder ==
  ASSUME IInv, OrderInv, NEW r \in Requests, CheckReferences(r)
  PROVE  OrderInv'
  <1>1. /\ r \in Running /\ pc[r] = "referenced"
        /\ UNCHANGED <<account, base, cmd, user, row, found, currency, met>>
    BY DEF CheckReferences, Running, requestVars
  <1>2. cmd[r].op = "archive"
    BY <1>1, Places, Commands DEF Path
  <1>3. CASE \E answer : Answer(r, answer)
    BY <1>1, <1>3, AnswerOrder
  <1>4. CASE GoTo(r, IF row[r].default THEN "flush" ELSE "commit")
    <2>1. /\ pc'[r] = IF row[r].default THEN "flush" ELSE "commit"
          /\ \A q \in Requests \ {r} : pc'[q] = pc[q]
      BY <1>1, <1>4 DEF GoTo, IInv, TypeOK
    <2>2. CASE met[r]
      <3>1. Decided(r)'
        BY <1>1, <2>2 DEF Decided
      <3>2. QED
        BY <1>1, <2>1, <3>1, ReadOrder
    <2>3. CASE ~ met[r]
      <3>1. row[r] = account[cmd[r].account]
        BY <1>1, <1>2, <2>3 DEF IInv, Lone
      <3>2. pc'[r] = "commit" => cmd[r].account \notin Default
        BY <2>1, <3>1 DEF Default
      <3>3. QED
        BY <1>1, <1>2, <2>1, <3>2, MoveOrder
    <2>4. QED
      BY <2>2, <2>3
  <1>5. QED
    BY <1>3, <1>4 DEF CheckReferences

\* A default that is to go is flushed.
LEMMA FlushOrder ==
  ASSUME IInv, OrderInv, NEW r \in Requests, Flush(r)
  PROVE  OrderInv'
  <1>1. /\ r \in Running /\ pc[r] = "flush"
        /\ UNCHANGED <<account, base, cmd, user, row, found, currency, met>>
        /\ pc' = [pc EXCEPT ![r] = "default"]
    BY DEF Flush, Running, requestVars
  <1>2. cmd[r].op \in {"disable", "archive"}
    BY <1>1, Places, Commands DEF Path
  <1>3. pc'[r] = "default" /\ \A q \in Requests \ {r} : pc'[q] = pc[q]
    BY <1>1 DEF IInv, TypeOK
  <1>4. QED
    BY <1>1, <1>2, <1>3, MoveOrder

\* The other defaults are found and the currency of the new one taken.
LEMMA ClearDefaultsOrder ==
  ASSUME IInv, OrderInv, NEW r \in Requests, ClearDefaults(r)
  PROVE  OrderInv'
  <1>1. /\ r \in Running /\ pc[r] = "clear"
        /\ UNCHANGED <<account, base, cmd, user, row, met>>
        /\ pc' = [pc EXCEPT ![r] = "commit"]
        /\ currency' = [currency EXCEPT ![r] = row[r].currency]
    BY DEF ClearDefaults, GoTo, Running
  <1>2. cmd[r].op = "set_default"
    BY <1>1, Places, Commands DEF Path
  <1>3. /\ pc'[r] = "commit" /\ currency'[r] = row[r].currency
        /\ \A q \in Requests \ {r} : pc'[q] = pc[q]
    BY <1>1 DEF IInv, TypeOK
  <1>4. Decided(r)
    BY DEF OrderInv
  <1>5. Decided(r)'
    BY <1>1, <1>2, <1>3, <1>4 DEF Decided
  <1>6. QED
    BY <1>1, <1>3, <1>5, ReadOrder

\* A listing has looked for any account.
LEMMA LookForAnyOrder ==
  ASSUME IInv, OrderInv, NEW r \in Requests, LookForAny(r)
  PROVE  OrderInv'
  <1>1. /\ r \in Running /\ pc[r] = "any"
        /\ UNCHANGED <<account, base, cmd, user, found, currency, met>>
        /\ pc' = [pc EXCEPT ![r] = IF Rowed = {} THEN "commit" ELSE "default"]
        /\ row' = [row EXCEPT ![r] = IF Rowed = {}
             THEN [currency |-> user[r].base, disabled |-> FALSE, archived |-> FALSE,
                   default |-> TRUE]
             ELSE None]
    BY DEF LookForAny, GoTo, Running
  <1>2. cmd[r].op = "list"
    BY <1>1, Places, Commands DEF Path
  <1>3. /\ pc'[r] = IF Rowed = {} THEN "commit" ELSE "default"
        /\ row'[r] = IF Rowed = {}
             THEN [currency |-> user[r].base, disabled |-> FALSE, archived |-> FALSE,
                   default |-> TRUE]
             ELSE None
        /\ \A q \in Requests \ {r} : pc'[q] = pc[q]
    BY <1>1 DEF IInv, TypeOK
  <1>4. Decided(r)
    BY DEF OrderInv
  <1>5. row'[r] = None => pc'[r] = "default"
    <2>1. user[r].base \in Currencies
      BY <1>1, Places, Given DEF IInv, TypeOK
    <2>2. [currency |-> user[r].base, disabled |-> FALSE, archived |-> FALSE,
           default |-> TRUE] \in Rows
      BY <2>1 DEF Rows
    <2>3. QED
      BY <1>3, <2>2, Given
  <1>6. row'[r] # None => row'[r].default
    BY <1>3
  <1>7. Decided(r)'
    BY <1>1, <1>2, <1>4, <1>5, <1>6 DEF Decided
  <1>8. QED
    BY <1>1, <1>3, <1>7, ReadOrder

\* A handler has looked for a default, to make its own account one or to hand over.
LEMMA LookForDefaultOrder ==
  ASSUME IInv, OrderInv, NEW r \in Requests, LookForDefault(r)
  PROVE  OrderInv'
  <1> DEFINE op == cmd[r].op
             own == cmd[r].account
             others == {a \in Default : lock[a] # r}
             new == [currency |-> cmd[r].currency, disabled |-> FALSE, archived |-> FALSE,
                     default |-> others = {}]
  <1>1. /\ r \in Running /\ pc[r] = "default"
        /\ UNCHANGED <<account, base, cmd, user, found, met>>
    BY DEF LookForDefault, Running
  <1>2. op \in {"create", "disable", "archive", "list"}
    BY <1>1, Places, Commands DEF Path
  <1>3. Active' = Active /\ Default' = Default
    BY <1>1 DEF Active, Default, Rowed
  <1>4. Decided(r)
    BY DEF OrderInv
  <1>5. CASE op = "create"
    <2>1. /\ pc' = [pc EXCEPT ![r] = "commit"]
          /\ row' = [row EXCEPT ![r] = new]
          /\ currency' = [currency EXCEPT ![r] = IF others = {} THEN cmd[r].currency ELSE None]
      BY <1>5 DEF LookForDefault, GoTo
    <2>2. /\ row'[r] = new /\ pc'[r] = "commit"
          /\ currency'[r] = IF others = {} THEN cmd[r].currency ELSE None
          /\ \A q \in Requests \ {r} : pc'[q] = pc[q]
      BY <2>1 DEF IInv, TypeOK
    <2>3. others # {} => Default # {}
      OBVIOUS
    <2>4. /\ row'[r].default <=> others = {}
          /\ row'[r].currency = cmd[r].currency
      <3>1. CASE others = {}
        <4>1. row'[r] = [currency |-> cmd[r].currency, disabled |-> FALSE,
                         archived |-> FALSE, default |-> TRUE]
          BY <2>2, <3>1
        <4>2. QED
          BY <3>1, <4>1
      <3>2. CASE others # {}
        <4>1. row'[r] = [currency |-> cmd[r].currency, disabled |-> FALSE,
                         archived |-> FALSE, default |-> FALSE]
          BY <2>2, <3>2
        <4>2. QED
          BY <3>2, <4>1
      <3>3. QED
        BY <3>1, <3>2
    <2>5. Decided(r)'
      <3> HIDE DEF others, new
      <3>1. QED
        BY <1>1, <1>3, <1>4, <1>5, <2>2, <2>3, <2>4 DEF Decided
    <2>6. QED
      BY <1>1, <2>2, <2>5, ReadOrder
  <1>6. CASE op # "create"
    <2>1. /\ pc' = [pc EXCEPT ![r] = IF others = {} THEN "promote" ELSE "sync"]
          /\ UNCHANGED <<row, currency>>
      BY <1>6 DEF LookForDefault, GoTo
    <2>2. /\ pc'[r] = IF others = {} THEN "promote" ELSE "sync"
          /\ \A q \in Requests \ {r} : pc'[q] = pc[q]
      BY <2>1 DEF IInv, TypeOK
    <2>3. others # {} => Default # {}
      OBVIOUS
    <2>4. op \in {"disable", "archive"} /\ others # {} => own \notin Default
      <3>1. op \in {"disable", "archive"} => lock[own] = r
        BY <1>1 DEF IInv, LocksHeld
      <3>2. \A a, b \in Default : a = b
        BY DEF IInv, Accepted, Rowed, Active, Default
      <3>3. QED
        BY <3>1, <3>2
    <2>5. Decided(r)'
      <3> HIDE DEF others
      <3>1. QED
        BY <1>1, <1>2, <1>3, <1>4, <1>6, <2>1, <2>2, <2>3, <2>4 DEF Decided
    <2>6. QED
      BY <1>1, <2>2, <2>5, ReadOrder
  <1>7. QED
    BY <1>5, <1>6

\* A handler has looked for an account to hand over to.
LEMMA PromoteOrder ==
  ASSUME IInv, OrderInv, NEW r \in Requests, Promote(r)
  PROVE  OrderInv'
  <1> DEFINE op == cmd[r].op
             own == cmd[r].account
  <1>1. /\ r \in Running /\ pc[r] = "promote"
        /\ UNCHANGED <<account, base, cmd, user, row, currency, met>>
        /\ pc' = [pc EXCEPT ![r] = "sync"]
    BY DEF Promote, GoTo, Running
  <1>2. op \in {"disable", "archive", "list"}
    BY <1>1, Places, Commands DEF Path
  <1>3. pc'[r] = "sync" /\ \A q \in Requests \ {r} : pc'[q] = pc[q]
    BY <1>1 DEF IInv, TypeOK
  <1>4. Active' = Active /\ Default' = Default
    BY <1>1 DEF Active, Default, Rowed
  <1>5. Decided(r) /\ Lone(r)
    BY DEF IInv, OrderInv
  <1>6. /\ op \in {"disable", "archive"} => lock[own] = r
        /\ \A a \in Active : lock[a] = r => op \in {"disable", "archive"} /\ a = own
    <2>1. op \in {"disable", "archive"} => lock[own] = r
      BY <1>1 DEF IInv, LocksHeld
    <2>2. r # None
      BY Given
    <2>3. QED
      BY <2>1, <2>2 DEF IInv, LocksHeld, Active, Rowed
  <1>7. \/ {a \in Active : lock[a] # r} = {} /\ found' = found
        \/ \E a \in Active : lock[a] # r /\ found'[r] = {a} \ Default
    BY DEF Promote, IInv, TypeOK
  <1>8. ~ met[r] /\ found'[r] = {} =>
          IF op = "list" THEN Active = {} ELSE Active \subseteq {own}
    <2> SUFFICES ASSUME ~ met[r], found'[r] = {}
                 PROVE  IF op = "list" THEN Active = {} ELSE Active \subseteq {own}
      OBVIOUS
    <2>1. CASE {a \in Active : lock[a] # r} = {}
      BY <1>6, <2>1
    <2>2. ASSUME NEW a \in Active, lock[a] # r, found'[r] = {a} \ Default
          PROVE  FALSE
      <3>1. a \in Default
        BY <2>2
      <3>2. IF op = "list" THEN Default = {} ELSE Default \subseteq {own}
        BY <1>1, <1>2, <1>5 DEF Lone
      <3>3. op # "list" => a # own
        BY <1>2, <1>6, <2>2
      <3>4. QED
        BY <3>1, <3>2, <3>3
    <2>3. QED
      BY <1>7, <2>1, <2>2
  <1>9. Decided(r)'
    BY <1>1, <1>2, <1>3, <1>4, <1>5, <1>8 DEF Decided
  <1>10. QED
    BY <1>1, <1>3, <1>9, ReadOrder

\* A handler has looked for the currency of the default.
LEMMA SyncOrder ==
  ASSUME IInv, OrderInv, NEW r \in Requests, Sync(r)
  PROVE  OrderInv'
  <1> DEFINE op == cmd[r].op
             wanted == cmd[r].currency
             others == {a \in Default : lock[a] # r}
             follow == {account[a].currency : a \in others}
  <1>1. /\ r \in Running /\ pc[r] = "sync"
        /\ UNCHANGED <<account, base, cmd, user, row, found, met>>
    BY DEF Sync, Running
  <1>2. op \in {"disable", "archive", "list", "patch"}
    BY <1>1, Places, Commands DEF Path
  <1>3. CASE \E answer : Answer(r, answer)
    BY <1>1, <1>3, AnswerOrder
  <1>4. Active' = Active /\ Default' = Default
    BY <1>1 DEF Active, Default, Rowed
  <1>5. Decided(r)
    BY DEF OrderInv
  <1>6. ASSUME op = "patch", NEW place \in {"choose", "commit"}, GoTo(r, place),
               others # {} => wanted \in follow,
               currency' = [currency EXCEPT ![r] = wanted]
        PROVE  OrderInv'
    <2>1. /\ pc'[r] = place /\ currency'[r] = wanted
          /\ \A q \in Requests \ {r} : pc'[q] = pc[q]
      BY <1>6 DEF GoTo, IInv, TypeOK
    <2>2. others = {} => Default = {}
      BY <1>1, <1>6, Unlocked
    <2>3. Default # {} => \E a \in Default : account[a].currency = wanted
      BY <1>6, <2>2
    <2>4. Decided(r)'
      <3> HIDE DEF others, follow
      <3>1. QED
        BY <1>1, <1>4, <1>5, <1>6, <2>1, <2>3 DEF Decided
    <2>5. QED
      BY <1>1, <2>1, <2>4, ReadOrder
  <1>7. ASSUME op # "patch", GoTo(r, "commit")
        PROVE  OrderInv'
    <2>1. pc'[r] = "commit" /\ \A q \in Requests \ {r} : pc'[q] = pc[q]
      BY <1>7 DEF GoTo, IInv, TypeOK
    <2>2. Decided(r)'
      BY <1>1, <1>2, <1>4, <1>5, <1>7, <2>1 DEF Decided
    <2>3. QED
      BY <1>1, <2>1, <2>2, ReadOrder
  <1>8. CASE op = "patch"
    <2>1. \/ \E answer : Answer(r, answer)
          \/ /\ others # {} => wanted \in follow
             /\ currency' = [currency EXCEPT ![r] = wanted]
             /\ \E place \in {"choose", "commit"} : GoTo(r, place)
      BY <1>8 DEF Sync
    <2> HIDE DEF others, follow
    <2>2. QED
      BY <1>3, <1>6, <1>8, <2>1
  <1>9. CASE op # "patch"
    BY <1>3, <1>7, <1>9 DEF Sync
  <1>10. QED
    BY <1>8, <1>9

\* A handler commits: what it inserts is no account another is to create.
LEMMA CommitOrder ==
  ASSUME IInv, OrderInv, NEW r \in Requests, Commit(r)
  PROVE  OrderInv'
  <1>1. r \in Running /\ UNCHANGED <<cmd, met, user, row, found, currency>>
        /\ pc[r] \in {"commit", "choose"} /\ cmd[r].op # "use"
    BY DEF Commit, Running, requestVars
  <1>2. \E answer : Answer(r, answer)
    BY DEF Commit
  <1>3. r \notin Running' /\ pc'[r] = "done" /\ \A q \in Requests \ {r} : pc'[q] = pc[q]
    BY <1>2 DEF Answer, Running, IInv, TypeOK
  <1>4. \A q \in Requests : Decided(q)'
    BY <1>1, <1>3, OthersDecided DEF Decided
  <1>5. ASSUME NEW q \in Requests \ {r}, NEW c \in Ask[q], c.op = "create", pc[q] # "done"
        PROVE  account'[c.account] = None
    <2>1. account[c.account] = None /\ c.account \in Accounts
      BY <1>5, Given, Commands DEF OrderInv, NewIds
    <2>2. CASE account' = account
      BY <2>1, <2>2
    <2>3. CASE account' = [a \in Accounts |-> Written(r, a)] /\ cmd[r].op # "patch"
      <3>1. c.account \notin found[r]
        BY <1>1, <2>1 DEF IInv, HasRow, Rowed
      <3>2. CASE cmd[r].op \in {"create", "list"}
        <4>1. cmd[r] \in Ask[r]
          BY <1>1, Places, Given DEF OrderInv, NewIds
        <4>2. c.account # cmd[r].account
          BY <1>5, <3>2, <4>1, AccountsAssumption
        <4>3. QED
          BY <2>1, <2>3, <3>1, <3>2, <4>2 DEF Written
      <3>3. CASE cmd[r].op \notin {"create", "list"}
        <4>1. /\ cmd[r].op \in {"update", "disable", "archive", "set_default"}
              /\ pc[r] # "load"
          BY <1>1, <2>3, <3>3, Places, Commands
        <4>2. c.account # cmd[r].account
          BY <1>1, <2>1, <4>1 DEF IInv, HasRow
        <4>3. QED
          BY <2>1, <2>3, <3>1, <3>3, <4>2 DEF Written
      <3>4. QED
        BY <3>2, <3>3
    <2>4. QED
      BY <2>2, <2>3 DEF Commit
  <1>6. NewIds'
    <2>1. \A q \in Requests : cmd'[q] # None => cmd'[q] \in Ask[q]
      BY <1>1 DEF OrderInv, NewIds
    <2>2. \A q \in Requests : \A c \in Ask[q] :
            c.op = "create" /\ pc'[q] # "done" => account'[c.account] = None
      BY <1>3, <1>5
    <2>3. QED
      BY <2>1, <2>2 DEF NewIds
  <1>7. QED
    BY <1>4, <1>6 DEF OrderInv

\* What a handler has decided stays right, and new accounts are new.
THEOREM OrderInvariance == Spec => []OrderInv
  <1>1. Init => OrderInv
    <2> SUFFICES ASSUME Init PROVE OrderInv
      OBVIOUS
    <2>1. \A r \in Requests : Decided(r)
      BY DEF Init, Decided, Running
    <2>2. \A r \in Requests : \A c \in Ask[r] : c.op = "create" => account[c.account] = None
      BY AccountsAssumption DEF Init
    <2>3. QED
      BY <2>1, <2>2 DEF Init, OrderInv, NewIds
  <1>2. IInv /\ IInv' /\ OrderInv /\ [Next]_vars => OrderInv'
    <2> SUFFICES ASSUME IInv, IInv', OrderInv, [Next]_vars PROVE OrderInv'
      OBVIOUS
    <2>1. CASE UNCHANGED vars
      BY <2>1 DEF vars, requestVars, OrderInv, Decided, NewIds, Running, Rowed, Active, Default
    <2>2. ASSUME NEW r \in Requests, Handle(r) PROVE OrderInv'
      <3>1. CASE CommitUse(r)
        <4>1. r \in Running /\ UNCHANGED <<account, cmd, met>> /\ Answer(r, "ok")
          BY <3>1 DEF CommitUse, Running, requestVars
        <4>2. QED
          BY <4>1, AnswerOrder
      <3>2. QED
        BY <2>2, <3>1, LoadOrder, CheckReferencesOrder, FlushOrder, ClearDefaultsOrder,
           LookForAnyOrder, LookForDefaultOrder, PromoteOrder, SyncOrder, CommitOrder
           DEF Handle
    <2>3. ASSUME NEW r \in Requests, NEW c \in Ask[r], Arrive(r, c) PROVE OrderInv'
      BY <2>3, ArriveOrder
    <2>4. ASSUME NEW r \in Requests, Abort(r) PROVE OrderInv'
      <3>1. r \in Running /\ UNCHANGED <<account, cmd, met>> /\ Answer(r, "aborted")
        BY <2>4 DEF Abort, Running, requestVars
      <3>2. QED
        BY <3>1, AnswerOrder
    <2>5. QED
      BY <2>1, <2>2, <2>3, <2>4 DEF Next
  <1>3. QED
    BY <1>1, <1>2, Invariance, PTL DEF Spec

\* The commit of a handler that has met no other leaves a default and its currency in order.
LEMMA CommitLeaves ==
  ASSUME IInv, OrderInv, NEW r \in Requests, Commit(r), Answered(r), ~ met[r]
  PROVE  LeavesOrder(r)
  <1> DEFINE op == cmd[r].op
             own == cmd[r].account
             c == IF op = "update" /\ row[r].default THEN cmd[r].currency ELSE currency[r]
  <1>1. /\ r \in Running /\ pc[r] \in {"commit", "choose"} /\ op # "use"
        /\ op = "patch" \/ pc[r] = "commit"
        /\ op \in {"create", "update", "disable", "archive", "set_default", "list", "patch"}
        /\ op \in {"create", "update", "patch"} => cmd[r].currency \in Currencies
        /\ op # "patch" => own \in Accounts
        /\ cmd[r] \in Ask[r]
    <2>1. r \in Running /\ pc[r] \in {"commit", "choose"} /\ op # "use"
      BY DEF Commit, Running
    <2>2. cmd[r] \in CommandSet /\ cmd[r] # None
      BY <2>1, Places, Given
    <2>3. op = "patch" \/ pc[r] = "commit"
      BY <2>1, Places, Commands DEF Path
    <2>4. QED
      BY <2>1, <2>2, <2>3, Commands DEF OrderInv, NewIds
  <1>2. /\ account' = IF op = "patch" THEN account ELSE [a \in Accounts |-> Written(r, a)]
        /\ base' = NewBase(r)
    <2>1. reply' # [reply EXCEPT ![r] = "error"]
      BY DEF Answered, IInv, TypeOK
    <2>2. QED
      BY <2>1 DEF Commit, Answer
  <1>3. HasRow(r) /\ Lone(r) /\ Decided(r)
    BY DEF IInv, OrderInv
  <1>4. base' = IF c = None THEN base ELSE c
    BY <1>1, <1>2, <1>3 DEF NewBase, Decided
  <1>5. \A a \in Accounts : account[a] # None => account[a] \in Rows
    BY DEF IInv, TypeOK
  <1>6. \A a \in Rowed : account[a].default => a \in Default
    BY DEF IInv, Accepted, Rowed, Active, Default
  <1>7. \A a, b \in Default : a = b
    BY DEF IInv, Accepted, Rowed, Active, Default
  <1>8. row[r] # None => row[r] \in Rows
    BY DEF IInv, TypeOK
  <1> DEFINE Orderly ==
        /\ Default # {} \/ op \in {"create", "list", "set_default"} => Default' # {} \/ Active' = {}
        /\ op = "set_default" \/ (op \in {"create", "update", "patch"} /\ Follows) => Follows'
  <1>9. CASE op = "patch"
    <2>1. account' = account
      BY <1>2, <1>9
    <2>2. Default' = Default
      BY <2>1 DEF Default, Active, Rowed
    <2>3. pc[r] # "sync" /\ c = cmd[r].currency /\ cmd[r].currency # None
      BY <1>1, <1>3, <1>9, Given DEF Decided
    <2>4. Follows /\ Default # {} => cmd[r].currency = base
      BY <1>1, <1>3, <1>9, <2>3 DEF Decided, Follows
    <2>5. Follows => Follows'
      BY <1>4, <2>1, <2>2, <2>3, <2>4 DEF Follows
    <2>6. QED
      BY <1>9, <2>2, <2>5 DEF LeavesOrder
  <1>10. CASE op \in {"create", "list"} /\ row[r] # None
    <2>1. account[own] = None
      <3>1. CASE op = "create"
        BY <1>1, <3>1 DEF OrderInv, NewIds
      <3>2. CASE op = "list"
        BY <1>1, <1>3, <1>10, <3>2 DEF Lone, Rowed
      <3>3. QED
        BY <1>10, <3>1, <3>2
    <2>2. /\ account'[own] = row[r] /\ \A a \in Accounts \ {own} : account'[a] = account[a]
      BY <1>1, <1>2, <1>3, <1>10 DEF Written, Lone
    <2>3. ~ row[r].archived /\ ~ row[r].disabled
      BY <1>1, <1>3, <1>10 DEF HasRow
    <2>4. CASE row[r].default
      <3>1. Default = {}
        BY <1>1, <1>3, <1>10, <2>4 DEF Lone, Rowed, Active, Default
      <3>2. \A a \in Accounts \ {own} : account'[a] # None => ~ account'[a].default
        BY <1>6, <2>2, <3>1 DEF Rowed
      <3>3. Default' = {own}
        BY <1>1, <1>10, <2>2, <2>3, <2>4, <3>2 DEF Default, Active, Rowed
      <3>4. op = "create" => account'[own].currency = base'
        BY <1>1, <1>3, <1>4, <2>2, <2>4, Given DEF Decided
      <3>5. op = "create" => Follows'
        BY <3>3, <3>4 DEF Follows
      <3>6. QED
        BY <1>10, <3>3, <3>5 DEF LeavesOrder
    <2>5. CASE ~ row[r].default
      <3>1. op = "create" /\ Default # {} /\ currency[r] = None
        BY <1>1, <1>3, <1>10, <2>5 DEF Decided
      <3>2. Default' = Default
        BY <1>1, <1>10, <2>1, <2>2, <2>5 DEF Default, Active, Rowed
      <3>3. \A a \in Default : account'[a] = account[a]
        BY <2>1, <2>2 DEF Default, Active, Rowed
      <3>4. base' = base
        BY <1>4, <3>1
      <3>5. Follows => Follows'
        BY <3>2, <3>3, <3>4 DEF Follows
      <3>6. QED
        BY <3>1, <3>2, <3>5 DEF LeavesOrder
    <2>6. QED
      BY <2>4, <2>5
  <1>11. CASE op = "list" /\ row[r] = None
    <2>1. \A a \in Accounts :
            account'[a] = IF a \in found[r] THEN [account[a] EXCEPT !.default = TRUE]
                                            ELSE account[a]
      BY <1>2, <1>11 DEF Written
    <2>2. found[r] = {} \/ \E a \in Active : found[r] = {a}
      BY <1>1, <1>3, <1>11 DEF Lone
    <2>3. CASE found[r] = {}
      <3>1. Default # {} \/ Active = {}
        BY <1>1, <1>3, <1>11, <2>3 DEF Decided
      <3>2. Default' = Default /\ Active' = Active
        BY <2>1, <2>3 DEF Default, Active, Rowed
      <3>3. QED
        BY <1>11, <3>1, <3>2 DEF LeavesOrder
    <2>4. ASSUME NEW b \in Active, found[r] = {b}
          PROVE  LeavesOrder(r)
      <3>1. b \in Accounts /\ account[b] \in Rows /\ ~ account[b].disabled /\ ~ account[b].archived
        BY <1>5 DEF Active, Rowed
      <3>2. account'[b] = [account[b] EXCEPT !.default = TRUE]
        BY <2>1, <2>4, <3>1
      <3>3. account'[b] \in Rows /\ account'[b].default
            /\ ~ account'[b].disabled /\ ~ account'[b].archived
        BY <3>1, <3>2 DEF Rows
      <3>4. b \in Default'
        BY <3>1, <3>3, Given DEF Default, Active, Rowed
      <3>5. QED
        BY <1>11, <3>4 DEF LeavesOrder
    <2>5. QED
      BY <2>2, <2>3, <2>4
  <1>12. CASE op = "update"
    <2>1. row[r] = account[own] /\ found[r] = {} /\ account[own] \in Rows /\ account[own] # None
      BY <1>1, <1>3, <1>5, <1>12 DEF HasRow, Lone
    <2>2. \A a \in Accounts \ {own} : account'[a] = account[a]
      BY <1>2, <1>12, <2>1 DEF Written
    <2>3. account'[own] = [f \in DOMAIN account[own] |->
                             IF Assigned(r)[f] # account[own][f] THEN Assigned(r)[f]
                             ELSE account[own][f]]
      BY <1>1, <1>2, <1>12, <2>1 DEF Written
    <2>4. Assigned(r) = [account[own] EXCEPT !.currency = cmd[r].currency]
      BY <1>12, <2>1 DEF Assigned
    <2>5. /\ account'[own] \in Rows
          /\ account'[own].default = account[own].default
          /\ account'[own].disabled = account[own].disabled
          /\ account'[own].archived = account[own].archived
          /\ account'[own].currency = cmd[r].currency
      <3>1. cmd[r].currency \in Currencies /\ own \in Accounts
        BY <1>1, <1>12
      <3>2. DOMAIN account[own] = {"currency", "disabled", "archived", "default"}
        BY <2>1 DEF Rows
      <3>3. \A f \in DOMAIN account[own] : account'[own][f] = Assigned(r)[f]
        BY <2>3
      <3>4. account'[own] = [account[own] EXCEPT !.currency = cmd[r].currency]
        BY <2>1, <2>3, <2>4, <3>2 DEF Rows
      <3>5. QED
        BY <2>1, <3>1, <3>4 DEF Rows
    <2>6. own \in Accounts /\ account'[own] # None
      BY <1>1, <1>12, <2>5, Given
    <2>7. Default' = Default
      BY <2>1, <2>2, <2>5, <2>6 DEF Default, Active, Rowed
    <2>8. CASE own \in Default
      <3>1. row[r].default
        BY <2>1, <2>8 DEF Default
      <3>2. base' = cmd[r].currency
        BY <1>1, <1>4, <1>12, <3>1, Given
      <3>3. Follows'
        BY <1>7, <2>5, <2>7, <2>8, <3>2 DEF Follows
      <3>4. QED
        BY <1>12, <2>7, <3>3 DEF LeavesOrder
    <2>9. CASE own \notin Default
      <3>1. ~ row[r].default
        BY <1>1, <1>6, <1>12, <2>1, <2>9 DEF Rowed
      <3>2. base' = base
        BY <1>1, <1>3, <1>4, <1>12, <3>1 DEF Decided
      <3>3. \A a \in Default : account'[a] = account[a]
        BY <2>2, <2>9 DEF Default, Active, Rowed
      <3>4. Follows => Follows'
        BY <2>7, <3>2, <3>3 DEF Follows
      <3>5. QED
        BY <1>12, <2>7, <3>4 DEF LeavesOrder
    <2>10. QED
      BY <2>8, <2>9
  <1>13. CASE op \in {"disable", "archive"}
    <2> SUFFICES ASSUME Default # {}
                 PROVE  Default' # {} \/ Active' = {}
      BY <1>13 DEF LeavesOrder
    <2>1. row[r] = account[own] /\ account[own] \in Rows
      BY <1>1, <1>3, <1>5, <1>13 DEF HasRow, Lone
    <2>2. account'[own] = [f \in DOMAIN account[own] |->
            IF Assigned(r)[f] # row[r][f] \/ (f = "default" /\ own \in found[r])
            THEN Assigned(r)[f] ELSE account[own][f]]
      BY <1>1, <1>2, <1>13 DEF Written
    <2>3. /\ Assigned(r) \in Rows
          /\ Assigned(r).disabled \/ Assigned(r).archived
      BY <1>13, <2>1 DEF Assigned, Rows
    <2>4. /\ account'[own] \in Rows
          /\ account'[own].disabled \/ account'[own].archived
      BY <2>1, <2>2, <2>3 DEF Rows
    <2>5. \A a \in Accounts \ {own} :
            account'[a] = IF a \in found[r] THEN [account[a] EXCEPT !.default = TRUE]
                          ELSE account[a]
      BY <1>2, <1>13 DEF Written
    <2>6. found[r] = {} \/ \E a \in Active \ {own} : found[r] = {a}
      BY <1>3, <1>1, <1>13 DEF Lone
    <2>7. CASE found[r] = {}
      <3>1. own \notin Default \/ Active \subseteq {own}
        BY <1>1, <1>3, <1>13, <2>7 DEF Decided
      <3>2. \A a \in Accounts \ {own} : account'[a] = account[a]
        BY <2>5, <2>7
      <3>3. CASE own \notin Default
        BY <3>2, <3>3 DEF Default, Active, Rowed
      <3>4. CASE Active \subseteq {own}
        BY <2>4, <3>2, <3>4 DEF Active, Rowed
      <3>5. QED
        BY <3>1, <3>3, <3>4
    <2>8. ASSUME NEW b \in Active \ {own}, found[r] = {b}
          PROVE  Default' # {}
      <3>1. b \in Accounts /\ account[b] \in Rows /\ ~ account[b].disabled /\ ~ account[b].archived
        BY <1>5 DEF Active, Rowed
      <3>2. account'[b] = [account[b] EXCEPT !.default = TRUE]
        BY <2>5, <2>8, <3>1
      <3>3. account'[b] \in Rows /\ account'[b].default
            /\ ~ account'[b].disabled /\ ~ account'[b].archived
        BY <3>1, <3>2 DEF Rows
      <3>4. b \in Default'
        BY <3>1, <3>3, Given DEF Default, Active, Rowed
      <3>5. QED
        BY <3>4
    <2>9. QED
      BY <2>6, <2>7, <2>8
  <1>14. CASE op = "set_default"
    <2>1. /\ row[r] = account[own] /\ account[own] \in Rows /\ own \in Active
          /\ found[r] = {a \in Rowed : account[a].default}
          /\ currency[r] = row[r].currency
      BY <1>1, <1>3, <1>5, <1>14 DEF HasRow, Lone, Decided
    <2>2. account'[own] = [f \in DOMAIN account[own] |->
            IF Assigned(r)[f] # row[r][f] \/ (f = "default" /\ own \in found[r])
            THEN Assigned(r)[f] ELSE account[own][f]]
      BY <1>1, <1>2, <1>14 DEF Written
    <2>3. Assigned(r) = [account[own] EXCEPT !.default = TRUE]
      BY <1>14, <2>1 DEF Assigned
    <2>4. /\ account'[own] \in Rows /\ account'[own].default
          /\ account'[own].disabled = account[own].disabled
          /\ account'[own].archived = account[own].archived
          /\ account'[own].currency = account[own].currency
      BY <2>1, <2>2, <2>3 DEF Rows
    <2>5. \A a \in Accounts \ {own} :
            account'[a] = IF a \in found[r] THEN [account[a] EXCEPT !.default = FALSE]
                          ELSE account[a]
      BY <1>2, <1>14 DEF Written
    <2>6. \A a \in Accounts \ {own} : account'[a] # None => ~ account'[a].default
      BY <1>5, <2>1, <2>5 DEF Rowed, Rows
    <2>7. Default' = {own}
      BY <1>1, <1>14, <2>1, <2>4, <2>6, Given DEF Default, Active, Rowed
    <2>8. base' = account[own].currency
      BY <1>4, <1>14, <2>1, Given DEF Rows
    <2>9. Follows'
      BY <2>4, <2>7, <2>8 DEF Follows
    <2>10. QED
      BY <1>14, <2>7, <2>9 DEF LeavesOrder
  <1>15. row[r] = None => op # "create"
    BY <1>1, <1>3 DEF HasRow
  <1>16. QED
    BY <1>1, <1>9, <1>10, <1>11, <1>12, <1>13, <1>14, <1>15

\* A handler that ran alone leaves a default account if any is active, and the base
\* currency with it, for any number of accounts, requests and currencies and whatever
\* overlapping ones have left behind (modules/accounts/services.py, ensure_active_default,
\* set_default_account; modules/users/router.py).
THEOREM AloneLeavesOrder == Spec => LoneLeavesOrder
  <1>1. IInv /\ OrderInv /\ [Next]_vars => [\A r \in Requests : LeavesOrder(r)]_vars
    <2> SUFFICES ASSUME IInv, OrderInv, Next, NEW r \in Requests,
                        Answered(r), ~ met[r], cmd[r].op # "use"
                 PROVE  LeavesOrder(r)
      BY DEF LeavesOrder
    <2>1. Handle(r)
      <3>1. ASSUME NEW q \in Requests, Handle(q) PROVE q = r
        <4>1. UNCHANGED reply \/ \E answer : reply' = [reply EXCEPT ![q] = answer]
          BY <3>1, Places, Commands
             DEF Handle, Load, CheckReferences, Flush, ClearDefaults, LookForAny, LookForDefault,
                 Promote, Sync, Commit, CommitUse, GoTo, Answer
        <4>2. QED
          BY <4>1 DEF Answered, IInv, TypeOK
      <3>2. ASSUME NEW q \in Requests, Abort(q) PROVE FALSE
        BY <3>2 DEF Abort, Answer, Answered, IInv, TypeOK
      <3>3. ASSUME NEW q \in Requests, NEW c \in Ask[q], Arrive(q, c) PROVE FALSE
        BY <3>3 DEF Arrive, Answered, IInv, TypeOK
      <3>4. QED
        BY <3>1, <3>2, <3>3 DEF Next
    <2>2. reply' # reply /\ (r \in Running => reply'[r] = "ok")
      BY DEF Answered
    <2>3. CASE Load(r)
      <3>1. r \in Running /\ pc[r] = "load" /\ account' = account
        BY <2>3 DEF Load, Running
      <3>2. cmd[r].op \in {"update", "disable", "archive", "set_default", "use"}
        BY <3>1, Places, Commands DEF Path
      <3>3. Default' = Default
        BY <3>1 DEF Default, Active, Rowed
      <3>4. cmd[r].op \in {"disable", "archive"}
        <4>1. reply' # [reply EXCEPT ![r] = "refused"]
          BY DEF Answered, IInv, TypeOK
        <4>2. ~ Answer(r, "refused") /\ \A place : ~ GoTo(r, place)
          BY <2>2, <4>1 DEF Answer, GoTo
        <4>3. QED
          BY <2>3, <3>2, <4>2 DEF Load
      <3>5. QED
        BY <3>3, <3>4 DEF LeavesOrder
    <2>4. CASE CheckReferences(r)
      <3>1. r \in Running /\ pc[r] = "referenced" /\ account' = account
        BY <2>4 DEF CheckReferences, Running
      <3>2. cmd[r].op = "archive"
        BY <3>1, Places, Commands DEF Path
      <3>3. Default' = Default
        BY <3>1 DEF Default, Active, Rowed
      <3>4. QED
        BY <3>2, <3>3 DEF LeavesOrder
    <2>5. CASE Sync(r)
      <3>1. r \in Running /\ pc[r] = "sync" /\ account' = account
        BY <2>5 DEF Sync, Running
      <3>2. cmd[r].op = "list" /\ found[r] = {}
        <4>1. reply' # [reply EXCEPT ![r] = "refused"]
          BY DEF Answered, IInv, TypeOK
        <4>2. ~ Answer(r, "refused") /\ \A place : ~ GoTo(r, place)
          BY <2>2, <4>1 DEF Answer, GoTo
        <4>3. QED
          BY <2>5, <4>2 DEF Sync
      <3>3. Default' = Default /\ Active' = Active
        BY <3>1 DEF Default, Active, Rowed
      <3>4. Default # {} \/ Active = {}
        BY <3>1, <3>2 DEF IInv, OrderInv, Lone, Decided, Active
      <3>5. QED
        BY <3>2, <3>3, <3>4 DEF LeavesOrder
    <2>6. CASE Commit(r)
      BY <2>6, CommitLeaves
    <2>7. ~ CommitUse(r)
      BY DEF CommitUse
    <2>8. ~ (Flush(r) \/ ClearDefaults(r) \/ LookForAny(r) \/ LookForDefault(r) \/ Promote(r))
      BY <2>2 DEF Flush, ClearDefaults, LookForAny, LookForDefault, Promote, GoTo
    <2>9. QED
      BY <2>1, <2>3, <2>4, <2>5, <2>6, <2>7, <2>8 DEF Handle
  <1>2. QED
    BY <1>1, Invariance, OrderInvariance, PTL DEF Spec, LoneLeavesOrder
=============================================================================
