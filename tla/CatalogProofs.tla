---------------------------- MODULE CatalogProofs ----------------------------
(***************************************************************************)
(* Budgets stay sound and a listing fails only in a race, for any requests *)
(* and any tables. The invariant says that a handler that has met no other *)
(* is the only one, so that what it did not find is not there when it      *)
(* inserts. There is a lemma for each kind of step, with a step for each   *)
(* conjunct.                                                               *)
(*                                                                         *)
(* The second part is about what listings leave behind. ListInv says what  *)
(* a listing has done of what it is to do; OthersKeep says that a step of  *)
(* another leaves that as it is, because keys go only with an edit and no  *)
(* two transactions insert the same.                                       *)
(***************************************************************************)
EXTENDS Catalog, TLAPS

\* The parts of the assumption that the proofs use.
LEMMA Given ==
  /\ None \notin CommandSet /\ None \notin Requests /\ None \notin CategoryIds
  /\ \A k \in KindSet : Defaults[k] \in Seq(Names) /\ Required[k] \in Seq(Names)
  /\ \A s \in Start : Sound(s.budget)
  /\ \A r \in Requests : Ask[r] \subseteq CommandSet
  BY CatalogAssumption DEF CatalogAssumption, Consistent

\* The invariant holds to begin with.
LEMMA InitInv == Init => IInv
  <1> SUFFICES ASSUME Init PROVE IInv
    OBVIOUS
  <1>1. HandlersOK
    BY DEF Init, HandlersOK
  <1>2. Alone /\ LookedFor /\ ListsFailInRacesOnly
    BY DEF Init, Alone, LookedFor, Running, ListsFailInRacesOnly
  <1>3. BudgetsSound
    BY Given DEF Init, BudgetsSound
  <1>4. QED
    BY <1>1, <1>2, <1>3 DEF IInv

\* A request comes in: whoever was running has met it, and it has met them.
LEMMA ArriveInv ==
  ASSUME IInv, NEW r \in Requests, NEW c \in CommandSet, Arrive(r, c)
  PROVE  IInv'
  <1> DEFINE place == CASE c.op = "list" -> "any"
                        [] c.op = "create" -> "insert"
                        [] c.op = "create_budget" -> "category"
                        [] OTHER -> "load"
  <1>1. pc' = [pc EXCEPT ![r] = place] /\ UNCHANGED reply
    BY DEF Arrive, GoTo
  <1>2. place \in {"any", "insert", "category", "load"} /\ (place = "insert" => c.op = "create")
    OBVIOUS
  <1> HIDE DEF place
  <1>3. HandlersOK'
    BY <1>1, <1>2 DEF IInv, HandlersOK, Arrive
  <1>4. Running' = Running \cup {r} /\ pc[r] = "new"
    BY <1>1, <1>2 DEF IInv, HandlersOK, Arrive, Running
  <1>5. \A q \in Running : q # r /\ met'[q]
    BY <1>4 DEF Arrive, Running
  <1>6. ~ met'[r] => Running = {}
    BY DEF Arrive
  <1>7. Alone'
    BY <1>4, <1>5, <1>6 DEF Alone
  <1>8. LookedFor'
    BY <1>1, <1>2, <1>4, <1>5 DEF IInv, HandlersOK, LookedFor, Arrive
  <1>9. BudgetsSound'
    BY DEF IInv, BudgetsSound, Arrive
  <1>10. ListsFailInRacesOnly'
    BY <1>1 DEF IInv, HandlersOK, ListsFailInRacesOnly, Arrive
  <1>11. QED
    BY <1>3, <1>7, <1>8, <1>9, <1>10 DEF IInv

\* A step of a running handler after which it is over or still running leaves all other
\* handlers where they were.
LEMMA GoesOn ==
  ASSUME IInv, NEW r \in Running, UNCHANGED met,
         NEW place, pc' = [pc EXCEPT ![r] = place], place # "new"
  PROVE  /\ Alone'
         /\ \A q \in Running' : q # r => q \in Running /\ met[q]
  <1>1. Running' \subseteq Running /\ (\A q \in Running : q # r => pc'[q] = pc[q])
    BY DEF IInv, HandlersOK, Running
  <1>2. \A q \in Running : q # r => met[q] /\ met[r]
    BY DEF IInv, HandlersOK, Alone, Running
  <1>3. QED
    BY <1>1, <1>2 DEF IInv, Alone

\* A listing sees to one kind, or to one name that is there: it goes on elsewhere.
LEMMA ContinueInv ==
  ASSUME IInv, NEW r \in Running, NEW left, Continue(r, left),
         UNCHANGED <<category, budget, cmd, met>>
  PROVE  IInv'
  <1> DEFINE place == IF left # <<>> THEN "look" ELSE IF Len(kinds[r]) > 1 THEN "any" ELSE "commit"
  <1>1. pc' = [pc EXCEPT ![r] = place] /\ UNCHANGED reply
    BY DEF Continue, GoTo
  <1>2. place \in {"look", "any", "commit"}
    OBVIOUS
  <1> HIDE DEF place
  <1>3. HandlersOK'
    BY <1>1, <1>2 DEF IInv, HandlersOK, Running
  <1>4. Alone' /\ \A q \in Running' : q # r => q \in Running /\ met[q]
    BY <1>1, <1>2, GoesOn
  <1>5. LookedFor'
    BY <1>1, <1>2, <1>4 DEF IInv, HandlersOK, LookedFor, Running
  <1>6. BudgetsSound' /\ ListsFailInRacesOnly'
    BY <1>1 DEF IInv, BudgetsSound, ListsFailInRacesOnly
  <1>7. QED
    BY <1>3, <1>4, <1>5, <1>6 DEF IInv

\* A listing goes to insert a name that it has not found.
LEMMA LookInv ==
  ASSUME IInv, NEW r \in Requests, Look(r)
  PROVE  IInv'
  <1> DEFINE missing == ~ Taken(<<Head(kinds[r]), Head(names[r])>>, None)
  <1>1. r \in Running
    BY DEF Look, Running
  <1>2. CASE ~ missing
    BY <1>1, <1>2, ContinueInv DEF Look
  <1>3. CASE missing
    <2>1. /\ pc' = [pc EXCEPT ![r] = "insert"]
          /\ UNCHANGED <<reply, category, budget, cmd, met, kinds, names>>
      BY <1>3 DEF Look, GoTo
    <2>2. HandlersOK'
      BY <2>1 DEF IInv, HandlersOK
    <2>3. Alone' /\ \A q \in Running' : q # r => q \in Running /\ met[q]
      BY <1>1, <2>1, GoesOn
    <2>4. LookedFor'
      BY <1>3, <2>1, <2>3 DEF LookedFor, Taken, Key
    <2>5. BudgetsSound' /\ ListsFailInRacesOnly'
      BY <2>1 DEF IInv, BudgetsSound, ListsFailInRacesOnly
    <2>6. QED
      BY <2>2, <2>3, <2>4, <2>5 DEF IInv
  <1>4. QED
    BY <1>2, <1>3

\* A handler ends: those that run still have met it. It may end in an error only if it has
\* met another.
LEMMA AnswerInv ==
  ASSUME IInv, NEW r \in Running, UNCHANGED <<cmd, met, kinds, names>>,
         NEW answer \in {"ok", "conflict", "refused", "error", "aborted"}, Answer(r, answer),
         answer = "error" => met[r], BudgetsSound'
  PROVE  IInv'
  <1>1. pc' = [pc EXCEPT ![r] = "done"] /\ reply' = [reply EXCEPT ![r] = answer]
    BY DEF Answer
  <1>2. HandlersOK'
    BY <1>1 DEF IInv, HandlersOK
  <1>3. Alone' /\ \A q \in Running' : q # r => q \in Running /\ met[q]
    BY <1>1, GoesOn
  <1>4. r \notin Running'
    BY <1>1 DEF IInv, HandlersOK, Running
  <1>5. LookedFor'
    BY <1>3, <1>4 DEF LookedFor
  <1>6. ListsFailInRacesOnly'
    BY <1>1 DEF IInv, HandlersOK, ListsFailInRacesOnly
  <1>7. QED
    BY <1>2, <1>3, <1>5, <1>6 DEF IInv

\* A default category is inserted; a listing that ran alone has just not found it.
LEMMA InsertInv ==
  ASSUME IInv, NEW r \in Requests, Insert(r)
  PROVE  IInv'
  <1> DEFINE there == Taken(<<Head(kinds[r]), Head(names[r])>>, None)
             place == IF Len(names[r]) > 1 THEN "look"
                      ELSE IF Len(kinds[r]) > 1 THEN "any" ELSE "commit"
  <1>1. r \in Running /\ (there => met[r])
    BY DEF Insert, Running, IInv, HandlersOK, LookedFor
  <1>2. CASE there
    <2>1. Answer(r, "error") /\ UNCHANGED <<cmd, met, kinds, names, budget>>
      BY <1>2 DEF Insert, Key
    <2>2. QED
      BY <1>1, <1>2, <2>1, AnswerInv DEF IInv, BudgetsSound
  <1>3. CASE ~ there
    <2>1. pc' = [pc EXCEPT ![r] = place] /\ UNCHANGED <<reply, category, budget, cmd, met>>
      BY <1>3 DEF Insert, Key
    <2>2. place \in {"look", "any", "commit"}
      OBVIOUS
    <2> HIDE DEF place
    <2>3. HandlersOK'
      BY <2>1, <2>2 DEF IInv, HandlersOK
    <2>4. Alone' /\ \A q \in Running' : q # r => q \in Running /\ met[q]
      BY <1>1, <2>1, <2>2, GoesOn
    <2>5. LookedFor'
      BY <2>1, <2>2, <2>4 DEF IInv, HandlersOK, LookedFor
    <2>6. BudgetsSound' /\ ListsFailInRacesOnly'
      BY <2>1 DEF IInv, BudgetsSound, ListsFailInRacesOnly
    <2>7. QED
      BY <2>3, <2>4, <2>5, <2>6 DEF IInv
  <1>4. QED
    BY <1>2, <1>3

\* A listing commits.
LEMMA CommitListInv ==
  ASSUME IInv, NEW r \in Requests, CommitList(r)
  PROVE  IInv'
  <1>1. r \in Running /\ Answer(r, "ok") /\ UNCHANGED <<budget, cmd, met, kinds, names>>
    BY DEF CommitList, Running, handlerVars
  <1>2. QED
    BY <1>1, AnswerInv DEF IInv, BudgetsSound

\* A category is created, or its name is taken.
LEMMA CommitCategoryInv ==
  ASSUME IInv, NEW r \in Requests, CommitCategory(r)
  PROVE  IInv'
  <1>1. r \in Running /\ UNCHANGED <<budget, cmd, met, kinds, names>>
    BY DEF CommitCategory, Running, handlerVars
  <1>2. Answer(r, "ok") \/ Answer(r, "conflict")
    BY DEF CommitCategory
  <1>3. QED
    BY <1>1, <1>2, AnswerInv DEF IInv, BudgetsSound

\* A handler goes on from what it has read, without a write.
LEMMA GoToInv ==
  ASSUME IInv, NEW r \in Running, UNCHANGED <<budget, cmd, met>>,
         NEW place \in {"category", "commit"}, GoTo(r, place)
  PROVE  IInv'
  <1>1. pc' = [pc EXCEPT ![r] = place] /\ UNCHANGED reply
    BY DEF GoTo
  <1>2. HandlersOK'
    BY <1>1 DEF IInv, HandlersOK
  <1>3. Alone' /\ \A q \in Running' : q # r => q \in Running /\ met[q]
    BY <1>1, GoesOn
  <1>4. LookedFor'
    BY <1>1, <1>3 DEF IInv, HandlersOK, LookedFor, Running
  <1>5. BudgetsSound' /\ ListsFailInRacesOnly'
    BY <1>1 DEF IInv, BudgetsSound, ListsFailInRacesOnly
  <1>6. QED
    BY <1>2, <1>3, <1>4, <1>5 DEF IInv

\* An edit or an archiving loads its row.
LEMMA LoadInv ==
  ASSUME IInv, NEW r \in Requests, Load(r)
  PROVE  IInv'
  <1>1. r \in Running /\ UNCHANGED <<budget, cmd, met, kinds, names>>
    BY DEF Load, Running
  <1>2. Answer(r, "ok") \/ GoTo(r, "category") \/ GoTo(r, "commit")
    BY ZenonT(30) DEF Load
  <1>3. QED
    BY <1>1, <1>2, AnswerInv, GoToInv DEF IInv, BudgetsSound

\* A category is changed, or its new name is taken.
LEMMA CommitEditInv ==
  ASSUME IInv, NEW r \in Requests, CommitEdit(r)
  PROVE  IInv'
  <1>1. r \in Running /\ UNCHANGED <<budget, cmd, met, kinds, names>>
    BY DEF CommitEdit, Running, handlerVars
  <1>2. Answer(r, "ok") \/ Answer(r, "conflict")
    BY DEF CommitEdit
  <1>3. QED
    BY <1>1, <1>2, AnswerInv DEF IInv, BudgetsSound

\* The scope and the period of a budget are checked.
LEMMA CheckBudgetInv ==
  ASSUME IInv, NEW r \in Requests, CheckBudget(r)
  PROVE  IInv'
  <1>1. r \in Running /\ UNCHANGED <<budget, cmd, met, kinds, names>>
    BY DEF CheckBudget, Running, handlerVars
  <1>2. GoTo(r, "commit") \/ Answer(r, "refused")
    BY DEF CheckBudget
  <1>3. QED
    BY <1>1, <1>2, AnswerInv, GoToInv DEF IInv, BudgetsSound

\* A handler is lost.
LEMMA AbortInv ==
  ASSUME IInv, NEW r \in Requests, Abort(r)
  PROVE  IInv'
  <1>1. r \in Running /\ Answer(r, "aborted") /\ UNCHANGED <<budget, cmd, met, kinds, names>>
    BY DEF Abort, Running, handlerVars
  <1>2. QED
    BY <1>1, AnswerInv DEF IInv, BudgetsSound

\* A row that the constraints of the table accept leaves it sound, whatever else was
\* committed since its handler checked it.
LEMMA AcceptedIsSound ==
  ASSUME NEW table, Sound(table), NEW id, NEW b,
         BudgetAccepted(b, {table[i] : i \in DOMAIN table \ {id}})
  PROVE  Sound(With(table, [i \in {id} |-> b]))
  <1> DEFINE new == With(table, [i \in {id} |-> b])
  <1>1. DOMAIN new = DOMAIN table \cup {id} /\ new[id] = b
    BY DEF With
  <1>2. \A i \in DOMAIN table \ {id} : new[i] = table[i]
    BY DEF With
  <1>3. PeriodValid(b)
    BY DEF BudgetAccepted
  <1>4. \A i \in DOMAIN table \ {id} :
          ~ b.archived /\ ~ table[i].archived /\ table[i].scope = b.scope
          => table[i].to <= b.from \/ b.to <= table[i].from
    BY DEF BudgetAccepted
  <1> HIDE DEF new
  <1>5. \A i \in DOMAIN new : PeriodValid(new[i])
    BY <1>1, <1>2, <1>3 DEF Sound
  <1>6. \A i \in DOMAIN new, j \in DOMAIN new :
          i # j /\ new[i].scope = new[j].scope /\ ~ new[i].archived /\ ~ new[j].archived
          => new[i].to <= new[j].from \/ new[j].to <= new[i].from
    BY <1>1, <1>2, <1>4 DEF Sound
  <1>7. QED
    BY <1>5, <1>6 DEF Sound, new

\* A budget is written, or the constraints of its table refuse it.
LEMMA CommitBudgetInv ==
  ASSUME IInv, NEW r \in Requests, CommitBudget(r)
  PROVE  IInv'
  <1>1. r \in Running /\ UNCHANGED <<cmd, met, kinds, names>>
    BY DEF CommitBudget, Running, handlerVars
  <1>2. Answer(r, "ok") \/ Answer(r, "conflict")
    BY DEF CommitBudget
  <1>3. BudgetsSound'
    <2> DEFINE id == IF cmd[r].op = "create_budget" THEN r ELSE cmd[r].id
               new == IF cmd[r].op = "create_budget" THEN cmd[r].row ELSE Written(r, budget[id])
               accepted == BudgetAccepted(new, {budget[i] : i \in DOMAIN budget \ {id}})
    <2>1. CASE ~ accepted
      BY <2>1 DEF CommitBudget, IInv, BudgetsSound
    <2>2. CASE accepted
      <3>1. budget' = With(budget, [i \in {id} |-> new])
        BY <2>2 DEF CommitBudget
      <3> HIDE DEF id, new
      <3>2. QED
        BY <2>2, <3>1, AcceptedIsSound DEF IInv, BudgetsSound
    <2>3. QED
      BY <2>1, <2>2
  <1>4. QED
    BY <1>1, <1>2, <1>3, AnswerInv

-----------------------------------------------------------------------------
\* The invariant holds in every reachable state.
THEOREM Invariance == Spec => []IInv
  <1>1. IInv /\ [Next]_vars => IInv'
    <2> SUFFICES ASSUME IInv, [Next]_vars PROVE IInv'
      OBVIOUS
    <2>1. CASE UNCHANGED vars
      BY <2>1 DEF vars, handlerVars, IInv, HandlersOK, Alone, LookedFor, Running, Taken, Key,
             BudgetsSound, ListsFailInRacesOnly
    <2>2. ASSUME NEW r \in Requests, Handle(r) PROVE IInv'
      <3>1. ASSUME LookForAny(r) PROVE IInv'
        BY <3>1, ContinueInv DEF LookForAny, Running
      <3>2. QED
        BY <2>2, <3>1, LookInv, InsertInv, CommitListInv, CommitCategoryInv, LoadInv,
           CommitEditInv, CheckBudgetInv, CommitBudgetInv DEF Handle
    <2>3. ASSUME NEW r \in Requests, NEW c \in Ask[r], Arrive(r, c) PROVE IInv'
      BY <2>3, ArriveInv, Given
    <2>4. QED
      BY <2>1, <2>2, <2>3, AbortInv DEF Next
  <1>2. QED
    BY InitInv, <1>1, PTL DEF Spec

\* Active budgets of a scope never overlap and their periods are valid, in any number of
\* requests that create, edit and archive them (modules/budgets/services.py).
THEOREM SoundBudgets == Spec => []BudgetsSound
  <1>1. IInv => BudgetsSound
    BY DEF IInv
  <1>2. QED
    BY <1>1, Invariance, PTL

\* A listing that has met no other handler is never answered with an error
\* (modules/categories/services.py, list_categories).
THEOREM ListsSucceedAlone == Spec => []ListsFailInRacesOnly
  <1>1. IInv => ListsFailInRacesOnly
    BY DEF IInv
  <1>2. QED
    BY <1>1, Invariance, PTL

-----------------------------------------------------------------------------
\* What Head and Tail take off a sequence, and what of a sequence of kinds is left.
LEMMA HeadTail ==
  ASSUME NEW S, NEW s \in Seq(S), s # <<>>
  PROVE  /\ Head(s) \in S /\ Tail(s) \in Seq(S) /\ Len(s) > 0
         /\ Tail(s) # <<>> <=> Len(s) > 1
         /\ Len(s) = 1 <=> Tail(s) = <<>>
         /\ \A x \in Range(s) : x = Head(s) \/ x \in Range(Tail(s))
  <1>1. /\ Head(s) \in S /\ Tail(s) \in Seq(S) /\ Len(s) \in Nat /\ Len(s) > 0
        /\ Len(Tail(s)) = Len(s) - 1
    OBVIOUS
  <1>2. Tail(s) # <<>> <=> Len(s) > 1
    BY <1>1
  <1>3. ASSUME NEW i \in DOMAIN s, i # 1
        PROVE  s[i] \in Range(Tail(s))
    <2>1. i - 1 \in DOMAIN Tail(s) /\ Tail(s)[i - 1] = s[i]
      BY <1>1, <1>3
    <2>2. QED
      BY <2>1 DEF Range
  <1>4. \A x \in Range(s) : x = Head(s) \/ x \in Range(Tail(s))
    BY <1>3 DEF Range
  <1>5. QED
    BY <1>1, <1>2, <1>4

\* The short sequences a listing counts down.
LEMMA ShortLists ==
  /\ Range(<<>>) = {}
  /\ \A k : Range(<<k>>) = {k} /\ Head(<<k>>) = k /\ Tail(<<k>>) = <<>> /\ Len(<<k>>) = 1
            /\ <<k>> # <<>>
  /\ Range(Kinds) = KindSet /\ Head(Kinds) = "income" /\ Tail(Kinds) = <<"expense">>
  /\ Len(Kinds) = 2 /\ Kinds # <<>>
  BY DEF Range, Kinds, KindSet

\* What is left after a kind are the others that were left.
LEMMA KindsGo ==
  ASSUME NEW c, NEW s \in KindsLeft(c),
         s # <<>>, c \in KindSet \cup {None}
  PROVE  /\ Tail(s) \in KindsLeft(c)
         /\ Range(Tail(s)) = Range(s) \ {Head(s)}
         /\ Head(s) \in Range(s) /\ Head(s) \in KindSet
         /\ Tail(s) = <<>> <=> ~ (Len(s) > 1)
  <1>1. CASE s = Kinds
    <2>1. c = None
      BY <1>1, ShortLists DEF KindsLeft
    <2>2. /\ Range(Tail(s)) = {"expense"} /\ Range(s) = KindSet /\ Head(s) = "income"
          /\ Tail(s) = <<"expense">> /\ Tail(s) # <<>> /\ Len(s) = 2
      BY <1>1, ShortLists DEF KindsLeft
    <2>3. QED
      BY <2>1, <2>2 DEF KindSet, KindsLeft
  <1>2. ASSUME NEW k \in KindSet, s = <<k>>
        PROVE  /\ Range(Tail(s)) = Range(s) \ {Head(s)}
               /\ Head(s) \in Range(s) /\ Head(s) \in KindSet
               /\ Tail(s) = <<>> /\ ~ (Len(s) > 1)
    BY <1>2, ShortLists
  <1>3. s = Kinds \/ \E k \in KindSet : s = <<k>>
    BY DEF KindSet, KindsLeft
  <1>4. QED
    BY <1>1, <1>2, <1>3 DEF KindsLeft

-----------------------------------------------------------------------------
\* A step of r leaves what other requests have.
Elsewhere(r) ==
  \A q \in Requests \ {r} :
    /\ pc'[q] = pc[q] /\ cmd'[q] = cmd[q] /\ reply'[q] = reply[q] /\ pending'[q] = pending[q]
    /\ kinds'[q] = kinds[q] /\ names'[q] = names[q] /\ bare'[q] = bare[q] /\ row'[q] = row[q]

\* It takes no row away, and no key unless it answers an edit.
RowsStay == DOMAIN category \subseteq DOMAIN category' /\ DOMAIN budget \subseteq DOMAIN budget'
KeysStay ==
  ~ Edited' => \A i \in DOMAIN category : \E j \in DOMAIN category' :
                 Key(category'[j]) = Key(category[i])

\* It inserts no key that another transaction has inserted.
KeysApart(r) ==
  \A q \in Requests \ {r} : \A i \in DOMAIN pending[q] :
    /\ ~ Taken(<<i[2], i[3]>>, None)'
    /\ \A j \in DOMAIN pending'[r] : Key(pending'[r][j]) # <<i[2], i[3]>>

Mine(r) == OnPath(r) /\ Insertions(r) /\ BareSeen(r) /\ Covered(r)

\* An edit that was answered stays answered.
LEMMA StillUnedited ==
  ASSUME TypeOK, NEW r \in Requests, pc[r] # "done", Elsewhere(r)
  PROVE  ~ Edited' => ~ Edited
  BY DEF TypeOK, Elsewhere, Edited

\* What the invariant says of another request stays true.
LEMMA OthersKeep ==
  ASSUME ListInv, NEW r \in Requests, pc[r] # "done", Elsewhere(r), RowsStay, KeysStay,
         KeysApart(r), NEW q \in Requests \ {r}
  PROVE  Mine(q)'
  <1>1. /\ pc'[q] = pc[q] /\ cmd'[q] = cmd[q] /\ pending'[q] = pending[q]
        /\ kinds'[q] = kinds[q] /\ names'[q] = names[q] /\ bare'[q] = bare[q] /\ row'[q] = row[q]
    BY DEF Elsewhere
  <1>2. OnPath(q) /\ Insertions(q) /\ BareSeen(q) /\ Covered(q)
    BY DEF ListInv
  <1>3. q \in Running <=> q \in Running'
    BY <1>1 DEF Running
  <1>4. OnPath(q)'
    BY <1>1, <1>2, <1>3 DEF OnPath, RowsStay
  <1>5. Insertions(q)'
    <2> SUFFICES ASSUME NEW i \in DOMAIN pending[q]
                 PROVE  /\ i \in {q} \X KindSet \X Names
                        /\ pending[q][i] \in Categories
                        /\ Key(pending[q][i]) = <<i[2], i[3]>>
                        /\ ~ Taken(<<i[2], i[3]>>, None)'
                        /\ Free(q, <<i[2], i[3]>>)'
      BY <1>1 DEF Insertions
    <2>1. ASSUME NEW p \in Requests \ {q}, NEW j \in DOMAIN pending'[p]
          PROVE  Key(pending'[p][j]) # <<i[2], i[3]>>
      <3>1. CASE p = r
        BY <3>1, <2>1 DEF KeysApart
      <3>2. CASE p # r
        BY <3>2, <2>1, <1>2 DEF Insertions, Free, Elsewhere
      <3>3. QED
        BY <3>1, <3>2
    <2>2. QED
      BY <2>1, <1>2 DEF Insertions, KeysApart, Free
  <1>6. BareSeen(q)'
    BY <1>1, <1>2 DEF BareSeen, Unseen
  <1>7. Covered(q)'
    <2> SUFFICES ASSUME q \in Running, cmd[q].op = "list", ~ Edited',
                        NEW k \in Sought(q) \ Unseen(q), NEW n \in Range(Wanted(q, k)),
                        ~ (/\ pc[q] \in {"look", "insert"}
                           /\ k = Head(kinds[q]) /\ n \in Range(names[q]))
                 PROVE  Present(q, <<k, n>>)'
      BY <1>1, <1>3 DEF Covered, Sought, Unseen, Wanted
    <2>1. Present(q, <<k, n>>)
      BY <1>2, StillUnedited DEF Covered, ListInv
    <2>2. QED
      BY <2>1, <1>1 DEF Present, KeysStay
  <1>8. QED
    BY <1>4, <1>5, <1>6, <1>7 DEF Mine

\* What a step has to keep: the tables in order, and an answer at the end of a request.
Tables ==
  /\ \A i \in DOMAIN category : i \in CategoryIds /\ category[i] \in Categories
  /\ \A i \in DOMAIN budget : i \in BudgetIds /\ budget[i] \in Budgets
  /\ KeysUnique

Answers(r) ==
  /\ reply[r] = "none" <=> pc[r] # "done"
  /\ pc[r] \in {"new", "done"} => pending[r] = NoRows

\* A step of r that keeps the tables in order, and what the invariant says of r, keeps all.
LEMMA Whole ==
  ASSUME ListInv, NEW r \in Requests, pc[r] # "done", Elsewhere(r), RowsStay, KeysStay,
         KeysApart(r), Mine(r)', Tables', Answers(r)', RowsAppear', Columns'
  PROVE  ListInv'
  <1>1. \A q \in Requests : Mine(q)'
    BY OthersKeep
  <1>2. \A q \in Requests : Answers(q)'
    BY DEF ListInv, TypeOK, Answers, Elsewhere
  <1>3. TypeOK'
    BY <1>2 DEF Tables, Answers, TypeOK
  <1>4. QED
    BY <1>1, <1>3 DEF ListInv, Mine

\* A step that writes nothing leaves the tables in order.
LEMMA NoWrite ==
  ASSUME ListInv, NEW r \in Requests, pc[r] # "done", Elsewhere(r), UNCHANGED <<category, budget>>,
         \A j \in DOMAIN pending'[r] : j \in DOMAIN pending[r] /\ pending'[r][j] = pending[r][j]
  PROVE  Tables' /\ RowsStay /\ KeysStay /\ KeysApart(r) /\ RowsAppear'
  <1>1. Tables' /\ RowsStay /\ KeysStay
    BY DEF ListInv, TypeOK, Tables, KeysUnique, RowsStay, KeysStay
  <1>2. KeysApart(r)
    <2> SUFFICES ASSUME NEW q \in Requests \ {r}, NEW i \in DOMAIN pending[q]
                 PROVE  /\ ~ Taken(<<i[2], i[3]>>, None)'
                        /\ \A j \in DOMAIN pending'[r] : Key(pending'[r][j]) # <<i[2], i[3]>>
      BY DEF KeysApart
    <2>1. ~ Taken(<<i[2], i[3]>>, None) /\ Free(q, <<i[2], i[3]>>)
      BY DEF ListInv, Insertions
    <2>2. QED
      BY <2>1 DEF Taken, Free
  <1>3. RowsAppear'
    <2> SUFFICES ASSUME NEW i \in DOMAIN category, i[1] # None PROVE pc'[i[1]] = "done"
      BY DEF RowsAppear
    <2>1. pc[i[1]] = "done" /\ i[1] \in Requests
      BY DEF ListInv, TypeOK, RowsAppear, CategoryIds
    <2>2. QED
      BY <2>1 DEF Elsewhere
  <1>4. QED
    BY <1>1, <1>2, <1>3

\* The part of a request that is over.
LEMMA EndMine ==
  ASSUME ListInv, IInv, NEW r \in Running, NEW answer, answer # "none", Answer(r, answer),
         UNCHANGED <<cmd, kinds, names, bare>>,
         DOMAIN row' = Requests, \A q \in Requests \ {r} : row'[q] = row[q]
  PROVE  /\ Elsewhere(r) /\ Mine(r)' /\ Answers(r)' /\ Columns'
         /\ pc[r] # "done" /\ pending'[r] = NoRows
  <1>1. /\ pc' = [pc EXCEPT ![r] = "done"] /\ reply' = [reply EXCEPT ![r] = answer]
        /\ pending' = [pending EXCEPT ![r] = NoRows]
    BY DEF Answer
  <1>2. DOMAIN pc = Requests /\ DOMAIN reply = Requests /\ DOMAIN pending = Requests
    BY DEF IInv, HandlersOK, ListInv, Columns
  <1>3. r \in Requests /\ pc[r] # "new" /\ pc[r] # "done"
    BY DEF Running
  <1>4. pc'[r] = "done" /\ reply'[r] = answer /\ pending'[r] = NoRows
    BY <1>1, <1>2, <1>3
  <1>5. Elsewhere(r)
    BY <1>1, <1>2 DEF Elsewhere
  <1>6. Columns'
    BY <1>1, <1>2 DEF ListInv, Columns
  <1>7. Answers(r)'
    BY <1>4 DEF Answers
  <1>8. Mine(r)'
    <2>1. r \notin Running'
      BY <1>4 DEF Running
    <2>2. OnPath(r)' /\ Covered(r)'
      BY <2>1 DEF OnPath, Covered
    <2>3. Insertions(r)'
      BY <1>4 DEF Insertions, NoRows
    <2>4. BareSeen(r)'
      <3>1. bare[r] \cap Unseen(r) = {}
        BY <1>3 DEF ListInv, BareSeen
      <3>2. Unseen(r)' \subseteq Unseen(r)
        BY <1>3, <1>4 DEF Unseen
      <3>3. QED
        BY <3>1, <3>2 DEF BareSeen
    <2>5. QED
      BY <2>2, <2>3, <2>4 DEF Mine
  <1>9. QED
    BY <1>3, <1>4, <1>5, <1>6, <1>7, <1>8

\* A request is answered without a write.
LEMMA EndKeeps ==
  ASSUME ListInv, IInv, NEW r \in Running, NEW answer, answer # "none", Answer(r, answer),
         UNCHANGED <<category, budget, cmd, kinds, names, bare>>,
         DOMAIN row' = Requests, \A q \in Requests \ {r} : row'[q] = row[q]
  PROVE  ListInv'
  <1>1. /\ Elsewhere(r) /\ Mine(r)' /\ Answers(r)' /\ Columns' /\ pc[r] # "done"
        /\ pending'[r] = NoRows /\ r \in Requests
    BY EndMine DEF Running
  <1>2. Tables' /\ RowsStay /\ KeysStay /\ KeysApart(r) /\ RowsAppear'
    BY <1>1, NoWrite DEF NoRows
  <1>3. QED
    BY <1>1, <1>2, Whole

\* A handler other than a listing's goes on.
LEMMA MoveKeeps ==
  ASSUME ListInv, IInv, NEW r \in Running, cmd[r].op # "list",
         NEW place \in {"category", "commit"}, GoTo(r, place),
         UNCHANGED <<category, budget, cmd, kinds, names, bare>>,
         DOMAIN row' = Requests, \A q \in Requests \ {r} : row'[q] = row[q], OnPath(r)'
  PROVE  ListInv'
  <1>1. /\ pc' = [pc EXCEPT ![r] = place] /\ UNCHANGED <<reply, pending>>
        /\ DOMAIN pc = Requests /\ r \in Requests /\ pc[r] # "new" /\ pc[r] # "done"
    BY DEF GoTo, Running, IInv, HandlersOK
  <1>2. Elsewhere(r) /\ Columns' /\ pc'[r] = place
    BY <1>1 DEF Elsewhere, ListInv, Columns
  <1>3. Tables' /\ RowsStay /\ KeysStay /\ KeysApart(r) /\ RowsAppear'
    BY <1>1, <1>2, NoWrite
  <1>4. Answers(r)'
    BY <1>1, <1>2 DEF ListInv, TypeOK, Answers
  <1>5. Insertions(r)'
    BY <1>1 DEF ListInv, Insertions, Taken, Free
  <1>6. BareSeen(r)'
    <2>1. Unseen(r)' \subseteq Unseen(r)
      BY <1>1, <1>2 DEF Unseen
    <2>2. QED
      BY <2>1, <1>1 DEF ListInv, BareSeen
  <1>7. Covered(r)'
    BY DEF Covered
  <1>8. QED
    BY <1>1, <1>2, <1>3, <1>4, <1>5, <1>6, <1>7, Whole DEF Mine

\* A request comes in.
LEMMA ArriveKeeps ==
  ASSUME ListInv, IInv, NEW r \in Requests, NEW c \in CommandSet, Arrive(r, c)
  PROVE  ListInv'
  <1> DEFINE place == CASE c.op = "list" -> "any"
                        [] c.op = "create" -> "insert"
                        [] c.op = "create_budget" -> "category"
                        [] OTHER -> "load"
  <1>1. /\ pc' = [pc EXCEPT ![r] = place] /\ cmd' = [cmd EXCEPT ![r] = c] /\ pc[r] = "new"
        /\ UNCHANGED <<reply, pending, category, budget, names, bare, row>>
        /\ DOMAIN pc = Requests /\ DOMAIN cmd = Requests /\ DOMAIN kinds = Requests
    BY DEF Arrive, GoTo, IInv, HandlersOK, ListInv, Columns
  <1>2. /\ place \in {"any", "insert", "category", "load"}
        /\ c.op = "list" <=> place = "any"
        /\ c.op \in {"edit", "archive", "edit_budget", "archive_budget"} => place = "load"
    OBVIOUS
  <1> HIDE DEF place
  <1>3. PICK order : /\ kinds' = [kinds EXCEPT ![r] = order]
                     /\ c.op = "list" => order \in KindOrder(c.kind)
    <2>1. CASE c.op = "list"
      BY <2>1 DEF Arrive
    <2>2. CASE c.op # "list"
      <3>1. kinds' = kinds
        BY <2>2 DEF Arrive
      <3>2. QED
        BY <3>1, <2>2 DEF ListInv, Columns
    <2>3. QED
      BY <2>1, <2>2
  <1>4. Elsewhere(r) /\ pc'[r] = place /\ cmd'[r] = c /\ kinds'[r] = order
    BY <1>1, <1>3 DEF Elsewhere
  <1>5. Columns'
    <2>1. kinds' \in [Requests -> {Kinds, <<"income">>, <<"expense">>, <<>>}]
      <3>1. CASE c.op = "list"
        <4>1. c.kind \in KindSet \cup {None}
          BY <3>1 DEF CommandSet
        <4>2. order \in {Kinds, <<"income">>, <<"expense">>}
          BY <4>1, <3>1, <1>3 DEF KindOrder, KindSet
        <4>3. QED
          BY <4>2, <1>3 DEF ListInv, Columns
      <3>2. CASE c.op # "list"
        BY <3>2 DEF Arrive, ListInv, Columns
      <3>3. QED
        BY <3>1, <3>2
    <2>2. QED
      BY <2>1, <1>1 DEF ListInv, Columns
  <1>6. Tables' /\ RowsStay /\ KeysStay /\ KeysApart(r) /\ RowsAppear'
    BY <1>1, <1>4, NoWrite
  <1>7. Answers(r)'
    BY <1>1, <1>2, <1>4 DEF ListInv, TypeOK, Answers
  <1>8. Insertions(r)'
    BY <1>1 DEF ListInv, Insertions, Taken, Free
  <1>9. BareSeen(r)'
    <2>1. bare[r] \cap KindSet = {}
      BY <1>1 DEF ListInv, BareSeen, Unseen
    <2>2. c.op = "list" => c.kind \in KindSet \cup {None}
      BY DEF CommandSet
    <2>3. CASE c.op = "list"
      <3>1. Range(order) \subseteq KindSet
        BY <1>3, <2>2, <2>3, ShortLists DEF KindOrder
      <3>2. QED
        BY <3>1, <2>1, <1>1, <1>2, <1>4 DEF BareSeen, Unseen
    <2>4. CASE c.op # "list"
      <3>1. kinds' = kinds /\ kinds[r] \in {Kinds, <<"income">>, <<"expense">>, <<>>}
        BY <2>4 DEF Arrive, ListInv, Columns
      <3>2. Range(kinds[r]) \subseteq KindSet
        BY <3>1, ShortLists DEF KindSet
      <3>3. QED
        BY <3>1, <3>2, <2>1, <1>1, <1>2, <1>4 DEF BareSeen, Unseen
    <2>5. QED
      BY <2>3, <2>4
  <1>10. OnPath(r)'
    BY <1>1, <1>2, <1>3, <1>4, ShortLists DEF OnPath, KindOrder, Arrive, KindsLeft
  <1>11. Covered(r)'
    BY <1>1, <1>2, <1>3, <1>4, ShortLists DEF Covered, Unseen, KindOrder, Sought
  <1>12. QED
    BY <1>1, <1>4, <1>5, <1>6, <1>7, <1>8, <1>9, <1>10, <1>11, Whole DEF Mine

\* A listing goes on with what is left of the names of a kind.
ListStep(r, left, found) ==
  /\ pc' = [pc EXCEPT ![r] = IF left # <<>> THEN "look"
                             ELSE IF Len(kinds[r]) > 1 THEN "any" ELSE "commit"]
  /\ names' = [names EXCEPT ![r] = left]
  /\ kinds' = [kinds EXCEPT ![r] = IF left = <<>> THEN Tail(@) ELSE @]
  /\ bare' = [bare EXCEPT ![r] = bare[r] \cup found]
  /\ UNCHANGED <<category, budget, cmd, row, reply>>
PresentStays(r) == \A key : Present(r, key) => Present(r, key)'
LeftOf(r, k, left) ==
  ~ Edited /\ k \in Sought(r) =>
    \A n \in Range(Wanted(r, k)') : n \in Range(left) \/ Present(r, <<k, n>>)'

\* It keeps the invariant if the other names of the kind are there, or inserted.
LEMMA ListGoes ==
  ASSUME ListInv, IInv, NEW r \in Running, cmd[r].op = "list", kinds[r] # <<>>,
         NEW left \in Seq(Names), NEW k, k = Head(kinds[r]), NEW found, found \subseteq {k},
         ListStep(r, left, found), PresentStays(r), LeftOf(r, k, left),
         DOMAIN pending' = Requests,
         \A q \in Requests \ {r} : pending'[q] = pending[q],
         Insertions(r)', KeysApart(r)
  PROVE  ListInv'
  <1> USE DEF ListStep
  <1>1. /\ r \in Requests /\ pc[r] # "new" /\ pc[r] # "done"
        /\ DOMAIN pc = Requests /\ DOMAIN bare = Requests
        /\ kinds \in [Requests -> {Kinds, <<"income">>, <<"expense">>, <<>>}]
        /\ names \in [Requests -> Seq(Names)] /\ DOMAIN row = Requests
    BY DEF Running, IInv, HandlersOK, ListInv, Columns
  <1>2. /\ cmd[r] \in CommandSet /\ cmd[r].kind \in KindSet \cup {None}
        /\ kinds[r] \in KindsLeft(cmd[r].kind)
    <2>1. OnPath(r)
      BY <1>1 DEF ListInv
    <2>2. QED
      BY <2>1 DEF OnPath, CommandSet
  <1>3. /\ Tail(kinds[r]) \in KindsLeft(cmd[r].kind)
        /\ Range(Tail(kinds[r])) = Range(kinds[r]) \ {k}
        /\ k \in Range(kinds[r]) /\ k \in KindSet
        /\ Tail(kinds[r]) = <<>> <=> ~ (Len(kinds[r]) > 1)
    BY <1>2, KindsGo
  <1>4. /\ pc'[r] = IF left # <<>> THEN "look"
                    ELSE IF Len(kinds[r]) > 1 THEN "any" ELSE "commit"
        /\ names'[r] = left
        /\ kinds'[r] = IF left = <<>> THEN Tail(kinds[r]) ELSE kinds[r]
        /\ bare'[r] = bare[r] \cup found
    BY <1>1
  <1>5. Elsewhere(r)
    BY <1>1 DEF Elsewhere
  <1>6. Columns'
    <2>1. Tail(kinds[r]) \in {Kinds, <<"income">>, <<"expense">>, <<>>}
      BY <1>2, <1>3 DEF KindSet, KindsLeft
    <2>2. kinds' \in [Requests -> {Kinds, <<"income">>, <<"expense">>, <<>>}]
      BY <2>1, <1>1
    <2>3. names' \in [Requests -> Seq(Names)]
      BY <1>1
    <2>4. bare' \in [Requests -> SUBSET KindSet]
      BY <1>3 DEF ListInv, Columns
    <2>5. QED
      BY <2>2, <2>3, <2>4, <1>1 DEF Columns
  <1>7. Unseen(r)' = Range(kinds[r]) \ {k} /\ Unseen(r)' \subseteq Unseen(r)
    <2>1. CASE left # <<>>
      BY <2>1, <1>1, <1>4 DEF Unseen
    <2>2. CASE left = <<>> /\ Len(kinds[r]) > 1
      BY <2>2, <1>1, <1>3, <1>4 DEF Unseen
    <2>3. CASE left = <<>> /\ ~ (Len(kinds[r]) > 1)
      BY <2>3, <1>1, <1>3, <1>4, ShortLists DEF Unseen
    <2>4. QED
      BY <2>1, <2>2, <2>3
  <1>8. BareSeen(r)'
    BY <1>1, <1>4, <1>7 DEF ListInv, BareSeen
  <1>9. OnPath(r)'
    BY <1>1, <1>2, <1>3, <1>4 DEF OnPath
  <1>10. Covered(r)'
    <2> SUFFICES ASSUME ~ Edited', NEW j \in Sought(r) \ Unseen(r)', NEW n \in Range(Wanted(r, j)')
                 PROVE  \/ Present(r, <<j, n>>)'
                        \/ /\ pc'[r] \in {"look", "insert"}
                           /\ j = Head(kinds'[r]) /\ n \in Range(names'[r])
      BY DEF Covered, Sought
    <2>1. ~ Edited
      BY <1>1, <1>5, StillUnedited DEF ListInv
    <2>2. CASE j = k
      <3>1. n \in Range(left) \/ Present(r, <<k, n>>)'
        BY <2>1, <2>2 DEF LeftOf
      <3>2. n \in Range(left) => left # <<>>
        BY ShortLists
      <3>3. QED
        BY <3>1, <3>2, <2>2, <1>4
    <2>3. CASE j # k
      <3>1. j \notin Range(kinds[r])
        BY <2>3, <1>7
      <3>2. j \notin Unseen(r) /\ Wanted(r, j)' = Wanted(r, j)
        BY <3>1, <2>3, <1>1, <1>4 DEF Unseen, Wanted
      <3>3. Present(r, <<j, n>>)
        BY <3>2, <2>1, <2>3, <1>1 DEF ListInv, Covered
      <3>4. QED
        BY <3>3 DEF PresentStays
    <2>4. QED
      BY <2>2, <2>3
  <1>11. Tables' /\ RowsStay /\ KeysStay
    BY DEF ListInv, TypeOK, Tables, KeysUnique, RowsStay, KeysStay
  <1>12. RowsAppear'
    <2> SUFFICES ASSUME NEW i \in DOMAIN category, i[1] # None PROVE pc'[i[1]] = "done"
      BY DEF RowsAppear
    <2>1. pc[i[1]] = "done" /\ i[1] \in Requests
      BY DEF ListInv, TypeOK, RowsAppear, CategoryIds
    <2>2. QED
      BY <2>1, <1>1, <1>5 DEF Elsewhere
  <1>13. Answers(r)'
    BY <1>1, <1>4 DEF ListInv, TypeOK, Answers
  <1>14. QED
    BY <1>1, <1>5, <1>6, <1>8, <1>9, <1>10, <1>11, <1>12, <1>13, Whole DEF Mine

\* A kind is looked at, or a name of it is there.
LEMMA ContinueKeeps ==
  ASSUME ListInv, IInv, NEW r \in Running, cmd[r].op = "list", kinds[r] # <<>>,
         NEW left \in Seq(Names), Continue(r, left),
         NEW k, k = Head(kinds[r]), NEW found, found \subseteq {k},
         bare' = [bare EXCEPT ![r] = bare[r] \cup found],
         UNCHANGED <<category, budget, cmd, row>>,
         ~ Edited /\ k \in Sought(r) =>
           \A n \in Range(Wanted(r, k)') : n \in Range(left) \/ Present(r, <<k, n>>)
  PROVE  ListInv'
  <1>1. /\ pc' = [pc EXCEPT ![r] = IF left # <<>> THEN "look"
                                   ELSE IF Len(kinds[r]) > 1 THEN "any" ELSE "commit"]
        /\ UNCHANGED <<reply, pending>>
        /\ names' = [names EXCEPT ![r] = left]
        /\ kinds' = [kinds EXCEPT ![r] = IF left = <<>> THEN Tail(@) ELSE @]
    BY DEF Continue, GoTo
  <1>2. r \in Requests /\ DOMAIN pending = Requests
    BY DEF Running, ListInv, Columns
  <1>3. Insertions(r)'
    BY <1>1, <1>2 DEF ListInv, Insertions, Taken, Free
  <1>4. KeysApart(r)
    <2> SUFFICES ASSUME NEW q \in Requests \ {r}, NEW i \in DOMAIN pending[q]
                 PROVE  /\ ~ Taken(<<i[2], i[3]>>, None)'
                        /\ \A j \in DOMAIN pending'[r] : Key(pending'[r][j]) # <<i[2], i[3]>>
      BY DEF KeysApart
    <2>1. ~ Taken(<<i[2], i[3]>>, None) /\ Free(q, <<i[2], i[3]>>)
      BY DEF ListInv, Insertions
    <2>2. QED
      BY <2>1, <1>1, <1>2 DEF Taken, Free
  <1>5. \A key : Present(r, key) <=> Present(r, key)'
    BY <1>1 DEF Present
  <1>6. ListStep(r, left, found)
    BY <1>1 DEF ListStep
  <1>7. PresentStays(r) /\ LeftOf(r, k, left)
    BY <1>5 DEF PresentStays, LeftOf
  <1>8. DOMAIN pending' = Requests /\ \A q \in Requests \ {r} : pending'[q] = pending[q]
    BY <1>1, <1>2
  <1>9. QED
    BY <1>3, <1>4, <1>6, <1>7, <1>8, ListGoes

\* A listing that is on its way has a kind, and a name if it is to look for one.
LEMMA Underway ==
  ASSUME ListInv, IInv, NEW r \in Requests, pc[r] \in {"any", "look", "insert"},
         pc[r] = "insert" => cmd[r].op = "list"
  PROVE  /\ r \in Running /\ cmd[r].op = "list" /\ kinds[r] # <<>> /\ Head(kinds[r]) \in KindSet
         /\ names[r] \in Seq(Names)
         /\ pc[r] \in {"look", "insert"} => names[r] # <<>>
  <1>1. r \in Running /\ OnPath(r) /\ names[r] \in Seq(Names)
    BY DEF ListInv, Columns, Running
  <1>2. /\ cmd[r].op = "list" /\ cmd[r] \in CommandSet
        /\ kinds[r] \in KindsLeft(cmd[r].kind) /\ kinds[r] # <<>>
        /\ pc[r] \in {"look", "insert"} => names[r] # <<>>
    BY <1>1 DEF OnPath
  <1>3. cmd[r].kind \in KindSet \cup {None}
    BY <1>2 DEF CommandSet
  <1>4. QED
    BY <1>1, <1>2, <1>3, KindsGo

\* A listing looks whether there is any category of the next kind.
LEMMA LookForAnyKeeps ==
  ASSUME ListInv, IInv, NEW r \in Requests, LookForAny(r)
  PROVE  ListInv'
  <1> DEFINE some == \E i \in DOMAIN category : category[i].kind = Head(kinds[r])
             left == IF some THEN Required[Head(kinds[r])] ELSE Defaults[Head(kinds[r])]
             found == IF some THEN {} ELSE {Head(kinds[r])}
  <1>1. /\ r \in Running /\ cmd[r].op = "list" /\ kinds[r] # <<>> /\ Head(kinds[r]) \in KindSet
        /\ pc[r] = "any"
    BY Underway DEF LookForAny
  <1>2. /\ Continue(r, left) /\ UNCHANGED <<category, budget, cmd, row>>
        /\ bare' = [bare EXCEPT ![r] = bare[r] \cup found]
    BY DEF LookForAny
  <1>3. left \in Seq(Names)
    BY <1>1, Given
  <1>4. PICK k : k = Head(kinds[r])
    OBVIOUS
  <1>5. Wanted(r, k)' = left
    <2>1. k \notin bare[r]
      <3>1. k \in Unseen(r)
        <4>1. OnPath(r)
          BY DEF ListInv
        <4>2. kinds[r] \in KindsLeft(cmd[r].kind) /\ cmd[r].kind \in KindSet \cup {None}
          BY <1>1, <4>1 DEF OnPath, CommandSet
        <4>3. QED
          BY <4>2, <1>1, <1>4, KindsGo DEF Unseen
      <3>2. QED
        BY <3>1 DEF ListInv, BareSeen
    <2>2. bare'[r] = bare[r] \cup found
      BY <1>2 DEF ListInv, Columns
    <2>3. QED
      BY <2>1, <2>2, <1>4 DEF Wanted
  <1>6. PICK l : l = left
    OBVIOUS
  <1>7. PICK f : f = found
    OBVIOUS
  <1> HIDE DEF some, left, found
  <1>8. found \subseteq {k}
    BY <1>4 DEF found
  <1>9. \A n \in Range(Wanted(r, k)') : n \in Range(l)
    BY <1>5, <1>6
  <1>10. Continue(r, l) /\ l \in Seq(Names)
    BY <1>2, <1>3, <1>6
  <1>11. bare' = [bare EXCEPT ![r] = bare[r] \cup f] /\ f \subseteq {k}
    BY <1>2, <1>7, <1>8
  <1>12. QED
    BY <1>1, <1>2, <1>4, <1>9, <1>10, <1>11, ContinueKeeps

\* A listing looks for a name.
LEMMA LookKeeps ==
  ASSUME ListInv, IInv, NEW r \in Requests, Look(r)
  PROVE  ListInv'
  <1>1. /\ r \in Running /\ cmd[r].op = "list" /\ kinds[r] # <<>> /\ Head(kinds[r]) \in KindSet
        /\ names[r] \in Seq(Names) /\ names[r] # <<>> /\ pc[r] = "look"
    BY Underway DEF Look
  <1> DEFINE there == Taken(<<Head(kinds[r]), Head(names[r])>>, None)
  <1>2. PICK k : k = Head(kinds[r])
    OBVIOUS
  <1>3. \A n \in Range(names[r]) : n = Head(names[r]) \/ n \in Range(Tail(names[r]))
    BY <1>1, HeadTail
  <1>4. CASE there
    <2>1. Continue(r, Tail(names[r])) /\ UNCHANGED <<category, budget, cmd, row, bare>>
      BY <1>4 DEF Look
    <2>2. PICK l : l = Tail(names[r])
      OBVIOUS
    <2>3. l \in Seq(Names)
      BY <1>1, <2>2, HeadTail
    <2>7. PICK f : f = {}
      OBVIOUS
    <2>4. bare' = [bare EXCEPT ![r] = bare[r] \cup f] /\ f \subseteq {k}
      BY <2>1, <2>7 DEF ListInv, Columns
    <2>5. ~ Edited /\ k \in Sought(r) =>
            \A n \in Range(Wanted(r, k)') : n \in Range(l) \/ Present(r, <<k, n>>)
      <3> SUFFICES ASSUME ~ Edited, k \in Sought(r), NEW n \in Range(Wanted(r, k))
                   PROVE  n \in Range(l) \/ Present(r, <<k, n>>)
        BY <2>1 DEF Wanted
      <3>1. Covered(r) /\ k \notin Unseen(r)
        BY <1>1, <1>2 DEF ListInv, Unseen
      <3>2. Present(r, <<k, n>>) \/ n \in Range(names[r])
        BY <3>1, <1>1 DEF Covered
      <3>3. Present(r, <<k, Head(names[r])>>)
        BY <1>4, <1>2 DEF Taken, Present
      <3>4. QED
        BY <3>2, <3>3, <2>2, <1>3
    <2>8. Continue(r, l) /\ UNCHANGED <<category, budget, cmd, row>>
      BY <2>1, <2>2
    <2>6. QED
      BY <1>1, <1>2, <2>8, <2>3, <2>4, <2>5, ContinueKeeps
  <1>5. CASE ~ there
    <2>1. /\ pc' = [pc EXCEPT ![r] = "insert"] /\ DOMAIN pc = Requests
          /\ UNCHANGED <<category, budget, cmd, row, bare, kinds, names, reply, pending>>
      BY <1>5 DEF Look, GoTo, IInv, HandlersOK
    <2>2. Elsewhere(r) /\ pc'[r] = "insert" /\ pc[r] # "done"
      BY <1>1, <2>1 DEF Elsewhere
    <2>3. Tables' /\ RowsStay /\ KeysStay /\ KeysApart(r) /\ RowsAppear'
      BY <2>1, <2>2, NoWrite
    <2>4. Answers(r)' /\ Columns'
      BY <1>1, <2>1, <2>2 DEF ListInv, TypeOK, Answers, Columns
    <2>5. OnPath(r)' /\ Insertions(r)' /\ BareSeen(r)' /\ Covered(r)'
      <3>1. OnPath(r) /\ Insertions(r) /\ BareSeen(r) /\ Covered(r)
        BY DEF ListInv
      <3>2. OnPath(r)' /\ Insertions(r)'
        BY <3>1, <1>1, <2>1, <2>2 DEF OnPath, Insertions, Taken, Free, Running
      <3>3. BareSeen(r)'
        BY <3>1, <1>1, <2>1, <2>2 DEF BareSeen, Unseen
      <3>4. Edited' <=> Edited
        BY <2>1 DEF Edited
      <3>5. Unseen(r)' = Unseen(r)
        BY <1>1, <2>1, <2>2 DEF Unseen
      <3>6. Covered(r)'
        <4> SUFFICES ASSUME ~ Edited, NEW j \in Sought(r) \ Unseen(r),
                            NEW n \in Range(Wanted(r, j))
                     PROVE  Present(r, <<j, n>>) \/ (j = Head(kinds[r]) /\ n \in Range(names[r]))
          BY <2>1, <2>2, <3>4, <3>5 DEF Covered, Sought, Wanted, Present
        <4>1. QED
          BY <3>1, <1>1 DEF Covered
      <3>7. QED
        BY <3>2, <3>3, <3>6
    <2>6. QED
      BY <2>2, <2>3, <2>4, <2>5, Whole DEF Mine
  <1>6. QED
    BY <1>4, <1>5

\* A listing inserts a name.
LEMMA InsertKeeps ==
  ASSUME ListInv, IInv, NEW r \in Requests, Insert(r)
  PROVE  ListInv'
  <1>1. /\ r \in Running /\ cmd[r].op = "list" /\ kinds[r] # <<>> /\ Head(kinds[r]) \in KindSet
        /\ names[r] \in Seq(Names) /\ names[r] # <<>> /\ pc[r] = "insert"
    BY Underway DEF Insert
  <1> DEFINE new == [kind |-> Head(kinds[r]), name |-> Head(names[r]), archived |-> FALSE]
             id == <<r, new.kind, new.name>>
             there == Taken(Key(new), None)
  <1>2. new \in Categories /\ Key(new) = <<Head(kinds[r]), Head(names[r])>> /\ id \in CategoryIds
    BY <1>1, HeadTail DEF Categories, Key, CategoryIds
  <1>3. CASE there
    <2>1. Answer(r, "error") /\ UNCHANGED <<category, budget, cmd, kinds, names, bare, row>>
      BY <1>3 DEF Insert
    <2>2. QED
      BY <1>1, <2>1, EndKeeps DEF ListInv, Columns
  <1>4. CASE ~ there
    <2>1. PICK k : k = Head(kinds[r])
      OBVIOUS
    <2>2. PICK l : l = Tail(names[r])
      OBVIOUS
    <2>3. /\ l \in Seq(Names)
          /\ Len(names[r]) > 1 <=> l # <<>>
          /\ Len(names[r]) = 1 <=> l = <<>>
          /\ \A n \in Range(names[r]) : n = Head(names[r]) \/ n \in Range(l)
      BY <1>1, <2>2, HeadTail
    <2>4. /\ pending' = [pending EXCEPT ![r] = With(pending[r], [i \in {id} |-> new])]
          /\ names' = [names EXCEPT ![r] = Tail(names[r])]
          /\ kinds' = [kinds EXCEPT ![r] = IF Len(names[r]) = 1 THEN Tail(kinds[r]) ELSE kinds[r]]
          /\ pc' = [pc EXCEPT ![r] = IF Len(names[r]) > 1 THEN "look"
                                  ELSE IF Len(kinds[r]) > 1 THEN "any" ELSE "commit"]
          /\ UNCHANGED <<category, budget, cmd, row, bare, reply>>
          /\ Free(r, Key(new))
      BY <1>4 DEF Insert
    <2>5. /\ DOMAIN pending = Requests /\ DOMAIN pending' = Requests
          /\ \A q \in Requests \ {r} : pending'[q] = pending[q]
          /\ pending'[r] = With(pending[r], [i \in {id} |-> new])
      BY <2>4 DEF ListInv, Columns
    <2>6. /\ DOMAIN pending'[r] = DOMAIN pending[r] \cup {id}
          /\ \A i \in DOMAIN pending'[r] :
               pending'[r][i] = IF i = id THEN new ELSE pending[r][i]
      BY <2>5 DEF With
    <2>7. id[1] = r /\ <<id[2], id[3]>> = Key(new)
      BY <1>2
    <2> HIDE DEF id, new, there
    <2>8. Insertions(r)'
      <3> SUFFICES ASSUME NEW i \in DOMAIN pending'[r]
                   PROVE  /\ i \in {r} \X KindSet \X Names
                          /\ pending'[r][i] \in Categories
                          /\ Key(pending'[r][i]) = <<i[2], i[3]>>
                          /\ ~ Taken(<<i[2], i[3]>>, None)'
                          /\ Free(r, <<i[2], i[3]>>)'
        BY DEF Insertions
      <3>1. Insertions(r)
        BY DEF ListInv
      <3>2. CASE i = id
        <4>1. i \in {r} \X KindSet \X Names
          BY <3>2, <1>1, HeadTail DEF id, new
        <4>2. ~ Taken(<<i[2], i[3]>>, None)' /\ Free(r, <<i[2], i[3]>>)'
          BY <3>2, <2>4, <2>5, <2>7, <1>4 DEF Taken, Free, there
        <4>3. QED
          BY <3>2, <4>1, <4>2, <2>6, <2>7, <1>2
      <3>3. CASE i # id
        BY <3>1, <3>3, <2>4, <2>5, <2>6 DEF Insertions, Taken, Free
      <3>4. QED
        BY <3>2, <3>3
    <2>9. KeysApart(r)
      <3> SUFFICES ASSUME NEW q \in Requests \ {r}, NEW i \in DOMAIN pending[q]
                   PROVE  /\ ~ Taken(<<i[2], i[3]>>, None)'
                          /\ \A j \in DOMAIN pending'[r] : Key(pending'[r][j]) # <<i[2], i[3]>>
        BY DEF KeysApart
      <3>1. /\ ~ Taken(<<i[2], i[3]>>, None) /\ Free(q, <<i[2], i[3]>>)
            /\ Key(pending[q][i]) = <<i[2], i[3]>>
        BY DEF ListInv, Insertions
      <3>2. Key(new) # <<i[2], i[3]>>
        BY <3>1, <2>4 DEF Free
      <3>3. QED
        BY <3>1, <3>2, <2>4, <2>6 DEF Taken, Free
    <2>10. PresentStays(r)
      <3> SUFFICES ASSUME NEW key, Present(r, key) PROVE Present(r, key)'
        BY DEF PresentStays
      <3>1. \A i \in DOMAIN pending[r] : Key(pending[r][i]) = Key(pending'[r][i])
        <4>1. \A i \in DOMAIN pending[r] : Key(pending[r][i]) = <<i[2], i[3]>>
          BY DEF ListInv, Insertions
        <4>2. QED
          BY <4>1, <2>6, <2>7
      <3>2. QED
        BY <3>1, <2>4, <2>6 DEF Present
    <2>11. LeftOf(r, k, l)
      <3> SUFFICES ASSUME ~ Edited, k \in Sought(r), NEW n \in Range(Wanted(r, k))
                   PROVE  n \in Range(l) \/ Present(r, <<k, n>>)'
        BY <2>4 DEF Wanted, LeftOf
      <3>1. Covered(r) /\ k \notin Unseen(r)
        BY <1>1, <2>1 DEF ListInv, Unseen
      <3>2. Present(r, <<k, n>>) \/ n \in Range(names[r])
        BY <3>1, <1>1 DEF Covered
      <3>3. PICK h : h = Head(names[r])
        OBVIOUS
      <3>4. Present(r, <<k, h>>)'
        BY <2>6, <1>2, <2>1, <3>3 DEF Present
      <3>5. QED
        BY <3>2, <3>3, <3>4, <2>3, <2>10 DEF PresentStays
    <2>12. PICK f : f = {}
      OBVIOUS
    <2>13. ListStep(r, l, f)
      <3>1. (IF Len(names[r]) > 1 THEN "look"
             ELSE IF Len(kinds[r]) > 1 THEN "any" ELSE "commit")
            = (IF l # <<>> THEN "look" ELSE IF Len(kinds[r]) > 1 THEN "any" ELSE "commit")
        <4>1. CASE l = <<>>
          BY <4>1, <2>3
        <4>2. CASE l # <<>>
          BY <4>2, <2>3
        <4>3. QED
          BY <4>1, <4>2
      <3>2. (IF Len(names[r]) = 1 THEN Tail(kinds[r]) ELSE kinds[r])
            = (IF l = <<>> THEN Tail(kinds[r]) ELSE kinds[r])
        BY <2>3
      <3>3. bare' = [bare EXCEPT ![r] = bare[r] \cup f]
        BY <2>4, <2>12 DEF ListInv, Columns
      <3>4. QED
        BY <3>1, <3>2, <3>3, <2>2, <2>4 DEF ListStep
    <2>14. f \subseteq {k}
      BY <2>12
    <2>15. r \in Running /\ cmd[r].op = "list" /\ kinds[r] # <<>> /\ l \in Seq(Names)
      BY <1>1, <2>3
    <2>16. DOMAIN pending' = Requests /\ \A q \in Requests \ {r} : pending'[q] = pending[q]
      BY <2>5
    <2>17. QED
      BY <2>1, <2>8, <2>9, <2>10, <2>11, <2>13, <2>14, <2>15, <2>16, ListGoes
  <1>5. QED
    BY <1>3, <1>4

-----------------------------------------------------------------------------
\* What a commit leaves when it writes rows that are new or keep their keys.
LEMMA CommitListKeeps ==
  ASSUME ListInv, IInv, NEW r \in Requests, CommitList(r)
  PROVE  ListInv'
  <1>1. /\ r \in Running /\ Answer(r, "ok")
        /\ UNCHANGED <<budget, cmd, kinds, names, bare, row>>
        /\ category' = With(category, pending[r])
    BY DEF CommitList, handlerVars, Running
  <1>2. /\ Elsewhere(r) /\ Mine(r)' /\ Answers(r)' /\ Columns' /\ pc[r] # "done"
        /\ pending'[r] = NoRows
    BY <1>1, EndMine DEF ListInv, Columns
  <1>3. Insertions(r) /\ TypeOK
    BY DEF ListInv
  <1>4. \A i \in DOMAIN category : i \notin DOMAIN pending[r]
    <2> SUFFICES ASSUME NEW i \in DOMAIN category, i \in DOMAIN pending[r] PROVE FALSE
      OBVIOUS
    <2>1. i[1] = r
      BY <1>3 DEF Insertions
    <2>2. QED
      BY <2>1, <1>2, Given DEF ListInv, RowsAppear
  <1>5. /\ DOMAIN category' = DOMAIN category \cup DOMAIN pending[r]
        /\ \A i \in DOMAIN category : category'[i] = category[i]
        /\ \A i \in DOMAIN pending[r] : category'[i] = pending[r][i]
    BY <1>1, <1>4 DEF With
  <1>6. \A i \in DOMAIN pending[r] :
          /\ i \in CategoryIds /\ pending[r][i] \in Categories
          /\ Key(pending[r][i]) = <<i[2], i[3]>> /\ i = <<r, i[2], i[3]>>
          /\ \A j \in DOMAIN category : Key(category[j]) # <<i[2], i[3]>>
    <2> SUFFICES ASSUME NEW i \in DOMAIN pending[r]
                 PROVE  /\ i \in CategoryIds /\ pending[r][i] \in Categories
                        /\ Key(pending[r][i]) = <<i[2], i[3]>> /\ i = <<r, i[2], i[3]>>
                        /\ \A j \in DOMAIN category : Key(category[j]) # <<i[2], i[3]>>
      OBVIOUS
    <2>1. /\ i \in {r} \X KindSet \X Names /\ pending[r][i] \in Categories
          /\ Key(pending[r][i]) = <<i[2], i[3]>> /\ ~ Taken(<<i[2], i[3]>>, None)
      BY <1>3 DEF Insertions
    <2>2. \A j \in DOMAIN category : j # None
      BY <1>3, Given DEF TypeOK
    <2>3. QED
      BY <2>1, <2>2 DEF Taken, CategoryIds
  <1>7. Tables'
    <2>1. \A i \in DOMAIN category' : i \in CategoryIds /\ category'[i] \in Categories
      BY <1>3, <1>5, <1>6 DEF TypeOK
    <2>2. \A i \in DOMAIN budget' : i \in BudgetIds /\ budget'[i] \in Budgets
      BY <1>1, <1>3 DEF TypeOK
    <2>3. KeysUnique'
      <3> SUFFICES ASSUME NEW i \in DOMAIN category', NEW j \in DOMAIN category',
                          Key(category'[i]) = Key(category'[j])
                   PROVE  i = j
        BY DEF KeysUnique
      <3>1. CASE i \in DOMAIN category /\ j \in DOMAIN category
        BY <3>1, <1>3, <1>5 DEF TypeOK, KeysUnique
      <3>2. CASE i \in DOMAIN pending[r] /\ j \in DOMAIN pending[r]
        BY <3>2, <1>5, <1>6
      <3>3. CASE i \in DOMAIN pending[r] /\ j \in DOMAIN category
        BY <3>3, <1>5, <1>6
      <3>4. CASE i \in DOMAIN category /\ j \in DOMAIN pending[r]
        BY <3>4, <1>5, <1>6
      <3>5. QED
        BY <3>1, <3>2, <3>3, <3>4, <1>5
    <2>4. QED
      BY <2>1, <2>2, <2>3 DEF Tables
  <1>8. RowsStay /\ KeysStay
    BY <1>1, <1>5 DEF RowsStay, KeysStay
  <1>9. KeysApart(r)
    <2> SUFFICES ASSUME NEW q \in Requests \ {r}, NEW i \in DOMAIN pending[q]
                 PROVE  ~ Taken(<<i[2], i[3]>>, None)'
      BY <1>2 DEF KeysApart, NoRows
    <2>1. ~ Taken(<<i[2], i[3]>>, None) /\ Free(q, <<i[2], i[3]>>)
      BY DEF ListInv, Insertions
    <2>2. \A j \in DOMAIN pending[r] : Key(pending[r][j]) # <<i[2], i[3]>>
      BY <2>1 DEF Free
    <2>3. QED
      BY <2>1, <2>2, <1>5 DEF Taken
  <1>10. RowsAppear'
    <2> SUFFICES ASSUME NEW i \in DOMAIN category', i[1] # None PROVE pc'[i[1]] = "done"
      BY DEF RowsAppear
    <2>1. pc'[r] = "done"
      BY <1>1 DEF Answer, IInv, HandlersOK
    <2>2. CASE i \in DOMAIN pending[r]
      BY <2>1, <2>2, <1>3 DEF Insertions
    <2>3. CASE i \in DOMAIN category
      <3>1. pc[i[1]] = "done" /\ i[1] \in Requests
        BY <2>3, <1>3 DEF ListInv, TypeOK, RowsAppear, CategoryIds
      <3>2. QED
        BY <3>1, <1>2 DEF Elsewhere
    <2>4. QED
      BY <2>2, <2>3, <1>5
  <1>11. QED
    BY <1>2, <1>7, <1>8, <1>9, <1>10, Whole

\* One row is written whose key no other has.
LEMMA WriteKeeps ==
  ASSUME ListInv, IInv, NEW r \in Running, Answer(r, "ok"),
         UNCHANGED <<budget, cmd, kinds, names, bare, row>>,
         NEW id, id \in CategoryIds, NEW new, new \in Categories,
         id[1] = r \/ id \in DOMAIN category,
         DOMAIN category' = DOMAIN category \cup {id}, category'[id] = new,
         \A i \in DOMAIN category \ {id} : category'[i] = category[i],
         ~ Taken(Key(new), id), Free(r, Key(new)),
         id \in DOMAIN category => Edited' \/ Key(new) = Key(category[id])
  PROVE  ListInv'
  <1>1. /\ Elsewhere(r) /\ Mine(r)' /\ Answers(r)' /\ Columns' /\ pc[r] # "done"
        /\ pending'[r] = NoRows /\ r \in Requests
    BY EndMine DEF ListInv, Columns, Running
  <1>2. TypeOK
    BY DEF ListInv
  <1>3. \A j \in DOMAIN category \ {id} : Key(category[j]) # Key(new)
    BY DEF Taken
  <1>4. Tables'
    BY <1>2, <1>3 DEF TypeOK, Tables, KeysUnique
  <1>5. RowsStay /\ KeysStay
    BY DEF RowsStay, KeysStay
  <1>6. KeysApart(r)
    <2> SUFFICES ASSUME NEW q \in Requests \ {r}, NEW i \in DOMAIN pending[q]
                 PROVE  ~ Taken(<<i[2], i[3]>>, None)'
      BY <1>1 DEF KeysApart, NoRows
    <2>1. ~ Taken(<<i[2], i[3]>>, None) /\ Key(pending[q][i]) = <<i[2], i[3]>>
      BY DEF ListInv, Insertions
    <2>2. Key(new) # <<i[2], i[3]>>
      BY <2>1 DEF Free
    <2>3. QED
      BY <2>1, <2>2 DEF Taken
  <1>7. RowsAppear'
    <2> SUFFICES ASSUME NEW i \in DOMAIN category', i[1] # None PROVE pc'[i[1]] = "done"
      BY DEF RowsAppear
    <2>1. pc'[r] = "done"
      BY <1>1 DEF Answer, IInv, HandlersOK
    <2>2. CASE i \in DOMAIN category
      <3>1. pc[i[1]] = "done" /\ i[1] \in Requests
        BY <2>2, <1>2 DEF ListInv, TypeOK, RowsAppear, CategoryIds
      <3>2. QED
        BY <3>1, <1>1 DEF Elsewhere
    <2>3. QED
      BY <2>1, <2>2
  <1>8. QED
    BY <1>1, <1>4, <1>5, <1>6, <1>7, Whole

\* A category is created, or its name is taken.
LEMMA CommitCategoryKeeps ==
  ASSUME ListInv, IInv, NEW r \in Requests, CommitCategory(r)
  PROVE  ListInv'
  <1> DEFINE row0 == cmd[r].row
             id0 == <<r, row0.kind, row0.name>>
  <1>1. /\ r \in Running /\ UNCHANGED <<budget, cmd, kinds, names, bare, row>>
        /\ DOMAIN row = Requests
    BY DEF CommitCategory, Running, handlerVars, ListInv, Columns
  <1>2. row0 \in Categories /\ id0 \in CategoryIds
    <2>1. OnPath(r) /\ cmd[r].op = "create"
      BY DEF ListInv, CommitCategory
    <2>2. cmd[r] \in CommandSet
      BY <2>1, <1>1 DEF OnPath
    <2>3. QED
      BY <2>1, <2>2 DEF CommandSet, Categories, CategoryIds
  <1>3. CASE Taken(Key(row0), None)
    <2>1. Answer(r, "conflict") /\ UNCHANGED category
      BY <1>3 DEF CommitCategory
    <2>2. QED
      BY <1>1, <2>1, EndKeeps
  <1>4. CASE ~ Taken(Key(row0), None)
    <2>1. PICK id : id = id0
      OBVIOUS
    <2>2. PICK new : new = row0
      OBVIOUS
    <2>3. /\ Answer(r, "ok") /\ Free(r, Key(new))
          /\ category' = With(category, [i \in {id} |-> new])
      BY <1>4, <2>1, <2>2 DEF CommitCategory
    <2>4. id \in CategoryIds /\ id[1] = r /\ new \in Categories
      BY <2>1, <2>2, <1>2
    <2>5. id \notin DOMAIN category
      BY <2>4, <1>1, Given DEF ListInv, RowsAppear, Running
    <2>6. /\ DOMAIN category' = DOMAIN category \cup {id} /\ category'[id] = new
          /\ \A i \in DOMAIN category \ {id} : category'[i] = category[i]
      BY <2>3 DEF With
    <2>7. ~ Taken(Key(new), id)
      <3>1. \A j \in DOMAIN category : j # None
        BY Given DEF ListInv, TypeOK
      <3>2. QED
        BY <3>1, <1>4, <2>2 DEF Taken
    <2>8. QED
      BY <1>1, <2>3, <2>4, <2>5, <2>6, <2>7, WriteKeeps
  <1>5. QED
    BY <1>3, <1>4

\* A change of some columns of a row that was loaded, over a row that may have become another.
LEMMA CategoryWritten ==
  ASSUME NEW r, cmd[r].op \in {"edit", "archive"}, cmd[r] \in CommandSet,
         row[r] \in Categories, NEW now \in Categories
  PROVE  /\ Written(r, now) \in Categories
         /\ cmd[r].op = "archive" => Key(Written(r, now)) = Key(now)
  <1> DEFINE fields == {"kind", "name", "archived"}
             p == Patch(row[r], Change(r))
  <1>1. \A c \in Categories : /\ DOMAIN c = fields
                              /\ c["kind"] \in KindSet /\ c["name"] \in Names
                              /\ c["archived"] \in BOOLEAN
    BY DEF Categories
  <1>2. \A c : /\ c = [f \in fields |-> c[f]]
               /\ c["kind"] \in KindSet /\ c["name"] \in Names /\ c["archived"] \in BOOLEAN
               => c \in Categories
    BY DEF Categories
  <1>3. /\ p = [f \in fields |-> p[f]]
        /\ p["kind"] \in KindSet /\ p["name"] \in Names /\ p["archived"] \in BOOLEAN
        /\ cmd[r].op = "archive" => p["kind"] = row[r]["kind"] /\ p["name"] = row[r]["name"]
    <2>1. CASE cmd[r].op = "archive"
      BY <2>1, <1>1 DEF Patch, Change
    <2>2. CASE cmd[r].op = "edit"
      <3>1. cmd[r].change \in [{"kind"} -> KindSet] \cup [{"name"} -> Names]
        BY <2>2 DEF CommandSet
      <3>2. QED
        BY <2>2, <3>1, <1>1 DEF Patch, Change
    <2>3. QED
      BY <2>1, <2>2
  <1>4. /\ Written(r, now) = [f \in fields |-> IF p[f] # row[r][f] THEN p[f] ELSE now[f]]
    BY <1>1 DEF Written
  <1> HIDE DEF p
  <1>5. Written(r, now) \in Categories
    BY <1>1, <1>2, <1>3, <1>4
  <1>6. cmd[r].op = "archive" => Key(Written(r, now)) = Key(now)
    BY <1>3, <1>4 DEF Key
  <1>7. QED
    BY <1>5, <1>6

\* The same for a budget.
LEMMA BudgetWritten ==
  ASSUME NEW r, cmd[r].op \in {"edit_budget", "archive_budget"}, cmd[r] \in CommandSet,
         row[r] \in Budgets, NEW now \in Budgets
  PROVE  Written(r, now) \in Budgets
  <1> DEFINE fields == {"scope", "type", "from", "to", "archived"}
             p == Patch(row[r], Change(r))
             Good(b) == /\ b["scope"] \in CategoryIds \cup {None}
                        /\ b["type"] \in {"monthly", "custom"}
                        /\ b["from"] \in Dates /\ b["to"] \in Dates /\ b["archived"] \in BOOLEAN
  <1>1. \A c \in Budgets : DOMAIN c = fields /\ Good(c)
    BY DEF Budgets
  <1>2. \A c : c = [f \in fields |-> c[f]] /\ Good(c) => c \in Budgets
    BY DEF Budgets
  <1>3. p = [f \in fields |-> p[f]] /\ Good(p)
    <2>1. CASE cmd[r].op = "archive_budget"
      <3>1. p = [f \in fields |-> IF f = "archived" THEN TRUE ELSE row[r][f]]
        BY <2>1, <1>1 DEF Patch, Change
      <3>2. QED
        BY <3>1, <1>1
    <2>2. CASE cmd[r].op = "edit_budget"
      <3>1. \/ cmd[r].change \in [{"scope"} -> CategoryIds \cup {None}]
            \/ cmd[r].change \in [{"type"} -> {"monthly", "custom"}]
            \/ cmd[r].change \in [{"from"} -> Dates]
            \/ cmd[r].change \in [{"to"} -> Dates]
            \/ cmd[r].change \in [{"from", "to"} -> Dates]
        BY <2>2 DEF CommandSet
      <3>2. DOMAIN cmd[r].change \subseteq fields
            /\ \A f \in DOMAIN cmd[r].change :
                 /\ f = "scope" => cmd[r].change[f] \in CategoryIds \cup {None}
                 /\ f = "type" => cmd[r].change[f] \in {"monthly", "custom"}
                 /\ f \in {"from", "to"} => cmd[r].change[f] \in Dates
                 /\ f # "archived"
        BY <3>1
      <3>3. p = [f \in fields |-> IF f \in DOMAIN cmd[r].change THEN cmd[r].change[f]
                                  ELSE row[r][f]]
        BY <2>2, <1>1 DEF Patch, Change
      <3>4. QED
        BY <3>2, <3>3, <1>1
    <2>3. QED
      BY <2>1, <2>2
  <1>4. Written(r, now) = [f \in fields |-> IF p[f] # row[r][f] THEN p[f] ELSE now[f]]
    BY <1>1 DEF Written
  <1> HIDE DEF p
  <1>5. QED
    BY <1>1, <1>2, <1>3, <1>4

\* A category is changed, or its new name is taken.
LEMMA CommitEditKeeps ==
  ASSUME ListInv, IInv, NEW r \in Requests, CommitEdit(r)
  PROVE  ListInv'
  <1>1. /\ r \in Running /\ UNCHANGED <<budget, cmd, kinds, names, bare, row>>
        /\ DOMAIN row = Requests /\ cmd[r].op \in {"edit", "archive"} /\ pc[r] = "commit"
    BY DEF CommitEdit, Running, handlerVars, ListInv, Columns
  <1>2. cmd[r] \in CommandSet /\ cmd[r].id \in DOMAIN category /\ row[r] \in Categories
    <2>1. OnPath(r)
      BY DEF ListInv
    <2>2. QED
      BY <2>1, <1>1 DEF OnPath
  <1>3. PICK id : id = cmd[r].id
    OBVIOUS
  <1>4. PICK new : new = Written(r, category[id])
    OBVIOUS
  <1>5. id \in DOMAIN category /\ id \in CategoryIds /\ category[id] \in Categories
    BY <1>2, <1>3 DEF ListInv, TypeOK
  <1>6. new \in Categories /\ (cmd[r].op = "archive" => Key(new) = Key(category[id]))
    BY <1>1, <1>2, <1>4, <1>5, CategoryWritten
  <1>7. CASE Taken(Key(new), id)
    <2>1. Answer(r, "conflict") /\ UNCHANGED category
      BY <1>3, <1>4, <1>7 DEF CommitEdit
    <2>2. QED
      BY <1>1, <2>1, EndKeeps
  <1>8. CASE ~ Taken(Key(new), id)
    <2>1. /\ Answer(r, "ok") /\ Free(r, Key(new))
          /\ category' = [category EXCEPT ![id] = new]
      BY <1>3, <1>4, <1>8 DEF CommitEdit
    <2>2. /\ DOMAIN category' = DOMAIN category \cup {id} /\ category'[id] = new
          /\ \A i \in DOMAIN category \ {id} : category'[i] = category[i]
      BY <2>1, <1>5
    <2>3. Edited' \/ Key(new) = Key(category[id])
      <3>1. reply'[r] = "ok" /\ cmd'[r] = cmd[r]
        BY <1>1, <2>1 DEF Answer, IInv, HandlersOK
      <3>2. QED
        BY <3>1, <1>1, <1>6 DEF Edited
    <2>4. QED
      BY <1>1, <1>5, <1>6, <1>8, <2>1, <2>2, <2>3, WriteKeeps
  <1>9. QED
    BY <1>7, <1>8

\* An edit or an archiving loads its row.
LEMMA LoadKeeps ==
  ASSUME ListInv, IInv, NEW r \in Requests, Load(r)
  PROVE  ListInv'
  <1> DEFINE c == cmd[r]
             loaded == IF c.op \in {"edit", "archive"} THEN category[c.id] ELSE budget[c.id]
  <1>1. /\ r \in Running /\ UNCHANGED <<category, budget, cmd, kinds, names, bare>>
        /\ pc[r] = "load" /\ row' = [row EXCEPT ![r] = loaded] /\ DOMAIN row = Requests
    BY DEF Load, Running, ListInv, Columns
  <1>2. /\ DOMAIN row' = Requests /\ row'[r] = loaded
        /\ \A q \in Requests \ {r} : row'[q] = row[q]
    BY <1>1
  <1>3. OnPath(r) /\ c.op # "list"
    BY <1>1 DEF ListInv, OnPath
  <1>4. CASE Answer(r, "ok")
    BY <1>1, <1>2, <1>4, EndKeeps
  <1>5. ASSUME NEW place \in {"category", "commit"}, GoTo(r, place)
        PROVE  ListInv'
    <2>1. pc'[r] = place
      BY <1>5 DEF GoTo, IInv, HandlersOK
    <2>2. OnPath(r)'
      <3>1. c.op \in {"edit", "archive"} => c.id \in DOMAIN category /\ loaded \in Categories
        BY <1>1, <1>3 DEF OnPath, ListInv, TypeOK
      <3>2. c.op \in {"edit_budget", "archive_budget"} =>
              c.id \in DOMAIN budget /\ loaded \in Budgets
        BY <1>1, <1>3 DEF OnPath, ListInv, TypeOK
      <3>3. cmd[r] \in CommandSet
        BY <1>1, <1>3 DEF OnPath
      <3> HIDE DEF loaded
      <3>4. QED
        BY <1>1, <1>2, <1>3, <2>1, <3>1, <3>2, <3>3 DEF OnPath
    <2>3. QED
      BY <1>1, <1>2, <1>3, <1>5, <2>2, MoveKeeps
  <1>6. Answer(r, "ok") \/ GoTo(r, "category") \/ GoTo(r, "commit")
    BY ZenonT(30) DEF Load
  <1>7. QED
    BY <1>4, <1>5, <1>6

\* The scope and the period of a budget are checked.
LEMMA CheckBudgetKeeps ==
  ASSUME ListInv, IInv, NEW r \in Requests, CheckBudget(r)
  PROVE  ListInv'
  <1>1. /\ r \in Running /\ UNCHANGED <<category, budget, cmd, kinds, names, bare, row>>
        /\ pc[r] = "category" /\ DOMAIN row = Requests
    BY DEF CheckBudget, Running, handlerVars, ListInv, Columns
  <1>2. OnPath(r) /\ cmd[r].op # "list"
    BY <1>1 DEF ListInv, OnPath
  <1>3. CASE GoTo(r, "commit")
    <2>1. pc'[r] = "commit"
      BY <1>3 DEF GoTo, IInv, HandlersOK
    <2>2. OnPath(r)'
      BY <1>1, <1>2, <2>1 DEF OnPath
    <2>3. QED
      BY <1>1, <1>2, <1>3, <2>2, MoveKeeps
  <1>4. CASE Answer(r, "refused")
    BY <1>1, <1>4, EndKeeps
  <1>5. QED
    BY <1>3, <1>4 DEF CheckBudget

\* A budget is written, or the constraints of its table refuse it.
LEMMA CommitBudgetKeeps ==
  ASSUME ListInv, IInv, NEW r \in Requests, CommitBudget(r)
  PROVE  ListInv'
  <1>1. /\ r \in Running /\ UNCHANGED <<category, cmd, kinds, names, bare, row>>
        /\ DOMAIN row = Requests /\ pc[r] = "commit"
        /\ cmd[r].op \in {"create_budget", "edit_budget", "archive_budget"}
    BY DEF CommitBudget, Running, handlerVars, ListInv, Columns
  <1> DEFINE id == IF cmd[r].op = "create_budget" THEN r ELSE cmd[r].id
             new == IF cmd[r].op = "create_budget" THEN cmd[r].row ELSE Written(r, budget[id])
             accepted == BudgetAccepted(new, {budget[i] : i \in DOMAIN budget \ {id}})
  <1>2. new \in Budgets /\ id \in BudgetIds
    <2>1. OnPath(r)
      BY DEF ListInv
    <2>2. cmd[r] \in CommandSet
      BY <2>1, <1>1 DEF OnPath
    <2>3. CASE cmd[r].op = "create_budget"
      BY <2>2, <2>3 DEF CommandSet, BudgetIds
    <2>4. CASE cmd[r].op # "create_budget"
      <3>1. id \in DOMAIN budget /\ row[r] \in Budgets
        BY <2>1, <2>4, <1>1 DEF OnPath
      <3>2. id \in BudgetIds /\ budget[id] \in Budgets
        BY <3>1 DEF ListInv, TypeOK
      <3>3. QED
        BY <2>2, <2>4, <3>1, <3>2, <1>1, BudgetWritten
    <2>5. QED
      BY <2>3, <2>4
  <1>3. CASE ~ accepted
    <2>1. Answer(r, "conflict") /\ UNCHANGED budget
      BY <1>3 DEF CommitBudget
    <2>2. QED
      BY <1>1, <2>1, EndKeeps
  <1>4. CASE accepted
    <2>1. budget' = With(budget, [i \in {id} |-> new]) /\ Answer(r, "ok")
      BY <1>4 DEF CommitBudget
    <2> HIDE DEF id, new, accepted
    <2>2. /\ Elsewhere(r) /\ Mine(r)' /\ Answers(r)' /\ Columns' /\ pc[r] # "done"
          /\ pending'[r] = NoRows
      BY <1>1, <2>1, EndMine
    <2>3. /\ DOMAIN budget' = DOMAIN budget \cup {id}
          /\ \A i \in DOMAIN budget' : budget'[i] = IF i = id THEN new ELSE budget[i]
      BY <2>1 DEF With
    <2>4. Tables'
      BY <1>1, <1>2, <2>3 DEF ListInv, TypeOK, Tables, KeysUnique
    <2>5. RowsStay /\ KeysStay
      BY <1>1, <2>3 DEF RowsStay, KeysStay
    <2>6. KeysApart(r)
      <3>1. \A q \in Requests \ {r} : \A i \in DOMAIN pending[q] : ~ Taken(<<i[2], i[3]>>, None)
        BY DEF ListInv, Insertions
      <3>2. QED
        BY <3>1, <2>2, <1>1 DEF KeysApart, NoRows, Taken
    <2>7. RowsAppear'
      <3> SUFFICES ASSUME NEW i \in DOMAIN category, i[1] # None PROVE pc'[i[1]] = "done"
        BY <1>1 DEF RowsAppear
      <3>1. pc[i[1]] = "done" /\ i[1] \in Requests
        BY DEF ListInv, TypeOK, RowsAppear, CategoryIds
      <3>2. QED
        BY <3>1, <2>2 DEF Elsewhere
    <2>8. QED
      BY <2>2, <2>4, <2>5, <2>6, <2>7, Whole
  <1>5. QED
    BY <1>3, <1>4

\* A handler is lost.
LEMMA AbortKeeps ==
  ASSUME ListInv, IInv, NEW r \in Requests, Abort(r)
  PROVE  ListInv'
  <1>1. /\ r \in Running /\ Answer(r, "aborted")
        /\ UNCHANGED <<category, budget, cmd, kinds, names, bare, row>> /\ DOMAIN row = Requests
    BY DEF Abort, Running, handlerVars, ListInv, Columns
  <1>2. QED
    BY <1>1, EndKeeps

\* To begin with nothing runs, and the tables are in order.
LEMMA InitListInv == Init => ListInv
  <1> SUFFICES ASSUME Init PROVE ListInv
    OBVIOUS
  <1>1. PICK s \in Start : category = s.category /\ budget = s.budget
    BY DEF Init
  <1>2. Consistent(s)
    BY CatalogAssumption DEF CatalogAssumption
  <1>3. TypeOK
    BY <1>1, <1>2 DEF Init, TypeOK, Consistent, CategoryIds, KeysUnique
  <1>4. Columns
    BY DEF Init, Columns
  <1>5. RowsAppear
    BY <1>1, <1>2 DEF RowsAppear, Consistent
  <1>6. ASSUME NEW r \in Requests
        PROVE  OnPath(r) /\ Insertions(r) /\ BareSeen(r) /\ Covered(r)
    BY DEF Init, OnPath, Insertions, NoRows, BareSeen, Covered, Running
  <1>7. QED
    BY <1>3, <1>4, <1>5, <1>6 DEF ListInv

\* Listings cover what they have seen to, keys are unique, in every reachable state.
THEOREM ListInvariance == Spec => []ListInv
  <1>1. ListInv /\ IInv /\ [Next]_vars => ListInv'
    <2> SUFFICES ASSUME ListInv, IInv, [Next]_vars PROVE ListInv'
      OBVIOUS
    <2>1. CASE UNCHANGED vars
      <3>1. UNCHANGED <<category, budget, pending, cmd, pc, reply, kinds, names, bare, row>>
        BY <2>1 DEF vars, handlerVars
      <3>2. TypeOK' /\ Columns' /\ RowsAppear'
        BY <3>1 DEF ListInv, TypeOK, KeysUnique, Columns, RowsAppear
      <3>3. ASSUME NEW r \in Requests
            PROVE  OnPath(r)' /\ Insertions(r)' /\ BareSeen(r)' /\ Covered(r)'
        <4>1. OnPath(r) /\ Insertions(r) /\ BareSeen(r) /\ Covered(r)
          BY DEF ListInv
        <4>2. OnPath(r)' /\ Insertions(r)' /\ BareSeen(r)'
          BY <3>1, <4>1 DEF OnPath, Insertions, BareSeen, Running, Taken, Free, Unseen
        <4>3. Covered(r)'
          BY <3>1, <4>1 DEF Covered, Running, Unseen, Sought, Wanted, Present, Edited
        <4>4. QED
          BY <4>2, <4>3
      <3>4. QED
        BY <3>2, <3>3 DEF ListInv
    <2>2. ASSUME NEW r \in Requests, Handle(r) PROVE ListInv'
      BY <2>2, LookForAnyKeeps, LookKeeps, InsertKeeps, CommitListKeeps, CommitCategoryKeeps,
         LoadKeeps, CommitEditKeeps, CheckBudgetKeeps, CommitBudgetKeeps DEF Handle
    <2>3. ASSUME NEW r \in Requests, NEW c \in Ask[r], Arrive(r, c) PROVE ListInv'
      BY <2>3, ArriveKeeps, Given
    <2>4. QED
      BY <2>1, <2>2, <2>3, AbortKeeps DEF Next
  <1>2. QED
    BY InitListInv, <1>1, Invariance, PTL DEF Spec

\* Rows keep their types and their unique keys, whatever is edited, created and listed at once.
THEOREM Types == Spec => []TypeOK
  <1>1. ListInv => TypeOK
    BY DEF ListInv
  <1>2. QED
    BY <1>1, ListInvariance, PTL

\* A listing that is answered has left the default categories it is to leave, whatever ran
\* at the same time, unless a category was edited (finance_defaults.py,
\* ensure_default_categories).
THEOREM ListingsLeaveDefaults == Spec => ListLeavesDefaults
  <1>1. ListInv /\ IInv /\ [Next]_vars =>
          [\A r \in Requests :
             reply[r] = "none" /\ reply'[r] = "ok" /\ cmd[r].op = "list" /\ ~ Edited
             => \A k \in Sought(r) : \A n \in Range(Wanted(r, k)) :
                  \E i \in DOMAIN category' : Key(category'[i]) = <<k, n>>]_vars
    <2> SUFFICES ASSUME ListInv, IInv, Next, NEW r \in Requests,
                        reply[r] = "none", reply'[r] = "ok", cmd[r].op = "list", ~ Edited,
                        NEW k \in Sought(r), NEW n \in Range(Wanted(r, k))
                 PROVE  \E i \in DOMAIN category' : Key(category'[i]) = <<k, n>>
      OBVIOUS
    <2>1. CommitList(r)
      <3>1. PICK q \in Requests : Handle(q) \/ Abort(q) \/ \E c \in Ask[q] : Arrive(q, c)
        BY DEF Next
      <3>2. reply \in [Requests -> {"none", "ok", "conflict", "refused", "error", "aborted"}]
        BY DEF IInv, HandlersOK
      <3>3. ~ Abort(q) /\ \A c \in Ask[q] : ~ Arrive(q, c)
        BY <3>2 DEF Abort, Answer, Arrive, GoTo
      <3>4. ~ LookForAny(q) /\ ~ Look(q) /\ ~ Insert(q) /\ ~ CheckBudget(q)
        BY <3>2 DEF LookForAny, Look, Insert, CheckBudget, Answer, GoTo, Continue
      <3>5. q = r
        <4>1. \A answer : Answer(q, answer) => reply' = [reply EXCEPT ![q] = answer]
          BY DEF Answer
        <4>2. (\E answer : reply' = [reply EXCEPT ![q] = answer]) \/ UNCHANGED reply
          <5>1. \A place : GoTo(q, place) => UNCHANGED reply
            BY DEF GoTo
          <5>2. Load(q) => (\E answer : Answer(q, answer)) \/ \E place : GoTo(q, place)
            BY ZenonT(30) DEF Load
          <5>3. CommitList(q) \/ CommitCategory(q) \/ CommitEdit(q) \/ CommitBudget(q)
                => \E answer : Answer(q, answer)
            BY DEF CommitList, CommitCategory, CommitEdit, CommitBudget
          <5>4. QED
            BY <4>1, <5>1, <5>2, <5>3, <3>1, <3>3, <3>4 DEF Handle
        <4>3. QED
          BY <4>2, <3>2
      <3>6. ~ CommitCategory(r) /\ ~ CommitEdit(r) /\ ~ CommitBudget(r)
        BY DEF CommitCategory, CommitEdit, CommitBudget
      <3>7. ~ Load(r)
        <4>1. pc[r] = "load" => cmd[r].op # "list"
          BY DEF ListInv, OnPath, Running
        <4>2. QED
          BY <4>1 DEF Load
      <3>8. QED
        BY <3>1, <3>3, <3>4, <3>5, <3>6, <3>7 DEF Handle
    <2>2. pc[r] = "commit" /\ r \in Running /\ category' = With(category, pending[r])
      BY <2>1 DEF CommitList, Running
    <2>3. OnPath(r) /\ Covered(r) /\ RowsAppear /\ Insertions(r)
      BY DEF ListInv
    <2>4. kinds[r] = <<>>
      BY <2>2, <2>3 DEF OnPath
    <2>5. Unseen(r) = {}
      BY <2>2, <2>4, ShortLists DEF Unseen
    <2>6. Present(r, <<k, n>>)
      BY <2>2, <2>3, <2>5 DEF Covered
    <2>7. \A i \in DOMAIN category : i \notin DOMAIN pending[r]
      BY <2>2, <2>3, Given DEF Insertions, RowsAppear
    <2>8. /\ DOMAIN category' = DOMAIN category \cup DOMAIN pending[r]
          /\ \A i \in DOMAIN category : category'[i] = category[i]
          /\ \A i \in DOMAIN pending[r] : category'[i] = pending[r][i]
      BY <2>2, <2>7 DEF With
    <2>9. QED
      BY <2>6, <2>8 DEF Present
  <1>2. QED
    BY <1>1, ListInvariance, Invariance, PTL DEF Spec, ListLeavesDefaults
=============================================================================
