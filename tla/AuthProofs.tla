----------------------------- MODULE AuthProofs -----------------------------
(***************************************************************************)
(* What holds of refresh sessions, for any number of requests and codes,   *)
(* and of users and their identities, for any number of requests, users    *)
(* and providers.                                                          *)
(*                                                                         *)
(* Sessions: IInv is inductive; a family has one active session, a token   *)
(* and a code bring one answer, families are chains, what is revoked stays *)
(* revoked, and what a returning token leaves of its family.               *)
(*                                                                         *)
(* Identities: IdentityInv says where each handler stands, that no two of  *)
(* them hold the key of one account, and that an account with an owner     *)
(* keeps it. Every action keeps it, one lemma for each, with a step for    *)
(* each conjunct.                                                          *)
(***************************************************************************)
EXTENDS Sessions, Identities, TLAPS

-----------------------------------------------------------------------------
\* Refresh sessions

\* What a command says of itself by its operation.
LEMMA CommandShape ==
  ASSUME NEW c \in CommandSet
  PROVE  /\ c.op \in {"refresh", "logout"} => c.row \in Requests
         /\ c.op = "exchange" => c.row \in Codes
         /\ c.op = "login" => c.row = NoRequest
         /\ c.op \in {"refresh", "logout", "exchange", "login"}
  BY DEF CommandSet

\* A request that came in has a command, and a row unless it logs in.
LEMMA Running ==
  ASSUME IInv, NEW r \in Requests, pc[r] # "new"
  PROVE  /\ cmd[r] \in CommandSet
         /\ cmd[r].op # "login" => cmd[r].row \in Requests \cup Codes
         /\ cmd[r].op \in {"refresh", "logout"} =>
              cmd[r].row \in Requests /\ session[cmd[r].row] \in Rows
         /\ cmd[r].op = "exchange" => cmd[r].row \in Codes
  <1>1. cmd[r] \in CommandSet
    BY DEF IInv, TypeOK
  <1>2. cmd[r].op \in {"refresh", "logout"} => session[cmd[r].row] # NoRow
    BY <1>1, CommandShape, SessionsAssumption DEF IInv, LocksHeld, State
  <1>3. QED
    BY <1>1, <1>2, CommandShape DEF IInv, TypeOK

\* The invariant holds at first.
LEMMA InitInv == Init => IInv
  BY SessionsAssumption
     DEF Init, IInv, TypeOK, OneActivePerFamily, RedeemedOnce, FamilyIsChain, LocksHeld,
         Inserted, TerminalIsLast, ListedCovers, UsedUp, Family, Active

\* What speaks of sessions alone.
SessionFacts == OneActivePerFamily /\ FamilyIsChain /\ TerminalIsLast

\* Sessions that do not change keep it.
LEMMA SameSessions ==
  ASSUME IInv, UNCHANGED session
  PROVE  /\ SessionFacts'
         /\ \A f : Active(f)' = Active(f) /\ Family(f)' = Family(f)
  BY DEF IInv, SessionFacts, OneActivePerFamily, FamilyIsChain, TerminalIsLast, Active, Family

\* Active sessions are revoked, not by rotation: the sessions keep their order, families
\* only lose active sessions, and nothing else changes.
LEMMA RevokeFacts ==
  ASSUME IInv, NEW S \in SUBSET Requests, NEW reason \in Revoked \ {"rotated"},
         \A s \in S : session[s] # NoRow /\ session[s].state = "active",
         Revoke(S, reason)
  PROVE  /\ session' \in [Requests -> Rows \cup {NoRow}]
         /\ SessionFacts'
         /\ \A f : Active(f)' = Active(f) \ S /\ Family(f)' = Family(f)
         /\ \A s \in Requests \ S : session'[s] = session[s]
         /\ \A s \in S : session'[s] # NoRow /\ session'[s].state = reason
         /\ \A s \in Requests :
              /\ session'[s] = NoRow <=> session[s] = NoRow
              /\ session[s] # NoRow => /\ session'[s].family = session[s].family
                                       /\ session'[s].parent = session[s].parent
                                       /\ session'[s].next = session[s].next
  <1>1. \A s \in Requests : session[s] \in Rows \cup {NoRow}
    BY DEF IInv, TypeOK
  <1>2. \A s \in S : session'[s] = [session[s] EXCEPT !.state = reason] /\ session[s] \in Rows
    BY <1>1 DEF Revoke
  <1>3. \A s \in S : /\ session'[s] \in Rows /\ session'[s].state = reason
                     /\ session'[s].family = session[s].family
                     /\ session'[s].parent = session[s].parent
                     /\ session'[s].next = session[s].next
    <2> SUFFICES ASSUME NEW s \in S
                 PROVE  /\ session'[s] \in Rows /\ session'[s].state = reason
                        /\ session'[s].family = session[s].family
                        /\ session'[s].parent = session[s].parent
                        /\ session'[s].next = session[s].next
      OBVIOUS
    <2>1. session'[s] = [session[s] EXCEPT !.state = reason] /\ session[s] \in Rows
      BY <1>2
    <2>2. QED
      BY <2>1 DEF Rows
  <1>4. \A s \in Requests \ S : session'[s] = session[s]
    BY DEF Revoke
  <1>5. session' \in [Requests -> Rows \cup {NoRow}]
    BY <1>1, <1>3, <1>4 DEF Revoke
  <1>6. \A s \in Requests :
          /\ session'[s] = NoRow <=> session[s] = NoRow
          /\ session[s] # NoRow => /\ session'[s].family = session[s].family
                                   /\ session'[s].parent = session[s].parent
                                   /\ session'[s].next = session[s].next
    BY <1>3, <1>4, SessionsAssumption
  <1>7. \A f : Family(f)' = Family(f)
    BY <1>6 DEF Family
  <1>8. \A f : Active(f)' = Active(f) \ S
    BY <1>3, <1>4, <1>7 DEF Active, Family, Revoked
  <1>9. OneActivePerFamily'
    BY <1>8 DEF IInv, OneActivePerFamily
  <1>10. \A s \in Requests : session[s] # NoRow =>
           (session'[s].state = "rotated" <=> session[s].state = "rotated")
    BY <1>3, <1>4
  <1>11. FamilyIsChain'
    <2>1. ASSUME NEW s \in Requests, session'[s] # NoRow
          PROVE  LET row == session'[s] IN
                 /\ row.state = "rotated" <=> row.next # NoRequest
                 /\ row.next # NoRequest => /\ session'[row.next] # NoRow
                                             /\ session'[row.next].parent = s
                                             /\ session'[row.next].family = row.family
                 /\ row.parent # NoRequest =>
                      session'[row.parent] # NoRow /\ session'[row.parent].next = s
                 /\ row.parent = NoRequest <=> row.family = s
      <3>1. session[s] # NoRow /\ session[s] \in Rows
        BY <1>1, <1>6, <2>1
      <3>2. session[s].next \in Requests \cup {NoRequest}
            /\ session[s].parent \in Requests \cup {NoRequest}
        BY <3>1 DEF Rows
      <3>3. QED
        BY <1>6, <1>10, <3>1, <3>2 DEF IInv, FamilyIsChain
    <2>2. QED
      BY <2>1 DEF FamilyIsChain
  <1>12. TerminalIsLast'
    <2>1. ASSUME NEW s \in Requests, session'[s] # NoRow,
                 session'[s].state \notin {"active", "rotated"}
          PROVE  Active(session[s].family)' = {}
      <3>1. CASE s \in S
        <4>1. s \in Active(session[s].family)
          BY <3>1 DEF Active, Family
        <4>2. Active(session[s].family) = {s}
          <5>1. session[s].family \in Requests
            BY <1>1, <3>1 DEF Rows
          <5>2. \A t \in Active(session[s].family) : t = s
            BY <4>1, <5>1 DEF IInv, OneActivePerFamily
          <5>3. QED
            BY <4>1, <5>2
        <4>3. QED
          BY <1>6, <1>8, <3>1, <4>2
      <3>2. CASE s \notin S
        BY <1>4, <1>8, <2>1, <3>2 DEF IInv, TerminalIsLast
      <3>3. QED
        BY <3>1, <3>2
    <2>2. QED
      BY <2>1 DEF TerminalIsLast
  <1>13. QED
    BY <1>3, <1>4, <1>5, <1>6, <1>7, <1>8, <1>9, <1>11, <1>12, SessionsAssumption DEF SessionFacts

\* A login begins a family: no session named it before.
LEMMA LoginFacts ==
  ASSUME IInv, NEW r \in Requests, session[r] = NoRow,
         session' = [session EXCEPT ![r] =
           [family |-> r, parent |-> NoRequest, next |-> NoRequest, state |-> "active"]]
  PROVE  /\ session' \in [Requests -> Rows \cup {NoRow}]
         /\ SessionFacts'
         /\ \A f : Active(f)' = (IF f = r THEN {r} ELSE Active(f))
  <1>1. \A s \in Requests : session[s] \in Rows \cup {NoRow}
    BY DEF IInv, TypeOK
  <1>2. /\ session'[r] = [family |-> r, parent |-> NoRequest, next |-> NoRequest,
                          state |-> "active"]
        /\ session'[r] \in Rows
        /\ \A s \in Requests \ {r} : session'[s] = session[s]
    BY DEF IInv, TypeOK, Rows
  <1>3. session' \in [Requests -> Rows \cup {NoRow}]
    BY <1>2 DEF IInv, TypeOK
  <1>4. \A s \in Requests : session[s] # NoRow => s # r /\ session[s].family # r
    BY DEF IInv, Inserted
  <1>5. \A f : Active(f)' = (IF f = r THEN {r} ELSE Active(f))
    BY <1>2, <1>4, SessionsAssumption DEF Active, Family
  <1>6. OneActivePerFamily'
    BY <1>5 DEF IInv, OneActivePerFamily
  <1>7. FamilyIsChain'
    <2>1. ASSUME NEW s \in Requests, session'[s] # NoRow
          PROVE  LET row == session'[s] IN
                 /\ row.state = "rotated" <=> row.next # NoRequest
                 /\ row.next # NoRequest => /\ session'[row.next] # NoRow
                                             /\ session'[row.next].parent = s
                                             /\ session'[row.next].family = row.family
                 /\ row.parent # NoRequest =>
                      session'[row.parent] # NoRow /\ session'[row.parent].next = s
                 /\ row.parent = NoRequest <=> row.family = s
      <3>1. CASE s = r
        BY <1>2, <3>1
      <3>2. CASE s # r
        <4>1. session'[s] = session[s] /\ session[s] \in Rows
          BY <1>1, <1>2, <2>1, <3>2
        <4>2. /\ session[s].next \in Requests \cup {NoRequest}
              /\ session[s].parent \in Requests \cup {NoRequest}
          BY <4>1 DEF Rows
        <4>3. QED
          BY <1>2, <2>1, <4>1, <4>2 DEF IInv, FamilyIsChain
      <3>3. QED
        BY <3>1, <3>2
    <2>2. QED
      BY <2>1 DEF FamilyIsChain
  <1>8. TerminalIsLast'
    BY <1>2, <1>4, <1>5 DEF IInv, TerminalIsLast
  <1>9. QED
    BY <1>3, <1>5, <1>6, <1>7, <1>8 DEF SessionFacts

\* What CommitRotation does to the sessions.
Rotated(r, t) ==
  session' = [session EXCEPT ![r] = [family |-> session[t].family, parent |-> t,
                                     next |-> NoRequest, state |-> "active"],
                             ![t].next = r, ![t].state = "rotated"]

\* A rotation puts the new session in the place of the only active one of its family.
LEMMA RotationFacts ==
  ASSUME IInv, NEW r \in Requests, session[r] = NoRow,
         NEW t \in Requests, session[t] # NoRow, session[t].state = "active",
         Rotated(r, t)
  PROVE  /\ session' \in [Requests -> Rows \cup {NoRow}]
         /\ SessionFacts'
         /\ \A f : Active(f)' = (IF f = session[t].family THEN {r} ELSE Active(f))
         /\ session[t].next = NoRequest
         /\ Active(session[t].family) = {t}
         /\ session'[t] # NoRow /\ session'[t].state = "rotated" /\ session'[t].next = r
         /\ session'[t].family = session[t].family /\ session'[session[t].family] # NoRow
         /\ session'[r].family = session[t].family
         /\ \A s \in Requests \ {r, t} : session'[s] = session[s]
  <1> DEFINE f0 == session[t].family
  <1>1. \A s \in Requests : session[s] \in Rows \cup {NoRow}
    BY DEF IInv, TypeOK
  <1>2. t # r /\ session[t] \in Rows /\ f0 \in Requests
    BY <1>1 DEF Rows
  <1>3. /\ session'[r] = [family |-> f0, parent |-> t, next |-> NoRequest, state |-> "active"]
        /\ session'[t] = [session[t] EXCEPT !.next = r, !.state = "rotated"]
        /\ \A s \in Requests \ {r, t} : session'[s] = session[s]
    BY <1>2 DEF IInv, TypeOK, Rotated
  <1>4. /\ session'[t].next = r /\ session'[t].state = "rotated"
        /\ session'[t].family = f0 /\ session'[t].parent = session[t].parent
        /\ session'[t] \in Rows /\ session'[r] \in Rows
    <2>1. session'[r] \in Rows
      BY <1>2, <1>3 DEF Rows
    <2>2. session'[t] = [family |-> f0, parent |-> session[t].parent, next |-> r,
                         state |-> "rotated"]
      BY <1>2, <1>3 DEF Rows
    <2>3. session'[t] \in Rows
      BY <1>2, <2>2 DEF Rows, Revoked
    <2>4. QED
      BY <2>1, <2>2, <2>3
  <1>5. session' \in [Requests -> Rows \cup {NoRow}]
    BY <1>4 DEF IInv, TypeOK, Rotated
  <1>6. session'[r] # NoRow /\ session'[t] # NoRow
    BY <1>4, SessionsAssumption
  <1>7. session[t].next = NoRequest
    BY DEF IInv, FamilyIsChain
  <1>8. f0 # r /\ session[f0] # NoRow /\ session'[f0] # NoRow
    BY <1>2, <1>3, <1>6 DEF IInv, Inserted
  <1>9. Active(f0) = {t}
    <2>1. t \in Active(f0)
      BY DEF Active, Family
    <2>2. \A s \in Active(f0) : s = t
      BY <2>1, <1>2 DEF IInv, OneActivePerFamily
    <2>3. QED
      BY <2>1, <2>2
  <1>10. \A f : Active(f)' = (IF f = f0 THEN {r} ELSE Active(f))
    <2>1. ASSUME NEW f, NEW s \in Requests
          PROVE  s \in Active(f)' <=> s \in (IF f = f0 THEN {r} ELSE Active(f))
      <3>1. CASE s = r
        BY <1>3, <1>6, <3>1 DEF Active, Family
      <3>2. CASE s = t
        BY <1>2, <1>4, <3>2 DEF Active, Family
      <3>3. CASE s \notin {r, t}
        <4>1. s \in Active(f)' <=> s \in Active(f)
          BY <1>3, <3>3 DEF Active, Family
        <4>2. QED
          BY <1>9, <3>3, <4>1
      <3>4. QED
        BY <3>1, <3>2, <3>3
    <2>2. \A f : Active(f) \subseteq Requests /\ Active(f)' \subseteq Requests
      BY DEF Active, Family
    <2>3. QED
      BY <2>1, <2>2
  <1>11. OneActivePerFamily'
    BY <1>10 DEF IInv, OneActivePerFamily
  <1>12. FamilyIsChain'
    <2>1. ASSUME NEW s \in Requests, session'[s] # NoRow
          PROVE  LET row == session'[s] IN
                 /\ row.state = "rotated" <=> row.next # NoRequest
                 /\ row.next # NoRequest => /\ session'[row.next] # NoRow
                                             /\ session'[row.next].parent = s
                                             /\ session'[row.next].family = row.family
                 /\ row.parent # NoRequest =>
                      session'[row.parent] # NoRow /\ session'[row.parent].next = s
                 /\ row.parent = NoRequest <=> row.family = s
      <3>1. CASE s = r
        <4>1. /\ session'[s].state = "active" /\ session'[s].next = NoRequest
              /\ session'[s].parent = t /\ session'[s].family = f0
          BY <1>3, <3>1
        <4>2. t # NoRequest /\ s # f0
          BY <1>8, <3>1, SessionsAssumption
        <4>3. QED
          BY <1>4, <1>6, <3>1, <4>1, <4>2
      <3>2. CASE s = t
        <4>1. session[t].parent \in Requests \cup {NoRequest}
          BY <1>2 DEF Rows
        <4>2. session[t].parent # NoRequest =>
                /\ session[t].parent \notin {r, t}
                /\ session[session[t].parent] # NoRow /\ session[session[t].parent].next = t
          BY <1>7, <4>1, SessionsAssumption DEF IInv, FamilyIsChain
        <4>3. session[t].parent = NoRequest <=> f0 = t
          BY DEF IInv, FamilyIsChain
        <4>4. session[t].parent # NoRequest =>
                session'[session[t].parent] = session[session[t].parent]
          BY <1>3, <4>1, <4>2
        <4>5. session'[r].parent = t /\ session'[r].family = f0 /\ r # NoRequest
          BY <1>3, SessionsAssumption
        <4>6. QED
          BY <1>4, <1>6, <3>2, <4>2, <4>3, <4>4, <4>5
      <3>3. CASE s \notin {r, t}
        <4>1. session'[s] = session[s] /\ session[s] \in Rows
          BY <1>1, <1>3, <2>1, <3>3
        <4>2. /\ session[s].next \in Requests \cup {NoRequest}
              /\ session[s].parent \in Requests \cup {NoRequest}
          BY <4>1 DEF Rows
        <4>3. session[s].parent \notin {r, t}
          BY <1>7, <2>1, <4>1, SessionsAssumption DEF IInv, FamilyIsChain
        <4>4. session[s].next # r
          BY <2>1, <4>1, SessionsAssumption DEF IInv, FamilyIsChain
        <4>5. LET row == session[s] IN
              /\ row.state = "rotated" <=> row.next # NoRequest
              /\ row.next # NoRequest => /\ session[row.next] # NoRow
                                          /\ session[row.next].parent = s
                                          /\ session[row.next].family = row.family
              /\ row.parent # NoRequest =>
                   session[row.parent] # NoRow /\ session[row.parent].next = s
              /\ row.parent = NoRequest <=> row.family = s
          BY <2>1, <4>1 DEF IInv, FamilyIsChain
        <4>6. session[s].parent # NoRequest =>
                session'[session[s].parent] = session[session[s].parent]
          BY <1>3, <4>2, <4>3
        <4>7. session[s].next # NoRequest =>
                /\ session'[session[s].next] # NoRow
                /\ session'[session[s].next].parent = s
                /\ session'[session[s].next].family = session[s].family
          <5>1. CASE session[s].next = t
            BY <1>4, <1>6, <4>5, <5>1
          <5>2. CASE session[s].next # t
            <6>1. session[s].next # NoRequest =>
                    session'[session[s].next] = session[session[s].next]
              BY <1>3, <4>2, <4>4, <5>2
            <6>2. QED
              BY <4>5, <6>1
          <5>3. QED
            BY <5>1, <5>2
        <4>8. QED
          BY <4>1, <4>5, <4>6, <4>7
      <3>4. QED
        BY <3>1, <3>2, <3>3
    <2>2. QED
      BY <2>1 DEF FamilyIsChain
  <1>13. TerminalIsLast'
    <2>1. ASSUME NEW s \in Requests, session'[s] # NoRow,
                 session'[s].state \notin {"active", "rotated"}
          PROVE  session'[s] = session[s] /\ session[s].family # f0
      <3>1. session'[s] = session[s]
        <4>1. s # r
          BY <1>3, <2>1
        <4>2. s # t
          BY <1>4, <2>1
        <4>3. QED
          BY <1>3, <4>1, <4>2
      <3>2. QED
        BY <1>9, <2>1, <3>1 DEF IInv, TerminalIsLast
    <2>2. QED
      BY <1>10, <2>1 DEF IInv, TerminalIsLast
  <1>14. QED
    BY <1>3, <1>4, <1>5, <1>6, <1>7, <1>8, <1>9, <1>10, <1>11, <1>12, <1>13 DEF SessionFacts

\* What a step that writes rows keeps of them all;
Kept ==
  /\ session' \in [Requests -> Rows \cup {NoRow}]
  /\ code' \in [Codes -> {NoRow, "active", "consumed"}]
  /\ SessionFacts'
  /\ \A s \in Requests : session[s] # NoRow =>
       /\ session'[s] # NoRow /\ session'[s].family = session[s].family
       /\ session[s].state = "rotated" => session'[s].state = "rotated"
       /\ session[s].next # NoRequest => session'[s].next = session[s].next
  /\ \A c \in Codes : /\ code[c] # NoRow => code'[c] # NoRow
                      /\ code[c] = "consumed" => code'[c] = "consumed"

\* and what it does to them: only the row locked by its request changes, only its own
\* session appears, and a family gets a new active session only by a rotation.
His(r) ==
  /\ \A x \in Requests \cup Codes : State(x) # NoRow => rowLock[x] = r \/ State(x)' = State(x)
  /\ \A s \in Requests \ {r} : session[s] = NoRow => session'[s] = NoRow
  /\ session[r] = NoRow /\ session'[r] # NoRow => session'[session'[r].family] # NoRow
  /\ \A f \in Requests : Family(f) # {} =>
       Active(f)' \subseteq Active(f) \/ \E t \in Active(f) : session'[t].state = "rotated"

\* State, by the kind of row.
LEMMA StateOf ==
  ASSUME IInv
  PROVE  /\ \A s \in Requests : /\ State(s) = NoRow <=> session[s] = NoRow
                                /\ session[s] # NoRow => State(s) = session[s].state
         /\ \A c \in Codes : State(c) = code[c]
  <1>1. \A s \in Requests : session[s] # NoRow => session[s].state # NoRow
    BY SessionsAssumption DEF IInv, TypeOK, Rows
  <1>2. QED
    BY <1>1, SessionsAssumption DEF State

\* A handler that ends keeps the invariant if its writes do.
LEMMA Answered ==
  ASSUME IInv, NEW r \in Requests, pc[r] \notin {"new", "done"},
         NEW a \in {"ok", "rejected", "reused", "error"}, Answer(r, a),
         UNCHANGED <<expired, enabled, cmd, late, seen, listed, revoke>>,
         Kept, His(r),
         a = "ok" => /\ cmd[r].op = "refresh" => session'[cmd[r].row].next = r
                     /\ cmd[r].op = "exchange" => /\ code[cmd[r].row] # "consumed"
                                                  /\ code'[cmd[r].row] = "consumed"
  PROVE  IInv'
  <1>1. TypeOK'
    <2>1. /\ pc' = [pc EXCEPT ![r] = "done"]
          /\ reply' = [reply EXCEPT ![r] = a]
          /\ rowLock' = [x \in DOMAIN rowLock |-> IF rowLock[x] = r THEN NoRequest
                                                ELSE rowLock[x]]
      BY DEF Answer
    <2>2. /\ pc' \in [Requests -> {"new", "lock", "read", "family", "commit", "done"}]
          /\ reply' \in [Requests -> {"none", "ok", "rejected", "reused", "error"}]
      BY <2>1 DEF IInv, TypeOK
    <2>3. rowLock' \in [Requests \cup Codes -> Requests \cup {NoRequest}]
      BY <2>1 DEF IInv, TypeOK
    <2>4. \A q \in Requests : /\ reply'[q] = "none" <=> pc'[q] # "done"
                              /\ cmd'[q] = NoRequest <=> pc'[q] = "new"
      BY <2>1 DEF IInv, TypeOK
    <2>5. /\ session' \in [Requests -> Rows \cup {NoRow}]
          /\ code' \in [Codes -> {NoRow, "active", "consumed"}]
      BY DEF Kept
    <2>6. QED
      BY <2>2, <2>3, <2>4, <2>5 DEF IInv, TypeOK
  <1>2. /\ pc'[r] = "done" /\ reply'[r] = a
        /\ \A q \in Requests \ {r} : pc'[q] = pc[q] /\ reply'[q] = reply[q]
        /\ \A x \in Requests \cup Codes :
             rowLock'[x] = IF rowLock[x] = r THEN NoRequest ELSE rowLock[x]
    BY DEF IInv, TypeOK, Answer
  <1>3. \A s \in Requests : session'[s] # NoRow =>
          session'[s].state # NoRow /\ s \notin Codes
    BY SessionsAssumption DEF Kept, Rows
  <1>4. \A s \in Requests : /\ State(s)' = NoRow <=> session'[s] = NoRow
                            /\ session'[s] # NoRow => State(s)' = session'[s].state
    BY <1>3, SessionsAssumption DEF State
  <1>5. \A x \in Requests \cup Codes : State(x) # NoRow => State(x)' # NoRow
    <2>1. \A c \in Codes : State(c)' = code'[c]
      BY DEF State
    <2>2. QED
      BY <1>4, <2>1, StateOf DEF Kept
  <1>6. LocksHeld'
    <2>1. \A q \in Requests : pc'[q] # "new" =>
            pc[q] # "new" /\ (cmd[q].op = "login" \/ State(cmd[q].row) # NoRow)
      BY <1>2 DEF IInv, LocksHeld
    <2>2. \A q \in Requests : pc'[q] # "new" =>
            cmd'[q].op = "login" \/ State(cmd[q].row)' # NoRow
      BY <1>5, <2>1, Running
    <2>3. ASSUME NEW q \in Requests, pc'[q] \notin {"new", "done"}
          PROVE  q # r /\ pc'[q] = pc[q]
      BY <1>2, <2>3
    <2>4. ASSUME NEW q \in Requests, pc'[q] \in {"read", "family", "commit"},
                 cmd[q].op # "login"
          PROVE  rowLock'[cmd[q].row] = q /\ seen[q] = State(cmd[q].row)'
      <3>1. q # r /\ pc[q] \in {"read", "family", "commit"} /\ cmd[q].row \in Requests \cup Codes
        BY <2>3, <2>4, Running
      <3>2. rowLock[cmd[q].row] = q /\ seen[q] = State(cmd[q].row) /\ State(cmd[q].row) # NoRow
        BY <2>4, <3>1 DEF IInv, LocksHeld
      <3>3. QED
        BY <1>2, <3>1, <3>2 DEF His
    <2>5. ASSUME NEW q \in Requests, pc'[q] = "family"
          PROVE  /\ cmd[q].op = "refresh" /\ seen[q] # "active"
                 /\ \A s \in listed[q] : session'[s] # NoRow
                                          /\ session'[s].family = session'[cmd[q].row].family
                 /\ \A s \in listed[q] : rowLock'[s] = q =>
                      (s \in revoke[q] <=> session'[s].state = "active")
                 /\ \A s \in revoke[q] : s \in listed[q] /\ rowLock'[s] = q
      <3>1. q # r /\ pc[q] = "family"
        BY <2>3, <2>5
      <3>2. /\ cmd[q].op = "refresh" /\ seen[q] # "active"
            /\ \A s \in listed[q] : session[s] # NoRow
                                     /\ session[s].family = session[cmd[q].row].family
            /\ \A s \in listed[q] : rowLock[s] = q =>
                 (s \in revoke[q] <=> session[s].state = "active")
            /\ \A s \in revoke[q] : s \in listed[q] /\ rowLock[s] = q
        BY <3>1 DEF IInv, LocksHeld
      <3>3. listed[q] \subseteq Requests
        BY DEF IInv, TypeOK
      <3>4. cmd[q].row \in Requests /\ session[cmd[q].row] # NoRow
        BY <3>1, <3>2, Running, SessionsAssumption
      <3>5. \A s \in listed[q] : session'[s] # NoRow
                                  /\ session'[s].family = session'[cmd[q].row].family
        BY <3>2, <3>3, <3>4 DEF Kept
      <3>6. ASSUME NEW s \in listed[q], rowLock'[s] = q
            PROVE  rowLock[s] = q /\ session'[s].state = session[s].state
        <4>1. rowLock[s] = q
          BY <1>2, <3>1, <3>3, <3>6, SessionsAssumption
        <4>2. State(s)' = State(s)
          BY <3>1, <3>2, <3>3, <4>1, StateOf DEF His
        <4>3. QED
          BY <1>4, <3>2, <3>3, <3>5, <4>1, <4>2, StateOf
      <3>7. QED
        BY <1>2, <3>1, <3>2, <3>3, <3>5, <3>6
    <2>6. \A x \in Requests \cup Codes : rowLock'[x] # NoRequest =>
            /\ pc'[rowLock'[x]] \in {"read", "family", "commit"}
            /\ pc'[rowLock'[x]] # "family" => x = cmd'[rowLock'[x]].row
      BY <1>2 DEF IInv, LocksHeld, TypeOK
    <2>7. \A q \in Requests : pc'[q] \in {"lock", "family"} => cmd'[q].op # "login"
      BY <2>3 DEF IInv, LocksHeld
    <2>8. \A q \in Requests : pc'[q] = "commit" => cmd'[q].op # "logout" /\ Good(q)'
      BY <2>3 DEF IInv, LocksHeld, Good
    <2>9. \A q \in Requests : pc'[q] \notin {"family", "done"} => revoke'[q] = {}
      BY <1>2 DEF IInv, LocksHeld
    <2>10. QED
      BY <2>2, <2>4, <2>5, <2>6, <2>7, <2>8, <2>9 DEF LocksHeld
  <1>7. Inserted'
    <2>1. \A s \in Requests : session'[s] # NoRow => pc'[s] = "done"
      BY <1>2 DEF IInv, Inserted, His
    <2>2. ASSUME NEW s \in Requests, session'[s] # NoRow
          PROVE  session'[session'[s].family] # NoRow
      <3>1. CASE session[s] # NoRow
        <4>1. session[s].family \in Requests /\ session[session[s].family] # NoRow
          BY <3>1 DEF IInv, Inserted, TypeOK, Rows
        <4>2. QED
          BY <3>1, <4>1 DEF Kept
      <3>2. CASE session[s] = NoRow
        BY <2>2, <3>2 DEF His
      <3>3. QED
        BY <3>1, <3>2
    <2>3. QED
      BY <2>1, <2>2 DEF Inserted
  <1>8. ListedCovers'
    <2>1. ASSUME NEW q \in Requests, pc'[q] = "family"
          PROVE  \/ Active(session[cmd[q].row].family)' \subseteq listed[q]
                 \/ \E s \in listed[q] : session'[s].state = "rotated"
      <3>1. pc[q] = "family"
        BY <1>2, <2>1
      <3>2. /\ cmd[q].row \in Requests /\ session[cmd[q].row] \in Rows
            /\ session[cmd[q].row] # NoRow
        BY <3>1, Running, SessionsAssumption DEF IInv, LocksHeld
      <3>3. /\ session[cmd[q].row].family \in Requests
            /\ Family(session[cmd[q].row].family) # {}
        BY <3>2 DEF Family, Rows
      <3>4. \A s \in listed[q] : s \in Requests /\ session[s] # NoRow
        BY <3>1 DEF IInv, LocksHeld, TypeOK
      <3>5. CASE Active(session[cmd[q].row].family) \subseteq listed[q]
        <4>1. session'[cmd'[q].row].family = session[cmd[q].row].family
          BY <3>2 DEF Kept
        <4>2. QED
          BY <3>3, <3>5, <4>1 DEF His
      <3>6. CASE \E s \in listed[q] : session[s].state = "rotated"
        BY <3>4, <3>6 DEF Kept
      <3>7. QED
        BY <3>1, <3>5, <3>6 DEF IInv, ListedCovers
    <2>2. QED
      BY <2>1 DEF ListedCovers
  <1>9. UsedUp'
    <2>1. ASSUME NEW q \in Requests, reply'[q] = "ok"
          PROVE  /\ cmd[q].op = "refresh" => session'[cmd[q].row].next = q
                 /\ cmd[q].op = "exchange" => code'[cmd[q].row] = "consumed"
      <3>1. CASE q = r
        BY <1>2, <2>1, <3>1
      <3>2. CASE q # r
        <4>1. reply[q] = "ok" /\ pc[q] # "new"
          BY <1>2, <2>1, <3>2 DEF IInv, TypeOK
        <4>2. /\ cmd[q].op = "refresh" => session[cmd[q].row].next = q
              /\ cmd[q].op = "exchange" => code[cmd[q].row] = "consumed"
          BY <4>1 DEF IInv, UsedUp
        <4>3. QED
          BY <4>1, <4>2, Running, SessionsAssumption DEF Kept
      <3>3. QED
        BY <3>1, <3>2
    <2>2. QED
      BY <2>1 DEF UsedUp
  <1>10. RedeemedOnce'
    <2>1. ASSUME NEW q \in Requests, NEW p \in Requests,
                 reply'[q] = "ok", reply'[p] = "ok",
                 cmd[q].op \in {"refresh", "exchange"}, cmd[p].op \in {"refresh", "exchange"},
                 cmd[q].row = cmd[p].row
          PROVE  q = p
      <3>1. pc[q] # "new" /\ pc[p] # "new"
        BY <1>2, <2>1 DEF IInv, TypeOK
      <3>2. cmd[q].op = cmd[p].op
        BY <2>1, <3>1, Running, SessionsAssumption
      <3>3. CASE cmd[q].op = "refresh"
        BY <1>9, <2>1, <3>2, <3>3 DEF UsedUp
      <3>4. CASE cmd[q].op = "exchange"
        <4>1. \A o \in {p, q} : o # r => code[cmd[o].row] = "consumed"
          BY <1>2, <2>1, <3>2, <3>4 DEF IInv, UsedUp
        <4>2. r \in {p, q} => code[cmd[q].row] # "consumed"
          BY <1>2, <2>1, <3>2, <3>4
        <4>3. CASE r \in {p, q}
          BY <2>1, <4>1, <4>2, <4>3
        <4>4. CASE r \notin {p, q}
          BY <1>2, <2>1, <4>4 DEF IInv, RedeemedOnce
        <4>5. QED
          BY <4>3, <4>4
      <3>5. QED
        BY <2>1, <3>3, <3>4
    <2>2. QED
      BY <2>1 DEF RedeemedOnce
  <1>11. QED
    BY <1>1, <1>6, <1>7, <1>8, <1>9, <1>10 DEF IInv, Kept, SessionFacts

\* Nothing is written.
LEMMA Unwritten ==
  ASSUME IInv, NEW r \in Requests, UNCHANGED <<session, code>>
  PROVE  Kept /\ His(r)
  <1>1. Kept
    BY SameSessions DEF IInv, TypeOK, Kept
  <1>2. \A x \in Requests \cup Codes : State(x)' = State(x)
    BY DEF State
  <1>3. QED
    BY <1>1, <1>2, SameSessions DEF His

\* Sessions that are locked and active are revoked, not by rotation.
LEMMA RevokedRows ==
  ASSUME IInv, NEW r \in Requests, NEW S \in SUBSET Requests,
         NEW reason \in Revoked \ {"rotated"},
         \A s \in S : session[s] # NoRow /\ session[s].state = "active" /\ rowLock[s] = r,
         Revoke(S, reason), UNCHANGED code
  PROVE  Kept /\ His(r)
  <1>1. /\ session' \in [Requests -> Rows \cup {NoRow}]
        /\ SessionFacts'
        /\ \A f : Active(f)' = Active(f) \ S /\ Family(f)' = Family(f)
        /\ \A s \in Requests \ S : session'[s] = session[s]
        /\ \A s \in Requests :
              /\ session'[s] = NoRow <=> session[s] = NoRow
              /\ session[s] # NoRow => /\ session'[s].family = session[s].family
                                       /\ session'[s].parent = session[s].parent
                                       /\ session'[s].next = session[s].next
    BY RevokeFacts
  <1>2. Kept
    <2>1. \A s \in Requests : session[s] # NoRow /\ session[s].state = "rotated" =>
            session'[s].state = "rotated"
      BY <1>1
    <2>2. QED
      BY <1>1, <2>1 DEF IInv, TypeOK, Kept
  <1>3. His(r)
    <2>1. \A x \in Requests \cup Codes : x \notin S => State(x)' = State(x)
      BY <1>1 DEF State
    <2>2. QED
      BY <1>1, <2>1 DEF His
  <1>4. QED
    BY <1>2, <1>3

\* A code that is locked and active is consumed.
LEMMA ConsumedCode ==
  ASSUME IInv, NEW r \in Requests, NEW c \in Codes, code[c] = "active", rowLock[c] = r,
         code' = [code EXCEPT ![c] = "consumed"], UNCHANGED session
  PROVE  Kept /\ His(r)
  <1>1. code' \in [Codes -> {NoRow, "active", "consumed"}]
    BY DEF IInv, TypeOK
  <1>2. code'[c] = "consumed" /\ \A d \in Codes \ {c} : code'[d] = code[d]
    BY DEF IInv, TypeOK
  <1>3. Kept
    BY <1>1, <1>2, SameSessions, SessionsAssumption DEF IInv, TypeOK, Kept
  <1>4. \A x \in Requests \cup Codes : x # c => State(x)' = State(x)
    BY <1>2 DEF State
  <1>5. QED
    BY <1>3, <1>4, SameSessions DEF His

\* What a handler that goes on knows of the row it was given.
LEMMA Given ==
  ASSUME IInv, NEW r \in Requests, pc[r] \in {"read", "family", "commit"},
         cmd[r].op # "login", seen[r] = "active"
  PROVE  /\ rowLock[cmd[r].row] = r
         /\ cmd[r].row \in Codes => code[cmd[r].row] = "active" /\ cmd[r].op = "exchange"
         /\ cmd[r].row \in Requests => /\ session[cmd[r].row] # NoRow
                                       /\ session[cmd[r].row].state = "active"
                                       /\ cmd[r].op \in {"refresh", "logout"}
         /\ cmd[r].row \in Requests \cup Codes
  <1>1. rowLock[cmd[r].row] = r /\ State(cmd[r].row) = "active"
    BY DEF IInv, LocksHeld
  <1>2. cmd[r].row \in Requests \cup Codes /\ cmd[r] \in CommandSet
    BY Running
  <1>3. NoRow # "active"
    BY SessionsAssumption
  <1>4. QED
    BY <1>1, <1>2, <1>3, StateOf, CommandShape, SessionsAssumption

\* A row is used up without a new session.
LEMMA UsedUpRow ==
  ASSUME IInv, NEW r \in Requests, pc[r] = "read", cmd[r].op # "login", seen[r] = "active",
         NEW reason \in Revoked \ {"rotated"}, UseUp(r, reason)
  PROVE  Kept /\ His(r)
  <1>1. CASE cmd[r].row \in Codes
    BY <1>1, Given, ConsumedCode DEF UseUp
  <1>2. CASE cmd[r].row \notin Codes
    <2>1. /\ cmd[r].row \in Requests /\ session[cmd[r].row] # NoRow
          /\ session[cmd[r].row].state = "active" /\ rowLock[cmd[r].row] = r
      BY <1>2, Given
    <2>2. Revoke({cmd[r].row}, reason) /\ UNCHANGED code
      BY <1>2 DEF UseUp
    <2>3. QED
      BY <2>1, <2>2, RevokedRows
  <1>3. QED
    BY <1>1, <1>2

\* The handlers that end without new tokens.
LEMMA RefuseExpiredInv ==
  ASSUME IInv, NEW r \in Requests, RefuseExpired(r)
  PROVE  IInv'
  <1>1. Kept /\ His(r)
    BY UsedUpRow DEF RefuseExpired, Revoked
  <1>2. QED
    BY <1>1, Answered DEF RefuseExpired

LEMMA RefuseConsumedInv ==
  ASSUME IInv, NEW r \in Requests, RefuseConsumed(r)
  PROVE  IInv'
  BY Unwritten, Answered DEF RefuseConsumed

LEMMA AbortInv ==
  ASSUME IInv, NEW r \in Requests, Abort(r)
  PROVE  IInv'
  BY Unwritten, Answered DEF Abort

LEMMA CommitLogoutInv ==
  ASSUME IInv, NEW r \in Requests, CommitLogout(r)
  PROVE  IInv'
  <1>1. pc[r] = "read" /\ cmd[r].op = "logout" /\ cmd[r].row \in Requests
    BY Running DEF CommitLogout
  <1> DEFINE S == IF seen[r] = "active" THEN {cmd[r].row} ELSE {}
  <1>2. \A s \in S : session[s] # NoRow /\ session[s].state = "active" /\ rowLock[s] = r
    BY <1>1, Given
  <1>3. Revoke(S, "logout") /\ UNCHANGED code /\ S \in SUBSET Requests
    BY <1>1 DEF CommitLogout
  <1>4. Kept /\ His(r)
    BY <1>2, <1>3, RevokedRows DEF Revoked
  <1>5. QED
    BY <1>1, <1>4, Answered DEF CommitLogout

LEMMA CommitReuseInv ==
  ASSUME IInv, NEW r \in Requests, CommitReuse(r)
  PROVE  IInv' /\ Kept /\ His(r)
  <1>1. pc[r] = "family" /\ cmd[r].op = "refresh"
    BY DEF CommitReuse, IInv, LocksHeld
  <1>2. revoke[r] \in SUBSET Requests
    BY DEF IInv, TypeOK
  <1>3. \A s \in revoke[r] :
          session[s] # NoRow /\ session[s].state = "active" /\ rowLock[s] = r
    BY <1>1 DEF IInv, LocksHeld
  <1>4. Kept /\ His(r)
    BY <1>2, <1>3, RevokedRows DEF Revoked, CommitReuse
  <1>5. QED
    BY <1>1, <1>4, Answered DEF CommitReuse

\* The handlers that end with new tokens.
LEMMA CommitLoginInv ==
  ASSUME IInv, NEW r \in Requests, CommitLogin(r)
  PROVE  IInv'
  <1>1. pc[r] = "commit" /\ cmd[r].op \in {"login", "exchange"} /\ session[r] = NoRow
    BY DEF CommitLogin, IInv, Inserted
  <1>2. session' = [session EXCEPT ![r] =
          [family |-> r, parent |-> NoRequest, next |-> NoRequest, state |-> "active"]]
    BY DEF CommitLogin
  <1>3. /\ session' \in [Requests -> Rows \cup {NoRow}]
        /\ SessionFacts'
        /\ \A f : Active(f)' = (IF f = r THEN {r} ELSE Active(f))
    BY <1>1, <1>2, LoginFacts
  <1>4. /\ \A s \in Requests \ {r} : session'[s] = session[s]
        /\ session'[r].family = r /\ session'[r] # NoRow
    BY <1>2, SessionsAssumption DEF IInv, TypeOK, Rows
  <1>5. Family(r) = {}
    BY <1>1 DEF IInv, Inserted, Family
  <1>6. cmd[r].op = "exchange" =>
          cmd[r].row \in Codes /\ rowLock[cmd[r].row] = r /\ code[cmd[r].row] = "active"
    <2>1. cmd[r].op = "exchange" => seen[r] = "active"
      BY <1>1 DEF IInv, LocksHeld, Good
    <2>2. QED
      BY <1>1, <2>1, Given, Running
  <1>7. /\ code' \in [Codes -> {NoRow, "active", "consumed"}]
        /\ \A c \in Codes : code'[c] = code[c] \/ rowLock[c] = r
        /\ \A c \in Codes : /\ code[c] # NoRow => code'[c] # NoRow
                            /\ code[c] = "consumed" => code'[c] = "consumed"
        /\ cmd[r].op = "exchange" => code'[cmd[r].row] = "consumed"
    BY <1>6, SessionsAssumption DEF CommitLogin, IInv, TypeOK
  <1>8. Kept
    BY <1>1, <1>3, <1>4, <1>7 DEF Kept
  <1>9. \A x \in Requests \cup Codes : State(x) # NoRow => rowLock[x] = r \/ State(x)' = State(x)
    BY <1>1, <1>4, <1>7 DEF State
  <1>10. His(r)
    BY <1>1, <1>3, <1>4, <1>5, <1>9 DEF His
  <1>11. QED
    BY <1>1, <1>6, <1>7, <1>8, <1>10, Answered DEF CommitLogin

LEMMA CommitRotationInv ==
  ASSUME IInv, NEW r \in Requests, CommitRotation(r)
  PROVE  IInv' /\ Kept /\ His(r)
  <1> DEFINE t == cmd[r].row
  <1>1. pc[r] = "commit" /\ cmd[r].op = "refresh" /\ session[r] = NoRow
    BY DEF CommitRotation, IInv, Inserted
  <1>2. seen[r] = "active"
    BY <1>1 DEF IInv, LocksHeld, Good
  <1>3. /\ t \in Requests /\ session[t] # NoRow /\ session[t].state = "active"
        /\ rowLock[t] = r /\ t # r
    BY <1>1, <1>2, Given, Running
  <1>4. Rotated(r, t)
    BY DEF CommitRotation, Rotated
  <1>5. /\ session' \in [Requests -> Rows \cup {NoRow}]
        /\ SessionFacts'
        /\ \A f : Active(f)' = (IF f = session[t].family THEN {r} ELSE Active(f))
        /\ session[t].next = NoRequest
        /\ Active(session[t].family) = {t}
        /\ session'[t] # NoRow /\ session'[t].state = "rotated" /\ session'[t].next = r
        /\ session'[t].family = session[t].family /\ session'[session[t].family] # NoRow
        /\ session'[r].family = session[t].family
        /\ \A s \in Requests \ {r, t} : session'[s] = session[s]
    BY <1>1, <1>3, <1>4, RotationFacts
  <1>6. UNCHANGED code
    BY DEF CommitRotation
  <1>7. Kept
    BY <1>1, <1>3, <1>5, <1>6 DEF Kept, IInv, TypeOK
  <1>8. \A x \in Requests \cup Codes : State(x) # NoRow => rowLock[x] = r \/ State(x)' = State(x)
    BY <1>1, <1>3, <1>5, <1>6 DEF State
  <1>9. His(r)
    BY <1>1, <1>3, <1>5, <1>8 DEF His
  <1>10. QED
    BY <1>1, <1>5, <1>7, <1>9, Answered DEF CommitRotation

\* A step that answers nobody and writes no session keeps what is said of answers.
LEMMA Moved ==
  ASSUME IInv, UNCHANGED <<session, reply>>,
         \A q \in Requests : pc[q] = "done" => pc'[q] = "done" /\ cmd'[q] = cmd[q],
         \A c \in Codes : code[c] = "consumed" => code'[c] = "consumed"
  PROVE  SessionFacts' /\ Inserted' /\ UsedUp' /\ RedeemedOnce'
  <1>1. \A q \in Requests : reply'[q] = "ok" => reply[q] = "ok" /\ cmd'[q] = cmd[q] /\ pc[q] # "new"
    BY DEF IInv, TypeOK
  <1>2. UsedUp'
    BY <1>1, Running DEF IInv, UsedUp
  <1>3. RedeemedOnce'
    BY <1>1 DEF IInv, RedeemedOnce
  <1>4. Inserted'
    BY DEF IInv, Inserted
  <1>5. QED
    BY <1>2, <1>3, <1>4, SameSessions

\* Nor does it change what was listed.
LEMMA SameLists ==
  ASSUME IInv, UNCHANGED session,
         \A q \in Requests : pc'[q] = "family" =>
           pc[q] = "family" /\ cmd'[q] = cmd[q] /\ listed'[q] = listed[q]
  PROVE  ListedCovers'
  <1>1. ASSUME NEW q \in Requests, pc'[q] = "family"
        PROVE  \/ Active(session[cmd[q].row].family)' \subseteq listed'[q]
               \/ \E s \in listed'[q] : session'[s].state = "rotated"
    <2>1. session'[cmd'[q].row].family = session[cmd[q].row].family
      BY <1>1
    <2>2. QED
      BY <1>1, <2>1, SameSessions DEF IInv, ListedCovers
  <1>2. QED
    BY <1>1 DEF ListedCovers

LEMMA ArriveInv ==
  ASSUME IInv, NEW r \in Requests, NEW c \in Ask[r], Arrive(r, c)
  PROVE  IInv'
  <1>1. c \in CommandSet /\ c # NoRequest
    BY SessionsAssumption
  <1>2. /\ pc[r] = "new" /\ cmd'[r] = c
        /\ pc'[r] = IF c.op = "login" THEN "read" ELSE "lock"
        /\ \A q \in Requests \ {r} : cmd'[q] = cmd[q] /\ pc'[q] = pc[q] /\ late'[q] = late[q]
    BY DEF Arrive, GoTo, IInv, TypeOK
  <1>3. TypeOK'
    BY <1>1 DEF Arrive, GoTo, IInv, TypeOK
  <1>4. /\ SessionFacts' /\ Inserted' /\ UsedUp' /\ RedeemedOnce'
        /\ ListedCovers'
    BY <1>2, Moved, SameLists DEF Arrive, GoTo
  <1>5. \A x : State(x)' = State(x)
    BY DEF Arrive, State
  <1>6. \A x \in Requests \cup Codes : rowLock[x] # r
    BY <1>2, SessionsAssumption DEF IInv, LocksHeld
  <1>7. LocksHeld'
    BY <1>2, <1>5, <1>6 DEF Arrive, GoTo, IInv, LocksHeld, Good
  <1>8. QED
    BY <1>3, <1>4, <1>7 DEF IInv, SessionFacts

LEMMA LockInv ==
  ASSUME IInv, NEW r \in Requests, Lock(r)
  PROVE  IInv'
  <1> DEFINE x == cmd[r].row
  <1>1. /\ pc[r] = "lock" /\ x \in Requests \cup Codes /\ State(x) # NoRow
        /\ rowLock[x] = NoRequest
    BY Running DEF Lock, IInv, LocksHeld
  <1>2. /\ pc'[r] = "read" /\ seen'[r] = State(x) /\ rowLock'[x] = r
        /\ \A q \in Requests \ {r} : pc'[q] = pc[q] /\ seen'[q] = seen[q]
        /\ \A y \in (Requests \cup Codes) \ {x} : rowLock'[y] = rowLock[y]
    BY <1>1 DEF Lock, GoTo, IInv, TypeOK
  <1>3. State(x) \in Revoked \cup {"active", "consumed", NoRow}
    BY <1>1 DEF State, IInv, TypeOK, Rows
  <1>4. TypeOK'
    BY <1>1, <1>3 DEF Lock, GoTo, IInv, TypeOK
  <1>5. /\ SessionFacts' /\ Inserted' /\ UsedUp' /\ RedeemedOnce'
        /\ ListedCovers'
    BY <1>1, <1>2, Moved, SameLists DEF Lock, GoTo
  <1>6. \A y : State(y)' = State(y)
    BY DEF Lock, State
  <1>7. \A q \in Requests \ {r} : \A y \in Requests \cup Codes : rowLock[y] = q => rowLock'[y] = q
    BY <1>1, <1>2, SessionsAssumption
  <1>8. \A q \in Requests \ {r} : \A y \in Requests \cup Codes : rowLock'[y] = q => rowLock[y] = q
    BY <1>2
  <1>9. LocksHeld'
    BY <1>1, <1>2, <1>6, <1>7, <1>8 DEF Lock, GoTo, IInv, LocksHeld, Good, TypeOK
  <1>10. QED
    BY <1>4, <1>5, <1>9 DEF IInv, SessionFacts

LEMMA CheckUserInv ==
  ASSUME IInv, NEW r \in Requests, CheckUser(r)
  PROVE  IInv'
  <1>1. pc[r] = "read" /\ cmd[r].op # "logout" /\ Good(r)
        /\ UNCHANGED <<expired, enabled, cmd, late, seen, listed, revoke>>
    BY DEF CheckUser
  <1>2. CASE GoTo(r, "commit") /\ UNCHANGED <<session, code, rowLock>>
    <2>1. pc'[r] = "commit" /\ \A q \in Requests \ {r} : pc'[q] = pc[q]
      BY <1>2 DEF GoTo, IInv, TypeOK
    <2>2. TypeOK'
      BY <1>1, <1>2 DEF GoTo, IInv, TypeOK
    <2>3. /\ SessionFacts' /\ Inserted' /\ UsedUp' /\ RedeemedOnce'
          /\ ListedCovers'
      BY <1>1, <1>2, <2>1, Moved, SameLists DEF GoTo
    <2>4. \A y : State(y)' = State(y)
      BY <1>2 DEF State
    <2>5. LocksHeld'
      BY <1>1, <1>2, <2>1, <2>4 DEF IInv, LocksHeld, Good, TypeOK
    <2>6. QED
      BY <2>2, <2>3, <2>5 DEF IInv, SessionFacts
  <1>3. CASE Answer(r, "rejected") /\ UNCHANGED <<session, code>>
    BY <1>1, <1>3, Unwritten, Answered
  <1>4. CASE UseUp(r, "invalid_user") /\ Answer(r, "rejected") /\ cmd[r].op # "login"
    <2>1. Kept /\ His(r)
      BY <1>1, <1>4, UsedUpRow DEF Good, Revoked
    <2>2. QED
      BY <1>1, <1>4, <2>1, Answered
  <1>5. QED
    BY <1>2, <1>3, <1>4 DEF CheckUser

LEMMA ListFamilyInv ==
  ASSUME IInv, NEW r \in Requests, ListFamily(r)
  PROVE  IInv'
  <1> DEFINE f == session[cmd[r].row].family
  <1>1. /\ pc[r] = "read" /\ cmd[r].op = "refresh" /\ seen[r] # "active"
        /\ cmd[r].row \in Requests /\ session[cmd[r].row] \in Rows
    BY Running DEF ListFamily
  <1>2. /\ pc'[r] = "family" /\ listed'[r] = Active(f)
        /\ \A q \in Requests \ {r} : pc'[q] = pc[q] /\ listed'[q] = listed[q]
    BY DEF ListFamily, GoTo, IInv, TypeOK
  <1>3. Active(f) \subseteq Requests
    BY DEF Active, Family
  <1>4. TypeOK'
    BY <1>1, <1>3 DEF ListFamily, GoTo, IInv, TypeOK
  <1>5. SessionFacts' /\ Inserted' /\ UsedUp' /\ RedeemedOnce'
    BY <1>1, <1>2, Moved DEF ListFamily, GoTo
  <1>6. ListedCovers'
    <2>1. ASSUME NEW q \in Requests, pc'[q] = "family"
          PROVE  \/ Active(session[cmd[q].row].family)' \subseteq listed'[q]
                 \/ \E s \in listed'[q] : session'[s].state = "rotated"
      <3>1. UNCHANGED <<session, cmd>>
        BY DEF ListFamily
      <3>2. session'[cmd'[q].row].family = session[cmd[q].row].family
        BY <3>1
      <3>3. CASE q = r
        BY <1>2, <3>1, <3>2, <3>3, SameSessions
      <3>4. CASE q # r
        BY <1>2, <2>1, <3>1, <3>2, <3>4, SameSessions DEF IInv, ListedCovers
      <3>5. QED
        BY <3>3, <3>4
    <2>2. QED
      BY <2>1 DEF ListedCovers
  <1>7. \A y : State(y)' = State(y)
    BY DEF ListFamily, State
  <1>8. LocksHeld'
    <2>1. \A s \in Active(f) : /\ s \in Requests /\ session[s] # NoRow
                                /\ session[s].family = f /\ session[s].state = "active"
      BY DEF Active, Family
    <2>2. rowLock[cmd[r].row] = r /\ seen[r] = State(cmd[r].row) /\ revoke[r] = {}
      BY <1>1 DEF IInv, LocksHeld
    <2>3. \A s \in Active(f) : rowLock[s] # r
      <3>1. cmd[r].row \notin Active(f)
        BY <1>1, <2>1, <2>2, StateOf
      <3>2. \A s \in Requests : rowLock[s] = r => s = cmd[r].row
        BY <1>1, SessionsAssumption DEF IInv, LocksHeld
      <3>3. QED
        BY <2>1, <3>1, <3>2
    <2>4. UNCHANGED <<session, code, rowLock, cmd, late, seen, revoke>>
      BY DEF ListFamily
    <2>5. QED
      BY <1>1, <1>2, <1>7, <2>1, <2>2, <2>3, <2>4 DEF IInv, LocksHeld, Good, TypeOK
  <1>9. QED
    BY <1>4, <1>5, <1>6, <1>8 DEF IInv, SessionFacts

LEMMA LockFamilyInv ==
  ASSUME IInv, NEW r \in Requests, NEW s \in Requests, LockFamily(r, s)
  PROVE  IInv'
  <1>1. pc[r] = "family" /\ s \in listed[r] /\ rowLock[s] = NoRequest /\ session[s] # NoRow
    BY DEF LockFamily, IInv, LocksHeld
  <1>2. /\ rowLock'[s] = r
        /\ \A y \in (Requests \cup Codes) \ {s} : rowLock'[y] = rowLock[y]
        /\ revoke'[r] = IF session[s].state = "active" THEN revoke[r] \cup {s} ELSE revoke[r]
        /\ \A q \in Requests \ {r} : revoke'[q] = revoke[q]
    BY DEF LockFamily, IInv, TypeOK
  <1>3. TypeOK'
    BY DEF LockFamily, IInv, TypeOK
  <1>4. /\ SessionFacts' /\ Inserted' /\ UsedUp' /\ RedeemedOnce'
        /\ ListedCovers'
    BY Moved, SameLists DEF LockFamily
  <1>5. \A y : State(y)' = State(y)
    BY DEF LockFamily, State
  <1>6. \A y \in Requests \cup Codes : rowLock[y] \in Requests => rowLock'[y] = rowLock[y]
    BY <1>1, <1>2, SessionsAssumption
  <1>7. \A q \in Requests \ {r} : \A y \in Requests \cup Codes : rowLock'[y] = q => rowLock[y] = q
    BY <1>2
  <1>8. \A t \in listed[r] : rowLock'[t] = r => (t \in revoke'[r] <=> session[t].state = "active")
    BY <1>1, <1>2, SessionsAssumption DEF IInv, LocksHeld, TypeOK
  <1>9. \A t \in revoke'[r] : t \in listed[r] /\ rowLock'[t] = r
    BY <1>1, <1>2, <1>6 DEF IInv, LocksHeld, TypeOK
  <1>10. LocksHeld'
    BY <1>1, <1>2, <1>5, <1>6, <1>7, <1>8, <1>9 DEF LockFamily, IInv, LocksHeld, Good, TypeOK
  <1>11. QED
    BY <1>3, <1>4, <1>10 DEF IInv, SessionFacts

\* The steps of no handler.
LEMMA EnvironmentInv ==
  ASSUME IInv,
         \/ \E c \in Codes : IssueCode(c)
         \/ \E x \in Requests \cup Codes : Expire(x)
         \/ Deactivate
         \/ UNCHANGED vars
  PROVE  IInv'
  <1>1. /\ UNCHANGED <<session, rowLock, cmd, pc, late, seen, listed, revoke, reply>>
        /\ \A c \in Codes : code'[c] = code[c] \/ (code[c] = NoRow /\ code'[c] = "active")
        /\ code' \in [Codes -> {NoRow, "active", "consumed"}]
        /\ expired' \subseteq Requests \cup Codes
        /\ enabled' \in BOOLEAN
    <2>1. CASE \E c \in Codes : IssueCode(c)
      BY <2>1 DEF IssueCode, requestVars, IInv, TypeOK
    <2>2. CASE \E x \in Requests \cup Codes : Expire(x)
      BY <2>2 DEF Expire, requestVars, IInv, TypeOK
    <2>3. CASE Deactivate
      BY <2>3 DEF Deactivate, requestVars, IInv, TypeOK
    <2>4. CASE UNCHANGED vars
      BY <2>4 DEF vars, requestVars, IInv, TypeOK
    <2>5. QED
      BY <2>1, <2>2, <2>3, <2>4
  <1>2. TypeOK'
    BY <1>1 DEF IInv, TypeOK
  <1>3. /\ SessionFacts' /\ Inserted' /\ UsedUp' /\ RedeemedOnce'
        /\ ListedCovers'
    BY <1>1, Moved, SameLists, SessionsAssumption
  <1>4. \A x \in Requests \cup Codes : State(x) # NoRow => State(x)' = State(x)
    BY <1>1 DEF State
  <1>5. LocksHeld'
    BY <1>1, <1>4, Running DEF IInv, LocksHeld, Good
  <1>6. QED
    BY <1>2, <1>3, <1>5 DEF IInv, SessionFacts

\* Every step keeps the invariant.
LEMMA StepInv == IInv /\ [Next]_vars => IInv'
  <1>1. SUFFICES ASSUME IInv, [Next]_vars PROVE IInv'
    OBVIOUS
  <1>2. ASSUME NEW r \in Requests, Handle(r)
        PROVE  IInv'
    <2>1. CASE Lock(r) \/ ListFamily(r) \/ \E s \in Requests : LockFamily(r, s)
      BY <1>1, <2>1, LockInv, ListFamilyInv, LockFamilyInv
    <2>2. CASE RefuseExpired(r) \/ RefuseConsumed(r) \/ CheckUser(r)
      BY <1>1, <2>2, RefuseExpiredInv, RefuseConsumedInv, CheckUserInv
    <2>3. CASE CommitLogin(r) \/ CommitRotation(r) \/ CommitLogout(r) \/ CommitReuse(r)
      BY <1>1, <2>3, CommitLoginInv, CommitRotationInv, CommitLogoutInv, CommitReuseInv
    <2>4. QED
      BY <1>2, <2>1, <2>2, <2>3 DEF Handle
  <1>3. ASSUME NEW r \in Requests, Abort(r) \/ \E c \in Ask[r] : Arrive(r, c)
        PROVE  IInv'
    BY <1>1, <1>3, AbortInv, ArriveInv
  <1>4. QED
    BY <1>1, <1>2, <1>3, EnvironmentInv DEF Next

\* The inductive invariant holds in every reachable state, for any requests and codes and
\* whatever each may ask for.
THEOREM Invariance == Spec => []IInv
  <1>1. Init => IInv
    BY InitInv
  <1>2. IInv /\ [Next]_vars => IInv'
    BY StepInv
  <1>3. QED
    BY <1>1, <1>2, PTL DEF Spec

\* Rows, locks and handlers keep their types (TypeOK).
THEOREM TypeCorrect == Spec => []TypeOK
  <1>1. IInv => TypeOK
    BY DEF IInv
  <1>2. QED
    BY <1>1, Invariance, PTL

\* A family never has two active sessions, however many requests present its tokens at
\* once (refresh_tokens).
THEOREM OneActive == Spec => []OneActivePerFamily
  <1>1. IInv => OneActivePerFamily
    BY DEF IInv
  <1>2. QED
    BY <1>1, Invariance, PTL

\* A token or a code brings new tokens to one request at most (refresh_tokens,
\* exchange_login_code).
THEOREM Redeemed == Spec => []RedeemedOnce
  <1>1. IInv => RedeemedOnce
    BY DEF IInv
  <1>2. QED
    BY <1>1, Invariance, PTL

\* The sessions of a family form a chain of rotations (create_refresh_session).
THEOREM Chain == Spec => []FamilyIsChain
  <1>1. IInv => FamilyIsChain
    BY DEF IInv
  <1>2. QED
    BY <1>1, Invariance, PTL

\* A handler's row that is used up is one session revoked, or none.
LEMMA UsedUpSessions ==
  ASSUME IInv, NEW r \in Requests, pc[r] = "read", cmd[r].op # "login", seen[r] = "active",
         NEW reason \in Revoked \ {"rotated"}, UseUp(r, reason)
  PROVE  \/ UNCHANGED session
         \/ \E S \in SUBSET Requests :
              /\ \A s \in S : session[s] # NoRow /\ session[s].state = "active"
              /\ Revoke(S, reason)
  <1>1. CASE cmd[r].row \in Codes
    BY <1>1 DEF UseUp
  <1>2. CASE cmd[r].row \notin Codes
    <2>1. /\ cmd[r].row \in Requests /\ session[cmd[r].row] # NoRow
          /\ session[cmd[r].row].state = "active"
      BY <1>2, Given
    <2>2. Revoke({cmd[r].row}, reason)
      BY <1>2 DEF UseUp
    <2>3. QED
      BY <2>1, <2>2
  <1>3. QED
    BY <1>1, <1>2

\* What a step does to the sessions, whatever step it is.
Revokes ==
  \E S \in SUBSET Requests, reason \in Revoked \ {"rotated"} :
    /\ \A s \in S : session[s] # NoRow /\ session[s].state = "active"
    /\ Revoke(S, reason)

Begins ==
  \E r \in Requests :
    /\ session[r] = NoRow
    /\ session' = [session EXCEPT ![r] =
         [family |-> r, parent |-> NoRequest, next |-> NoRequest, state |-> "active"]]

Rotates ==
  \E r, t \in Requests :
    /\ session[r] = NoRow /\ session[t] # NoRow /\ session[t].state = "active"
    /\ Rotated(r, t)

LEMMA SessionWrites ==
  ASSUME IInv, [Next]_vars
  PROVE  UNCHANGED session \/ Revokes \/ Begins \/ Rotates
  <1>1. ASSUME NEW r \in Requests, RefuseExpired(r)
        PROVE  UNCHANGED session \/ Revokes
    BY <1>1, UsedUpSessions DEF RefuseExpired, Revoked, Revokes
  <1>2. ASSUME NEW r \in Requests, CheckUser(r)
        PROVE  UNCHANGED session \/ Revokes
    BY <1>2, UsedUpSessions DEF CheckUser, Good, Revoked, Revokes
  <1>3. ASSUME NEW r \in Requests, CommitLogout(r)
        PROVE  UNCHANGED session \/ Revokes
    <2>1. cmd[r].row \in Requests
      BY <1>3, Running DEF CommitLogout
    <2> DEFINE S == IF seen[r] = "active" THEN {cmd[r].row} ELSE {}
    <2>2. \A s \in S : session[s] # NoRow /\ session[s].state = "active"
      BY <1>3, <2>1, Given DEF CommitLogout
    <2>3. Revoke(S, "logout") /\ S \in SUBSET Requests
      BY <1>3, <2>1 DEF CommitLogout
    <2>4. QED
      BY <2>2, <2>3 DEF Revokes, Revoked
  <1>4. ASSUME NEW r \in Requests, CommitReuse(r)
        PROVE  Revokes
    <2>1. /\ revoke[r] \in SUBSET Requests
          /\ \A s \in revoke[r] : session[s] # NoRow /\ session[s].state = "active"
      BY <1>4 DEF CommitReuse, IInv, LocksHeld, TypeOK
    <2>2. QED
      BY <1>4, <2>1 DEF CommitReuse, Revokes, Revoked
  <1>5. ASSUME NEW r \in Requests, CommitLogin(r)
        PROVE  Begins
    BY <1>5 DEF CommitLogin, IInv, Inserted, Begins
  <1>6. ASSUME NEW r \in Requests, CommitRotation(r)
        PROVE  Rotates
    <2>1. /\ cmd[r].row \in Requests /\ session[cmd[r].row] # NoRow
          /\ session[cmd[r].row].state = "active"
      BY <1>6, Given, Running DEF CommitRotation, IInv, LocksHeld, Good
    <2>2. session[r] = NoRow
      BY <1>6 DEF CommitRotation, IInv, Inserted
    <2>3. Rotated(r, cmd[r].row)
      BY <1>6 DEF CommitRotation, Rotated
    <2>4. QED
      BY <2>1, <2>2, <2>3 DEF Rotates
  <1>7. ASSUME NEW r \in Requests, Handle(r)
        PROVE  UNCHANGED session \/ Revokes \/ Begins \/ Rotates
    <2>1. CASE Lock(r) \/ RefuseConsumed(r) \/ ListFamily(r) \/ \E s \in Requests : LockFamily(r, s)
      BY <2>1 DEF Lock, RefuseConsumed, ListFamily, LockFamily
    <2>2. QED
      BY <1>1, <1>2, <1>3, <1>4, <1>5, <1>6, <1>7, <2>1 DEF Handle
  <1>8. ASSUME NEW r \in Requests, Abort(r) \/ \E c \in Ask[r] : Arrive(r, c)
        PROVE  UNCHANGED session
    BY <1>8 DEF Abort, Arrive
  <1>9. CASE \/ \E c \in Codes : IssueCode(c)
             \/ \E x \in Requests \cup Codes : Expire(x)
             \/ Deactivate
             \/ UNCHANGED vars
    BY <1>9 DEF IssueCode, Expire, Deactivate, vars
  <1>10. QED
    BY <1>7, <1>8, <1>9 DEF Next

\* A revoked session stays revoked for the reason it was revoked for (logout_user,
\* list_active_by_family_for_update).
THEOREM RevokedForever == Spec => RevokedForGood
  <1>1. ASSUME IInv, [Next]_vars, NEW s \in Requests,
               session[s] # NoRow, session[s].state # "active"
        PROVE  session'[s] # NoRow /\ session'[s].state = session[s].state
    <2>1. CASE UNCHANGED session
      BY <1>1, <2>1
    <2>2. CASE Revokes
      BY <1>1, <2>2, RevokeFacts DEF Revokes
    <2>3. CASE Begins
      BY <1>1, <2>3 DEF Begins, IInv, TypeOK
    <2>4. CASE Rotates
      <3>1. PICK r \in Requests, t \in Requests :
              /\ session[r] = NoRow /\ session[t] # NoRow /\ session[t].state = "active"
              /\ Rotated(r, t)
        BY <2>4 DEF Rotates
      <3>2. session'[s] = session[s]
        BY <1>1, <3>1, RotationFacts
      <3>3. QED
        BY <1>1, <3>2
    <2>5. QED
      BY <1>1, <2>1, <2>2, <2>3, <2>4, SessionWrites
  <1>2. IInv /\ [Next]_vars =>
          [\A s \in Requests :
             session[s] # NoRow /\ session[s].state # "active" =>
               session'[s] # NoRow /\ session'[s].state = session[s].state]_vars
    BY <1>1
  <1>3. QED
    BY <1>2, Invariance, PTL DEF Spec, RevokedForGood

\* A family without an active session never gets one again (refresh_tokens).
THEOREM NeverRevived == Spec => NoRevival
  <1>1. ASSUME IInv, [Next]_vars, NEW f \in Requests, Family(f) # {}, Active(f) = {}
        PROVE  Active(f)' = {}
    <2>1. CASE UNCHANGED session
      BY <1>1, <2>1, SameSessions
    <2>2. CASE Revokes
      <3>1. PICK S \in SUBSET Requests, reason \in Revoked \ {"rotated"} :
              /\ \A s \in S : session[s] # NoRow /\ session[s].state = "active"
              /\ Revoke(S, reason)
        BY <2>2 DEF Revokes
      <3>2. Active(f)' = Active(f) \ S
        BY <1>1, <3>1, RevokeFacts
      <3>3. QED
        BY <1>1, <3>2
    <2>3. CASE Begins
      <3>1. PICK r \in Requests :
              /\ session[r] = NoRow
              /\ session' = [session EXCEPT ![r] =
                   [family |-> r, parent |-> NoRequest, next |-> NoRequest, state |-> "active"]]
        BY <2>3 DEF Begins
      <3>2. f # r
        BY <1>1, <3>1 DEF IInv, Inserted, Family
      <3>3. Active(f)' = (IF f = r THEN {r} ELSE Active(f))
        BY <1>1, <3>1, LoginFacts
      <3>4. QED
        BY <1>1, <3>2, <3>3
    <2>4. CASE Rotates
      <3>1. PICK r \in Requests, t \in Requests :
              /\ session[r] = NoRow /\ session[t] # NoRow /\ session[t].state = "active"
              /\ Rotated(r, t)
        BY <2>4 DEF Rotates
      <3>2. /\ Active(f)' = (IF f = session[t].family THEN {r} ELSE Active(f))
            /\ Active(session[t].family) = {t}
        BY <1>1, <3>1, RotationFacts
      <3>3. f # session[t].family
        BY <1>1, <3>2
      <3>4. QED
        BY <1>1, <3>2, <3>3
    <2>5. QED
      BY <1>1, <2>1, <2>2, <2>3, <2>4, SessionWrites
  <1>2. IInv /\ [Next]_vars =>
          [\A f \in Requests : Family(f) # {} /\ Active(f) = {} => Active(f)' = {}]_vars
    BY <1>1
  <1>3. QED
    BY <1>2, Invariance, PTL DEF Spec, NoRevival

\* An answer goes to the request it is for.
LEMMA AnswersOne ==
  ASSUME IInv, NEW q \in Requests, NEW a, Answer(q, a), NEW r \in Requests, reply'[r] # reply[r]
  PROVE  r = q /\ reply'[r] = a
  BY DEF Answer, IInv, TypeOK

\* Only the revocation of a family is answered with "reused".
LEMMA OnlyReuse ==
  ASSUME IInv, [Next]_vars, NEW r \in Requests, reply[r] = "none", reply'[r] = "reused"
  PROVE  CommitReuse(r)
  <1>1. ASSUME NEW q \in Requests, Handle(q)
        PROVE  CommitReuse(r)
    <2>1. Lock(q) \/ ListFamily(q) \/ (\E s \in Requests : LockFamily(q, s)) => FALSE
      BY DEF Lock, ListFamily, LockFamily, GoTo
    <2>2. RefuseExpired(q) \/ RefuseConsumed(q) \/ CheckUser(q) => FALSE
      BY AnswersOne DEF RefuseExpired, RefuseConsumed, CheckUser, GoTo
    <2>3. CommitLogin(q) \/ CommitRotation(q) \/ CommitLogout(q) => FALSE
      BY AnswersOne DEF CommitLogin, CommitRotation, CommitLogout
    <2>4. CommitReuse(q) => q = r
      BY AnswersOne DEF CommitReuse
    <2>5. QED
      BY <1>1, <2>1, <2>2, <2>3, <2>4 DEF Handle
  <1>2. ASSUME NEW q \in Requests, Abort(q) \/ \E c \in Ask[q] : Arrive(q, c)
        PROVE  FALSE
    BY <1>2, AnswersOne DEF Abort, Arrive, GoTo
  <1>3. CASE \/ \E c \in Codes : IssueCode(c)
             \/ \E x \in Requests \cup Codes : Expire(x)
             \/ Deactivate
             \/ UNCHANGED vars
    BY <1>3 DEF IssueCode, Expire, Deactivate, vars, requestVars
  <1>4. QED
    BY <1>1, <1>2, <1>3 DEF Next

\* What a used token that comes back leaves active of its family was inserted by a
\* rotation that overlapped (revoke_refresh_family).
THEOREM FamilyRevoked == Spec => ReuseRevokes
  <1>1. ASSUME IInv, [Next]_vars, NEW r \in Requests, reply[r] = "none", reply'[r] = "reused"
        PROVE  LET family == Active(session[cmd[r].row].family)' IN
               /\ family \cap listed[r] = {}
               /\ family # {} => \E t \in listed[r] : session'[t].state = "rotated"
    <2> DEFINE f == session[cmd[r].row].family
    <2>1. CommitReuse(r)
      BY <1>1, OnlyReuse
    <2>2. /\ pc[r] = "family" /\ cmd[r].op = "refresh" /\ UNCHANGED cmd
          /\ Revoke(revoke[r], "reuse_detected")
          /\ \A s \in listed[r] : rowLock[s] = r
      BY <1>1, <2>1 DEF CommitReuse, IInv, LocksHeld
    <2>3. /\ revoke[r] \in SUBSET Requests /\ listed[r] \subseteq Requests
          /\ \A s \in revoke[r] : s \in listed[r]
          /\ \A s \in listed[r] : /\ session[s] # NoRow
                                  /\ s \in revoke[r] <=> session[s].state = "active"
      BY <1>1, <2>2 DEF IInv, LocksHeld, TypeOK
    <2>4. /\ \A g : Active(g)' = Active(g) \ revoke[r]
          /\ \A s \in Requests \ revoke[r] : session'[s] = session[s]
          /\ \A s \in Requests : session[s] # NoRow => session'[s].family = session[s].family
      BY <1>1, <2>2, <2>3, RevokeFacts DEF Revoked
    <2>5. cmd[r].row \in Requests /\ session[cmd[r].row] # NoRow
      BY <1>1, <2>2, Running, SessionsAssumption
    <2>6. session'[cmd'[r].row].family = f
      BY <2>2, <2>4, <2>5
    <2>7. Active(f) \cap listed[r] \subseteq revoke[r]
      BY <2>3 DEF Active
    <2>8. Active(f) \ revoke[r] # {} => \E t \in listed[r] : session[t].state = "rotated"
      BY <1>1, <2>2, <2>7 DEF IInv, ListedCovers
    <2>9. \A t \in listed[r] : session[t].state = "rotated" => session'[t].state = "rotated"
      BY <2>3, <2>4
    <2>10. QED
      BY <2>4, <2>6, <2>7, <2>8, <2>9
  <1>2. IInv /\ [Next]_vars =>
          [\A r \in Requests : reply[r] = "none" /\ reply'[r] = "reused" =>
             LET family == Active(session[cmd[r].row].family)' IN
             /\ family \cap listed[r] = {}
             /\ family # {} => \E t \in listed[r] : session'[t].state = "rotated"]_vars
    BY <1>1
  <1>3. QED
    BY <1>2, Invariance, PTL DEF Spec, ReuseRevokes

-----------------------------------------------------------------------------
\* Users and their identities

\* The parts of the assumption that the proofs use.
LEMMA Apart ==
  /\ Founders \cap SignIns = {}
  /\ None \notin Founders \cup SignIns /\ None \notin Emails /\ None \notin Subjects
  /\ Home \in [Founders -> Emails]
  BY IdentitiesAssumption DEF IdentitiesAssumption, Users

\* The invariant holds to begin with.
LEMMA IdentitiesInitInv == IdentitiesInit => IdentityInv
  <1> SUFFICES ASSUME IdentitiesInit PROVE IdentityInv
    OBVIOUS
  <1> USE Apart DEF IdentitiesInit, Users
  <1>1. UserTypesOK
    BY DEF UserTypesOK
  <1>2. \A r \in SignIns : Started(r) /\ Stage(r) /\ Command(r)
    BY DEF Started, Stage, Command, Speaks
  <1>3. KeysHeld /\ OwnersExist
    BY DEF KeysHeld, OwnersExist
  <1>4. CodesFollowIdentities /\ NoUserAlone
    BY DEF CodesFollowIdentities, NoUserAlone
  <1>5. QED
    BY <1>1, <1>2, <1>3, <1>4 DEF IdentityInv

\* The provider's account is looked up: the invariant is kept.
LEMMA LookForSubjectInv ==
  ASSUME IdentityInv, NEW r \in SignIns, LookForSubject(r)
  PROVE  IdentityInv'
  <1> USE Apart DEF Users, userVars, inputVars, MoveTo, Respond
  <1>1. UserTypesOK'
    BY DEF IdentityInv, UserTypesOK, Started, Stage, Command, Speaks, LookForSubject
  <1>2. \A q \in SignIns : Started(q)'
    BY DEF IdentityInv, UserTypesOK, Started, Stage, Command, Speaks, LookForSubject
  <1>3. \A q \in SignIns : Stage(q)'
    BY DEF IdentityInv, UserTypesOK, Started, Stage, Command, Speaks, KeysHeld, OwnersExist,
       Linked, WithEmail, LookForSubject
  <1>4. \A q \in SignIns : Command(q)'
    BY DEF IdentityInv, UserTypesOK, Stage, Command, Speaks, LookForSubject
  <1>5. KeysHeld'
    BY DEF IdentityInv, UserTypesOK, Started, Stage, Command, KeysHeld, Speaks, HoldsIdentity,
       Linked, LookForSubject
  <1>6. OwnersExist'
    BY DEF IdentityInv, UserTypesOK, Started, Stage, Command, KeysHeld, OwnersExist, Speaks,
       LookForSubject
  <1>7. CodesFollowIdentities'
    BY DEF IdentityInv, UserTypesOK, Started, Stage, Command, KeysHeld, CodesFollowIdentities,
       Speaks, LookForSubject
  <1>8. NoUserAlone'
    BY DEF IdentityInv, UserTypesOK, Started, Stage, Command, KeysHeld, OwnersExist, NoUserAlone,
       Speaks, LookForSubject
  <1>9. QED
    BY <1>1, <1>2, <1>3, <1>4, <1>5, <1>6, <1>7, <1>8 DEF IdentityInv

\* A callback looks for the user of the email: the invariant is kept.
LEMMA MatchEmailInv ==
  ASSUME IdentityInv, NEW r \in SignIns, MatchEmail(r)
  PROVE  IdentityInv'
  <1> USE Apart DEF Users, userVars, inputVars, MoveTo, Respond
  <1>1. UserTypesOK'
    BY DEF IdentityInv, UserTypesOK, Started, Stage, Command, Speaks, WithEmail, MatchEmail
  <1>2. \A q \in SignIns : Started(q)'
    BY DEF IdentityInv, UserTypesOK, Started, Stage, Command, Speaks, MatchEmail
  <1>3. \A q \in SignIns : Stage(q)'
    BY DEF IdentityInv, UserTypesOK, Started, Stage, Command, Speaks, KeysHeld, OwnersExist,
       Linked, WithEmail, MatchEmail
  <1>4. \A q \in SignIns : Command(q)'
    BY DEF IdentityInv, UserTypesOK, Stage, Command, Speaks, MatchEmail
  <1>5. KeysHeld'
    BY DEF IdentityInv, UserTypesOK, Started, Stage, Command, KeysHeld, Speaks, HoldsIdentity,
       Linked, MatchEmail
  <1>6. OwnersExist'
    BY DEF IdentityInv, UserTypesOK, Started, Stage, Command, KeysHeld, OwnersExist, Speaks,
       MatchEmail
  <1>7. CodesFollowIdentities'
    BY DEF IdentityInv, UserTypesOK, Started, Stage, Command, KeysHeld, CodesFollowIdentities,
       Speaks, MatchEmail
  <1>8. NoUserAlone'
    BY DEF IdentityInv, UserTypesOK, Started, Stage, Command, KeysHeld, OwnersExist, NoUserAlone,
       Speaks, MatchEmail
  <1>9. QED
    BY <1>1, <1>2, <1>3, <1>4, <1>5, <1>6, <1>7, <1>8 DEF IdentityInv

\* A registration looks for the user of the email: the invariant is kept.
LEMMA CheckEmailInv ==
  ASSUME IdentityInv, NEW r \in SignIns, CheckEmail(r)
  PROVE  IdentityInv'
  <1> USE Apart DEF Users, userVars, inputVars, MoveTo, Respond
  <1>1. UserTypesOK'
    BY DEF IdentityInv, UserTypesOK, Started, Stage, Command, Speaks, CheckEmail
  <1>2. \A q \in SignIns : Started(q)'
    BY DEF IdentityInv, UserTypesOK, Started, Stage, Command, Speaks, CheckEmail
  <1>3. \A q \in SignIns : Stage(q)'
    BY DEF IdentityInv, UserTypesOK, Started, Stage, Command, Speaks, KeysHeld, OwnersExist,
       Linked, WithEmail, CheckEmail
  <1>4. \A q \in SignIns : Command(q)'
    BY DEF IdentityInv, UserTypesOK, Stage, Command, Speaks, CheckEmail
  <1>5. KeysHeld'
    BY DEF IdentityInv, UserTypesOK, Started, Stage, Command, KeysHeld, Speaks, HoldsIdentity,
       Linked, CheckEmail
  <1>6. OwnersExist'
    BY DEF IdentityInv, UserTypesOK, Started, Stage, Command, KeysHeld, OwnersExist, Speaks,
       CheckEmail
  <1>7. CodesFollowIdentities'
    BY DEF IdentityInv, UserTypesOK, Started, Stage, Command, KeysHeld, CodesFollowIdentities,
       Speaks, CheckEmail
  <1>8. NoUserAlone'
    BY DEF IdentityInv, UserTypesOK, Started, Stage, Command, KeysHeld, OwnersExist, NoUserAlone,
       Speaks, CheckEmail
  <1>9. QED
    BY <1>1, <1>2, <1>3, <1>4, <1>5, <1>6, <1>7, <1>8 DEF IdentityInv

\* The user's account of the provider is looked up: the invariant is kept.
LEMMA LookForPairInv ==
  ASSUME IdentityInv, NEW r \in SignIns, LookForPair(r)
  PROVE  IdentityInv'
  <1> USE Apart DEF Users, userVars, inputVars, MoveTo, Respond
  <1>1. UserTypesOK'
    BY DEF IdentityInv, UserTypesOK, Started, Stage, Command, Speaks, LookForPair
  <1>2. \A q \in SignIns : Started(q)'
    BY DEF IdentityInv, UserTypesOK, Started, Stage, Command, Speaks, LookForPair
  <1>3. \A q \in SignIns : Stage(q)'
    BY DEF IdentityInv, UserTypesOK, Started, Stage, Command, Speaks, KeysHeld, OwnersExist,
       Linked, WithEmail, LookForPair
  <1>4. \A q \in SignIns : Command(q)'
    BY DEF IdentityInv, UserTypesOK, Stage, Command, Speaks, LookForPair
  <1>5. KeysHeld'
    BY DEF IdentityInv, UserTypesOK, Started, Stage, Command, KeysHeld, Speaks, HoldsIdentity,
       Linked, LookForPair
  <1>6. OwnersExist'
    BY DEF IdentityInv, UserTypesOK, Started, Stage, Command, KeysHeld, OwnersExist, Speaks,
       LookForPair
  <1>7. CodesFollowIdentities'
    BY DEF IdentityInv, UserTypesOK, Started, Stage, Command, KeysHeld, CodesFollowIdentities,
       Speaks, LookForPair
  <1>8. NoUserAlone'
    BY DEF IdentityInv, UserTypesOK, Started, Stage, Command, KeysHeld, OwnersExist, NoUserAlone,
       Speaks, LookForPair
  <1>9. QED
    BY <1>1, <1>2, <1>3, <1>4, <1>5, <1>6, <1>7, <1>8 DEF IdentityInv

\* A user is inserted or found to be there: the invariant is kept.
LEMMA InsertUserInv ==
  ASSUME IdentityInv, NEW r \in SignIns, InsertUser(r)
  PROVE  IdentityInv'
  <1> USE Apart DEF Users, userVars, inputVars, MoveTo, Respond
  <1>1. UserTypesOK'
    BY DEF IdentityInv, UserTypesOK, Started, Stage, Command, Speaks, InsertUser
  <1>2. \A q \in SignIns : Started(q)'
    BY DEF IdentityInv, UserTypesOK, Started, Stage, Command, Speaks, InsertUser
  <1>3. \A q \in SignIns : Stage(q)'
    BY DEF IdentityInv, UserTypesOK, Started, Stage, Command, Speaks, KeysHeld, OwnersExist,
       Linked, WithEmail, InsertUser
  <1>4. \A q \in SignIns : Command(q)'
    BY DEF IdentityInv, UserTypesOK, Stage, Command, Speaks, InsertUser
  <1>5. KeysHeld'
    BY DEF IdentityInv, UserTypesOK, Started, Stage, Command, KeysHeld, Speaks, HoldsIdentity,
       Linked, InsertUser
  <1>6. OwnersExist'
    BY DEF IdentityInv, UserTypesOK, Started, Stage, Command, KeysHeld, OwnersExist, Speaks,
       InsertUser
  <1>7. CodesFollowIdentities'
    BY DEF IdentityInv, UserTypesOK, Started, Stage, Command, KeysHeld, CodesFollowIdentities,
       Speaks, InsertUser
  <1>8. NoUserAlone'
    BY DEF IdentityInv, UserTypesOK, Started, Stage, Command, KeysHeld, OwnersExist, NoUserAlone,
       Speaks, InsertUser
  <1>9. QED
    BY <1>1, <1>2, <1>3, <1>4, <1>5, <1>6, <1>7, <1>8 DEF IdentityInv

\* An identity is inserted or found to be there: the invariant is kept.
LEMMA InsertIdentityInv ==
  ASSUME IdentityInv, NEW r \in SignIns, InsertIdentity(r)
  PROVE  IdentityInv'
  <1> USE Apart DEF Users, userVars, inputVars, MoveTo, Respond
  <1>1. UserTypesOK'
    BY DEF IdentityInv, UserTypesOK, Started, Stage, Command, Speaks, InsertIdentity, Insert
  <1>2. \A q \in SignIns : Started(q)'
    BY DEF IdentityInv, UserTypesOK, Started, Stage, Command, Speaks, InsertIdentity, Insert
  <1>3. \A q \in SignIns : Stage(q)'
    BY DEF IdentityInv, UserTypesOK, Started, Stage, Command, Speaks, KeysHeld, OwnersExist,
       Linked, WithEmail, InsertIdentity, Insert
  <1>4. \A q \in SignIns : Command(q)'
    BY DEF IdentityInv, UserTypesOK, Stage, Command, Speaks, InsertIdentity, Insert
  <1>5. KeysHeld'
    BY DEF IdentityInv, UserTypesOK, Started, Stage, Command, KeysHeld, Speaks, HoldsIdentity,
       Linked, InsertIdentity, Insert
  <1>6. OwnersExist'
    BY DEF IdentityInv, UserTypesOK, Started, Stage, Command, KeysHeld, OwnersExist, Speaks,
       InsertIdentity, Insert
  <1>7. CodesFollowIdentities'
    BY DEF IdentityInv, UserTypesOK, Started, Stage, Command, KeysHeld, CodesFollowIdentities,
       Speaks, InsertIdentity, Insert
  <1>8. NoUserAlone'
    BY DEF IdentityInv, UserTypesOK, Started, Stage, Command, KeysHeld, OwnersExist, NoUserAlone,
       Speaks, InsertIdentity, Insert
  <1>9. QED
    BY <1>1, <1>2, <1>3, <1>4, <1>5, <1>6, <1>7, <1>8 DEF IdentityInv

\* The identity that was first is looked up: the invariant is kept.
LEMMA LookAgainInv ==
  ASSUME IdentityInv, NEW r \in SignIns, LookAgain(r)
  PROVE  IdentityInv'
  <1> USE Apart DEF Users, userVars, inputVars, MoveTo, Respond
  <1>1. UserTypesOK'
    BY DEF IdentityInv, UserTypesOK, Started, Stage, Command, Speaks, LookAgain
  <1>2. \A q \in SignIns : Started(q)'
    BY DEF IdentityInv, UserTypesOK, Started, Stage, Command, Speaks, LookAgain
  <1>3. \A q \in SignIns : Stage(q)'
    BY DEF IdentityInv, UserTypesOK, Started, Stage, Command, Speaks, KeysHeld, OwnersExist,
       Linked, WithEmail, LookAgain
  <1>4. \A q \in SignIns : Command(q)'
    BY DEF IdentityInv, UserTypesOK, Stage, Command, Speaks, LookAgain
  <1>5. KeysHeld'
    BY DEF IdentityInv, UserTypesOK, Started, Stage, Command, KeysHeld, Speaks, HoldsIdentity,
       Linked, LookAgain
  <1>6. OwnersExist'
    BY DEF IdentityInv, UserTypesOK, Started, Stage, Command, KeysHeld, OwnersExist, Speaks,
       LookAgain
  <1>7. CodesFollowIdentities'
    BY DEF IdentityInv, UserTypesOK, Started, Stage, Command, KeysHeld, CodesFollowIdentities,
       Speaks, LookAgain
  <1>8. NoUserAlone'
    BY DEF IdentityInv, UserTypesOK, Started, Stage, Command, KeysHeld, OwnersExist, NoUserAlone,
       Speaks, LookAgain
  <1>9. QED
    BY <1>1, <1>2, <1>3, <1>4, <1>5, <1>6, <1>7, <1>8 DEF IdentityInv

\* The owner of the identity is loaded: the invariant is kept.
LEMMA LoadOwnerInv ==
  ASSUME IdentityInv, NEW r \in SignIns, LoadOwner(r)
  PROVE  IdentityInv'
  <1> USE Apart DEF Users, userVars, inputVars, MoveTo, Respond
  <1>1. UserTypesOK'
    BY DEF IdentityInv, UserTypesOK, Started, Stage, Command, Speaks, LoadOwner
  <1>2. \A q \in SignIns : Started(q)'
    BY DEF IdentityInv, UserTypesOK, Started, Stage, Command, Speaks, LoadOwner
  <1>3. \A q \in SignIns : Stage(q)'
    BY DEF IdentityInv, UserTypesOK, Started, Stage, Command, Speaks, KeysHeld, OwnersExist,
       Linked, WithEmail, LoadOwner
  <1>4. \A q \in SignIns : Command(q)'
    BY DEF IdentityInv, UserTypesOK, Stage, Command, Speaks, LoadOwner
  <1>5. KeysHeld'
    BY DEF IdentityInv, UserTypesOK, Started, Stage, Command, KeysHeld, Speaks, HoldsIdentity,
       Linked, LoadOwner
  <1>6. OwnersExist'
    BY DEF IdentityInv, UserTypesOK, Started, Stage, Command, KeysHeld, OwnersExist, Speaks,
       LoadOwner
  <1>7. CodesFollowIdentities'
    BY DEF IdentityInv, UserTypesOK, Started, Stage, Command, KeysHeld, CodesFollowIdentities,
       Speaks, LoadOwner
  <1>8. NoUserAlone'
    BY DEF IdentityInv, UserTypesOK, Started, Stage, Command, KeysHeld, OwnersExist, NoUserAlone,
       Speaks, LoadOwner
  <1>9. QED
    BY <1>1, <1>2, <1>3, <1>4, <1>5, <1>6, <1>7, <1>8 DEF IdentityInv

\* A code is issued: the invariant is kept.
LEMMA CommitCodeInv ==
  ASSUME IdentityInv, NEW r \in SignIns, CommitCode(r)
  PROVE  IdentityInv'
  <1> USE Apart DEF Users, userVars, inputVars, MoveTo, Respond
  <1>1. UserTypesOK'
    BY DEF IdentityInv, UserTypesOK, Started, Stage, Command, Speaks, CommitCode
  <1>2. \A q \in SignIns : Started(q)'
    BY DEF IdentityInv, UserTypesOK, Started, Stage, Command, Speaks, CommitCode
  <1>3. \A q \in SignIns : Stage(q)'
    BY DEF IdentityInv, UserTypesOK, Started, Stage, Command, Speaks, KeysHeld, OwnersExist,
       Linked, WithEmail, CommitCode
  <1>4. \A q \in SignIns : Command(q)'
    BY DEF IdentityInv, UserTypesOK, Stage, Command, Speaks, CommitCode
  <1>5. KeysHeld'
    BY DEF IdentityInv, UserTypesOK, Started, Stage, Command, KeysHeld, Speaks, HoldsIdentity,
       Linked, CommitCode
  <1>6. OwnersExist'
    BY DEF IdentityInv, UserTypesOK, Started, Stage, Command, KeysHeld, OwnersExist, Speaks,
       CommitCode
  <1>7. CodesFollowIdentities'
    BY DEF IdentityInv, UserTypesOK, Started, Stage, Command, KeysHeld, CodesFollowIdentities,
       Speaks, CommitCode
  <1>8. NoUserAlone'
    BY DEF IdentityInv, UserTypesOK, Started, Stage, Command, KeysHeld, OwnersExist, NoUserAlone,
       Speaks, CommitCode
  <1>9. QED
    BY <1>1, <1>2, <1>3, <1>4, <1>5, <1>6, <1>7, <1>8 DEF IdentityInv

\* An identity is committed: the invariant is kept.
LEMMA CommitLinkInv ==
  ASSUME IdentityInv, NEW r \in SignIns, CommitLink(r)
  PROVE  IdentityInv'
  <1> USE Apart DEF Users, userVars, inputVars, MoveTo, Respond
  <1>1. UserTypesOK'
    BY DEF IdentityInv, UserTypesOK, Started, Stage, Command, Speaks, CommitLink
  <1>2. \A q \in SignIns : Started(q)'
    BY DEF IdentityInv, UserTypesOK, Started, Stage, Command, Speaks, CommitLink
  <1>3. \A q \in SignIns : Stage(q)'
    BY DEF IdentityInv, UserTypesOK, Started, Stage, Command, Speaks, KeysHeld, OwnersExist,
       Linked, WithEmail, CommitLink
  <1>4. \A q \in SignIns : Command(q)'
    BY DEF IdentityInv, UserTypesOK, Stage, Command, Speaks, CommitLink
  <1>5. KeysHeld'
    BY DEF IdentityInv, UserTypesOK, Started, Stage, Command, KeysHeld, Speaks, HoldsIdentity,
       Linked, CommitLink
  <1>6. OwnersExist'
    BY DEF IdentityInv, UserTypesOK, Started, Stage, Command, KeysHeld, OwnersExist, Speaks,
       CommitLink
  <1>7. CodesFollowIdentities'
    BY DEF IdentityInv, UserTypesOK, Started, Stage, Command, KeysHeld, CodesFollowIdentities,
       Speaks, CommitLink
  <1>8. NoUserAlone'
    BY DEF IdentityInv, UserTypesOK, Started, Stage, Command, KeysHeld, OwnersExist, NoUserAlone,
       Speaks, CommitLink
  <1>9. QED
    BY <1>1, <1>2, <1>3, <1>4, <1>5, <1>6, <1>7, <1>8 DEF IdentityInv

\* A user is committed: the invariant is kept.
LEMMA CommitUserInv ==
  ASSUME IdentityInv, NEW r \in SignIns, CommitUser(r)
  PROVE  IdentityInv'
  <1> USE Apart DEF Users, userVars, inputVars, MoveTo, Respond
  <1>1. UserTypesOK'
    BY DEF IdentityInv, UserTypesOK, Started, Stage, Command, Speaks, CommitUser
  <1>2. \A q \in SignIns : Started(q)'
    BY DEF IdentityInv, UserTypesOK, Started, Stage, Command, Speaks, CommitUser
  <1>3. \A q \in SignIns : Stage(q)'
    BY DEF IdentityInv, UserTypesOK, Started, Stage, Command, Speaks, KeysHeld, OwnersExist,
       Linked, WithEmail, CommitUser
  <1>4. \A q \in SignIns : Command(q)'
    BY DEF IdentityInv, UserTypesOK, Stage, Command, Speaks, CommitUser
  <1>5. KeysHeld'
    BY DEF IdentityInv, UserTypesOK, Started, Stage, Command, KeysHeld, Speaks, HoldsIdentity,
       Linked, CommitUser
  <1>6. OwnersExist'
    BY DEF IdentityInv, UserTypesOK, Started, Stage, Command, KeysHeld, OwnersExist, Speaks,
       CommitUser
  <1>7. CodesFollowIdentities'
    BY DEF IdentityInv, UserTypesOK, Started, Stage, Command, KeysHeld, CodesFollowIdentities,
       Speaks, CommitUser
  <1>8. NoUserAlone'
    <2> SUFFICES ASSUME NEW u \in Users, email'[u] # None, ~ password'[u]
                 PROVE  \E s \in Subjects : owner'[s] = u
      BY DEF NoUserAlone
    <2>1. CASE u = r
      <3>1. op[r] = "join" /\ subject[r] \in Subjects
        BY <2>1 DEF IdentityInv, UserTypesOK, Started, Speaks, CommitUser
      <3>2. owner'[subject[r]] = u
        BY <2>1, <3>1 DEF IdentityInv, UserTypesOK, CommitUser
      <3>3. QED
        BY <3>1, <3>2
    <2>2. CASE u # r
      <3>1. email[u] # None /\ ~ password[u]
        BY <2>2 DEF IdentityInv, UserTypesOK, CommitUser
      <3>2. PICK s \in Subjects : owner[s] = u
        BY <3>1 DEF IdentityInv, NoUserAlone
      <3>3. owner'[s] = u
        BY <3>2 DEF IdentityInv, UserTypesOK, KeysHeld, Speaks, CommitUser
      <3>4. QED
        BY <3>3
    <2>3. QED
      BY <2>1, <2>2
  <1>9. QED
    BY <1>1, <1>2, <1>3, <1>4, <1>5, <1>6, <1>7, <1>8 DEF IdentityInv

\* An edit is committed: the invariant is kept.
LEMMA CommitEditInv ==
  ASSUME IdentityInv, NEW r \in SignIns, CommitEdit(r)
  PROVE  IdentityInv'
  <1> USE Apart DEF Users, userVars, inputVars, MoveTo, Respond
  <1>1. UserTypesOK'
    BY DEF IdentityInv, UserTypesOK, Started, Stage, Command, Speaks, CommitEdit
  <1>2. \A q \in SignIns : Started(q)'
    BY DEF IdentityInv, UserTypesOK, Started, Stage, Command, Speaks, CommitEdit
  <1>3. \A q \in SignIns : Stage(q)'
    BY DEF IdentityInv, UserTypesOK, Started, Stage, Command, Speaks, KeysHeld, OwnersExist,
       Linked, WithEmail, CommitEdit
  <1>4. \A q \in SignIns : Command(q)'
    BY DEF IdentityInv, UserTypesOK, Stage, Command, Speaks, CommitEdit
  <1>5. KeysHeld'
    BY DEF IdentityInv, UserTypesOK, Started, Stage, Command, KeysHeld, Speaks, HoldsIdentity,
       Linked, CommitEdit
  <1>6. OwnersExist'
    BY DEF IdentityInv, UserTypesOK, Started, Stage, Command, KeysHeld, OwnersExist, Speaks,
       CommitEdit
  <1>7. CodesFollowIdentities'
    BY DEF IdentityInv, UserTypesOK, Started, Stage, Command, KeysHeld, CodesFollowIdentities,
       Speaks, CommitEdit
  <1>8. NoUserAlone'
    BY DEF IdentityInv, UserTypesOK, Started, Stage, Command, KeysHeld, OwnersExist, NoUserAlone,
       Speaks, CommitEdit
  <1>9. QED
    BY <1>1, <1>2, <1>3, <1>4, <1>5, <1>6, <1>7, <1>8 DEF IdentityInv

\* A connection is lost: the invariant is kept.
LEMMA FailInv ==
  ASSUME IdentityInv, NEW r \in SignIns, Fail(r)
  PROVE  IdentityInv'
  <1> USE Apart DEF Users, userVars, inputVars, MoveTo, Respond
  <1>1. UserTypesOK'
    BY DEF IdentityInv, UserTypesOK, Started, Stage, Command, Speaks, Fail
  <1>2. \A q \in SignIns : Started(q)'
    BY DEF IdentityInv, UserTypesOK, Started, Stage, Command, Speaks, Fail
  <1>3. \A q \in SignIns : Stage(q)'
    BY DEF IdentityInv, UserTypesOK, Started, Stage, Command, Speaks, KeysHeld, OwnersExist,
       Linked, WithEmail, Fail
  <1>4. \A q \in SignIns : Command(q)'
    BY DEF IdentityInv, UserTypesOK, Stage, Command, Speaks, Fail
  <1>5. KeysHeld'
    BY DEF IdentityInv, UserTypesOK, Started, Stage, Command, KeysHeld, Speaks, HoldsIdentity,
       Linked, Fail
  <1>6. OwnersExist'
    BY DEF IdentityInv, UserTypesOK, Started, Stage, Command, KeysHeld, OwnersExist, Speaks, Fail
  <1>7. CodesFollowIdentities'
    BY DEF IdentityInv, UserTypesOK, Started, Stage, Command, KeysHeld, CodesFollowIdentities,
       Speaks, Fail
  <1>8. NoUserAlone'
    BY DEF IdentityInv, UserTypesOK, Started, Stage, Command, KeysHeld, OwnersExist, NoUserAlone,
       Speaks, Fail
  <1>9. QED
    BY <1>1, <1>2, <1>3, <1>4, <1>5, <1>6, <1>7, <1>8 DEF IdentityInv

\* A request comes in: the invariant is kept.
LEMMA PresentInv ==
  ASSUME IdentityInv, NEW r \in SignIns, NEW c \in SignInCommands, Present(r, c)
  PROVE  IdentityInv'
  <1> USE Apart DEF Users, userVars, inputVars, MoveTo, Respond
  <1>1. UserTypesOK'
    BY DEF IdentityInv, UserTypesOK, Started, Stage, Command, Speaks, Present, SignInCommands
  <1>2. \A q \in SignIns : Started(q)'
    BY DEF IdentityInv, UserTypesOK, Started, Stage, Command, Speaks, Present, SignInCommands
  <1>3. \A q \in SignIns : Stage(q)'
    BY DEF IdentityInv, UserTypesOK, Started, Stage, Command, Speaks, KeysHeld, OwnersExist,
       Linked, WithEmail, Present, SignInCommands
  <1>4. \A q \in SignIns : Command(q)'
    BY DEF IdentityInv, UserTypesOK, Stage, Command, Speaks, Present, SignInCommands
  <1>5. KeysHeld'
    BY DEF IdentityInv, UserTypesOK, Started, Stage, Command, KeysHeld, Speaks, HoldsIdentity,
       Linked, Present, SignInCommands
  <1>6. OwnersExist'
    BY DEF IdentityInv, UserTypesOK, Started, Stage, Command, KeysHeld, OwnersExist, Speaks,
       Present, SignInCommands
  <1>7. CodesFollowIdentities'
    BY DEF IdentityInv, UserTypesOK, Started, Stage, Command, KeysHeld, CodesFollowIdentities,
       Speaks, Present, SignInCommands
  <1>8. NoUserAlone'
    BY DEF IdentityInv, UserTypesOK, Started, Stage, Command, KeysHeld, OwnersExist, NoUserAlone,
       Speaks, Present, SignInCommands
  <1>9. QED
    BY <1>1, <1>2, <1>3, <1>4, <1>5, <1>6, <1>7, <1>8 DEF IdentityInv

\* A user is deactivated: the invariant is kept.
LEMMA DeactivateInv ==
  ASSUME IdentityInv, NEW u \in Users, DeactivateUser(u)
  PROVE  IdentityInv'
  <1> USE Apart DEF Users, userVars, inputVars, MoveTo, Respond
  <1>1. UserTypesOK'
    BY DEF IdentityInv, UserTypesOK, Started, Stage, Command, Speaks, DeactivateUser
  <1>2. \A q \in SignIns : Started(q)'
    BY DEF IdentityInv, UserTypesOK, Started, Stage, Command, Speaks, DeactivateUser
  <1>3. \A q \in SignIns : Stage(q)'
    BY DEF IdentityInv, UserTypesOK, Started, Stage, Command, Speaks, KeysHeld, OwnersExist,
       Linked, WithEmail, DeactivateUser
  <1>4. \A q \in SignIns : Command(q)'
    BY DEF IdentityInv, UserTypesOK, Stage, Command, Speaks, DeactivateUser
  <1>5. KeysHeld'
    BY DEF IdentityInv, UserTypesOK, Started, Stage, Command, KeysHeld, Speaks, HoldsIdentity,
       Linked, DeactivateUser
  <1>6. OwnersExist'
    BY DEF IdentityInv, UserTypesOK, Started, Stage, Command, KeysHeld, OwnersExist, Speaks,
       DeactivateUser
  <1>7. CodesFollowIdentities'
    BY DEF IdentityInv, UserTypesOK, Started, Stage, Command, KeysHeld, CodesFollowIdentities,
       Speaks, DeactivateUser
  <1>8. NoUserAlone'
    BY DEF IdentityInv, UserTypesOK, Started, Stage, Command, KeysHeld, OwnersExist, NoUserAlone,
       Speaks, DeactivateUser
  <1>9. QED
    BY <1>1, <1>2, <1>3, <1>4, <1>5, <1>6, <1>7, <1>8 DEF IdentityInv

\* Every step keeps the invariant.
LEMMA IdentitiesStepInv == IdentityInv /\ [IdentitiesNext]_signInVars => IdentityInv'
  <1> SUFFICES ASSUME IdentityInv, [IdentitiesNext]_signInVars PROVE IdentityInv'
    OBVIOUS
  <1>1. ASSUME NEW r \in SignIns, NEW c \in Offers[r], Present(r, c) PROVE IdentityInv'
    <2>1. c \in SignInCommands
      BY IdentitiesAssumption DEF IdentitiesAssumption
    <2>2. QED
      BY <1>1, <2>1, PresentInv
  <1>2. ASSUME NEW r \in SignIns, HandleSignIn(r) PROVE IdentityInv'
    BY <1>2, LookForSubjectInv, MatchEmailInv, CheckEmailInv, LookForPairInv, InsertUserInv,
       InsertIdentityInv, LookAgainInv, LoadOwnerInv, CommitCodeInv, CommitLinkInv, CommitUserInv,
       CommitEditInv DEF HandleSignIn
  <1>3. ASSUME NEW r \in SignIns, Fail(r) PROVE IdentityInv'
    BY <1>3, FailInv
  <1>4. ASSUME NEW u \in Users, DeactivateUser(u) PROVE IdentityInv'
    BY <1>4, DeactivateInv
  <1>5. CASE UNCHANGED signInVars
    BY <1>5 DEF signInVars, userVars, inputVars, IdentityInv, UserTypesOK, Started, Stage,
       Command, Speaks, Linked, KeysHeld, OwnersExist, CodesFollowIdentities, NoUserAlone
  <1>6. QED
    BY <1>1, <1>2, <1>3, <1>4, <1>5 DEF IdentitiesNext

\* The inductive invariant holds of every behaviour.
THEOREM IdentityInvariance == IdentitiesSpec => []IdentityInv
  BY IdentitiesInitInv, IdentitiesStepInv, PTL DEF IdentitiesSpec

\* The variables have their types.
THEOREM Types == IdentitiesSpec => []UserTypesOK
  BY IdentityInvariance, PTL DEF IdentityInv

\* Login codes are for the owner of the provider's account (resolve_callback), however
\* many callbacks of however many people overlap.
THEOREM CodesForOwners == IdentitiesSpec => []CodesFollowIdentities
  BY IdentityInvariance, PTL DEF IdentityInv

\* No registration leaves a user who cannot sign in (register_oauth_user).
THEOREM NobodyAlone == IdentitiesSpec => []NoUserAlone
  BY IdentityInvariance, PTL DEF IdentityInv

-----------------------------------------------------------------------------
\* What a step promises of the answers it gives.
Explained ==
  \A r \in SignIns : outcome'[r] # outcome[r] =>
    /\ outcome'[r] = "conflict" =>
         \/ WithEmail(address[r]) \ {found[r]} # {}
         \/ op[r] = "join" /\ owner[subject[r]] # None
    /\ outcome'[r] = "refused" =>
         \E u \in Person(r) :
           \/ ~ active[u]
           \/ owner[subject[r]] \notin {None, u}
           \/ Linked(u, Provider[subject[r]]) \ {subject[r]} # {}

\* Looks that find the key of somebody else explain the answer.
LEMMA LooksExplained ==
  ASSUME IdentityInv, NEW r \in SignIns,
         LookForSubject(r) \/ MatchEmail(r) \/ CheckEmail(r) \/ LookForPair(r)
  PROVE  Explained
  <1> USE Apart DEF Users, IdentityInv, UserTypesOK, MoveTo, Respond, Explained
  <1>1. CASE LookForSubject(r)
    BY <1>1 DEF LookForSubject
  <1>2. CASE MatchEmail(r)
    BY <1>2 DEF MatchEmail, WithEmail, Person, Stage
  <1>3. CASE CheckEmail(r)
    BY <1>3 DEF CheckEmail, WithEmail, Stage
  <1>4. CASE LookForPair(r)
    BY <1>4 DEF LookForPair, Linked, Person, Stage
  <1>5. QED
    BY <1>1, <1>2, <1>3, <1>4

\* Inserts that meet a key explain the answer.
LEMMA InsertsExplained ==
  ASSUME IdentityInv, NEW r \in SignIns, InsertUser(r) \/ InsertIdentity(r)
  PROVE  Explained
  <1> USE Apart DEF Users, IdentityInv, UserTypesOK, MoveTo, Respond, Explained
  <1>1. CASE InsertUser(r)
    BY <1>1 DEF InsertUser, WithEmail, Stage
  <1>2. CASE InsertIdentity(r)
    <2>1. ASSUME op[r] # "callback" PROVE Linked(found[r], Provider[subject[r]]) = {}
      BY <1>2, <2>1 DEF InsertIdentity, Insert, Linked, Stage, Started, OwnersExist
    <2>2. stage[r] = "identity" => op[r] \in {"callback", "join"}
      BY DEF Command, Speaks
    <2>3. QED
      BY <1>2, <2>1, <2>2 DEF InsertIdentity, Insert
  <1>3. QED
    BY <1>1, <1>2

\* What a callback finds after it lost a race, and the owner it loads, explain the answer.
LEMMA LoadsExplained ==
  ASSUME IdentityInv, NEW r \in SignIns, LookAgain(r) \/ LoadOwner(r)
  PROVE  Explained
  <1> USE Apart DEF Users, IdentityInv, UserTypesOK, MoveTo, Respond, Explained
  <1>1. CASE LookAgain(r)
    <2>1. found[r] # None /\ Person(r) = {found[r]}
      BY <1>1 DEF LookAgain, Stage, Person
    <2>2. owner[subject[r]] # None \/ Linked(found[r], Provider[subject[r]]) # {}
      BY <1>1 DEF LookAgain, Stage
    <2>3. owner[subject[r]] = None => subject[r] \notin Linked(found[r], Provider[subject[r]])
      BY <2>1 DEF Linked
    <2>4. owner[subject[r]] # found[r] =>
            \/ owner[subject[r]] \notin {None, found[r]}
            \/ Linked(found[r], Provider[subject[r]]) \ {subject[r]} # {}
      BY <2>2, <2>3
    <2>5. \A q \in SignIns : outcome'[q] # outcome[q] =>
            q = r /\ outcome'[q] = "refused" /\ owner[subject[r]] # found[r]
      BY <1>1 DEF LookAgain
    <2>6. QED
      BY <2>1, <2>4, <2>5
  <1>2. CASE LoadOwner(r)
    BY <1>2 DEF LoadOwner, Stage, Person
  <1>3. QED
    BY <1>1, <1>2

\* The steps that end a request otherwise explain the answer.
LEMMA EndsExplained ==
  ASSUME IdentityInv, NEW r \in SignIns,
         CommitCode(r) \/ CommitLink(r) \/ CommitUser(r) \/ CommitEdit(r) \/ Fail(r)
  PROVE  Explained
  <1> USE Apart DEF Users, IdentityInv, UserTypesOK, MoveTo, Respond, Explained
  <1>1. CASE CommitCode(r)
    BY <1>1 DEF CommitCode
  <1>2. CASE CommitLink(r)
    BY <1>2 DEF CommitLink
  <1>3. CASE CommitUser(r)
    BY <1>3 DEF CommitUser
  <1>4. CASE CommitEdit(r)
    BY <1>4 DEF CommitEdit, WithEmail
  <1>5. CASE Fail(r)
    BY <1>5 DEF Fail
  <1>6. QED
    BY <1>1, <1>2, <1>3, <1>4, <1>5

\* A step that answers nothing explains everything.
LEMMA OthersExplained ==
  ASSUME IdentityInv,
         \/ UNCHANGED signInVars
         \/ \E u \in Users : DeactivateUser(u)
         \/ \E r \in SignIns : \E c \in Offers[r] : Present(r, c)
  PROVE  Explained
  <1>1. outcome' = outcome
    BY DEF signInVars, DeactivateUser, Present, MoveTo
  <1>2. QED
    BY <1>1 DEF Explained

\* Every step explains its answers.
LEMMA StepExplained == IdentityInv /\ [IdentitiesNext]_signInVars => [Explained]_signInVars
  <1> SUFFICES ASSUME IdentityInv, [IdentitiesNext]_signInVars PROVE Explained
    OBVIOUS
  <1>1. CASE \E r \in SignIns : HandleSignIn(r) \/ Fail(r)
    BY <1>1, LooksExplained, InsertsExplained, LoadsExplained, EndsExplained DEF HandleSignIn
  <1>2. CASE ~ \E r \in SignIns : HandleSignIn(r) \/ Fail(r)
    BY <1>2, OthersExplained DEF IdentitiesNext
  <1>3. QED
    BY <1>1, <1>2

\* Nobody is refused without a reason that holds at that moment; in particular a callback
\* that lost the race to another for the same user is not (resolve_callback).
THEOREM Reasons == IdentitiesSpec => RefusedWithReason
  <1>1. IdentityInv /\ [IdentitiesNext]_signInVars => [Explained]_signInVars
    BY StepExplained
  <1>2. IdentitiesSpec => [][Explained]_signInVars
    BY <1>1, IdentityInvariance, PTL DEF IdentitiesSpec
  <1>3. QED
    BY <1>2 DEF RefusedWithReason, Explained
=============================================================================
