------------------------------ MODULE Sessions ------------------------------
(***************************************************************************)
(* The refresh sessions of one user: logging in with a password or with a  *)
(* login exchange code, rotating a refresh token, revoking the family of a *)
(* token that comes back, logging out (modules/auth).                      *)
(*                                                                         *)
(* A session is named by the request that inserted it, and so is its       *)
(* token. Handlers lock the row they were given a token or code of; a      *)
(* handler that finds its token used also locks the active rows of the     *)
(* family, one after the other, as the query returned them.                *)
(***************************************************************************)

CONSTANTS
  Requests,   \* HTTP requests, each at most once
  Codes,      \* rows of oauth_login_exchanges
  Ask,        \* what each request may ask for: sets of commands, see CommandSet
  NoRequest, NoRow   \* no request, no session; nothing inserted yet

\* revoked_reason, or "active" while revoked_at is NULL.
Revoked == {"rotated", "logout", "reuse_detected", "expired", "invalid_user"}
Rows == [family : Requests, parent : Requests \cup {NoRequest},
         next : Requests \cup {NoRequest}, state : Revoked \cup {"active"}]

\* A request names a session by its token, or a code; a login names neither.
CommandSet ==
  [op : {"refresh", "logout"}, row : Requests]
  \cup [op : {"exchange"}, row : Codes]
  \cup [op : {"login"}, row : {NoRequest}]

ASSUME SessionsAssumption ==
  /\ Requests \cap Codes = {}
  /\ NoRequest \notin Requests \cup Codes \cup CommandSet
  /\ NoRow \notin Rows \cup Revoked \cup {"active", "consumed"}
  /\ Ask \in [Requests -> SUBSET CommandSet]

VARIABLES
  session,  \* refresh_sessions
  code,     \* consumed_at of oauth_login_exchanges
  expired,  \* the sessions and codes whose expires_at has passed
  enabled,  \* users.is_active
  rowLock,  \* the request that holds the FOR UPDATE lock of a row
  cmd,      \* what each request asks for
  pc,       \* where its handler is
  late,     \* whether its row had expired by the instant it took as now
  seen,     \* the state in which it found its row
  listed,   \* the active sessions of the family its query found
  revoke,   \* those it has locked and found active still
  reply     \* how it was answered

requestVars == <<cmd, pc, late, seen, listed, revoke, reply>>
vars == <<session, code, expired, enabled, rowLock, requestVars>>

-----------------------------------------------------------------------------
State(x) ==
  IF x \in Codes THEN code[x] ELSE IF session[x] = NoRow THEN NoRow ELSE session[x].state

Family(f) == {s \in Requests : session[s] # NoRow /\ session[s].family = f}
Active(f) == {s \in Family(f) : session[s].state = "active"}

Init ==
  /\ session = [s \in Requests |-> NoRow]
  /\ code = [c \in Codes |-> NoRow]
  /\ expired = {}
  /\ enabled = TRUE
  /\ rowLock = [x \in Requests \cup Codes |-> NoRequest]
  /\ cmd = [r \in Requests |-> NoRequest]
  /\ pc = [r \in Requests |-> "new"]
  /\ late = [r \in Requests |-> FALSE]
  /\ seen = [r \in Requests |-> NoRow]
  /\ listed = [r \in Requests |-> {}]
  /\ revoke = [r \in Requests |-> {}]
  /\ reply = [r \in Requests |-> "none"]

\* The handler is over: its transaction has ended and its locks are free.
Answer(r, answer) ==
  /\ pc' = [pc EXCEPT ![r] = "done"]
  /\ reply' = [reply EXCEPT ![r] = answer]
  /\ rowLock' = [x \in DOMAIN rowLock |-> IF rowLock[x] = r THEN NoRequest ELSE rowLock[x]]

GoTo(r, place) ==
  /\ pc' = [pc EXCEPT ![r] = place]
  /\ UNCHANGED reply

-----------------------------------------------------------------------------
\* _create_login_exchange: a callback of a provider issues a code for an active user.
IssueCode(c) ==
  /\ enabled
  /\ code[c] = NoRow
  /\ code' = [code EXCEPT ![c] = "active"]
  /\ UNCHANGED <<session, expired, enabled, rowLock, requestVars>>

\* A request comes in with a token or code that exists; any other is refused without a
\* trace. Its handler reads the clock first.
Arrive(r, c) ==
  /\ pc[r] = "new"
  /\ c.op # "login" => State(c.row) # NoRow
  /\ cmd' = [cmd EXCEPT ![r] = c]
  /\ GoTo(r, IF c.op = "login" THEN "read" ELSE "lock")
  /\ late' = [late EXCEPT ![r] = c.row \in expired]
  /\ UNCHANGED <<session, code, expired, enabled, rowLock, seen, listed, revoke>>

\* Mutant of Lock: the row is read without FOR UPDATE.
ReadUnlocked(r) ==
  /\ pc[r] = "lock"
  /\ seen' = [seen EXCEPT ![r] = State(cmd[r].row)]
  /\ GoTo(r, "read")
  /\ UNCHANGED <<session, code, expired, enabled, rowLock, cmd, late, listed, revoke>>

\* get_by_token_hash_for_update, get_by_code_hash_for_update.
Lock(r) ==
  LET x == cmd[r].row IN
  /\ pc[r] = "lock"
  /\ rowLock[x] = NoRequest
  /\ rowLock' = [rowLock EXCEPT ![x] = r]
  /\ seen' = [seen EXCEPT ![r] = State(x)]
  /\ GoTo(r, "read")
  /\ UNCHANGED <<session, code, expired, enabled, cmd, late, listed, revoke>>

\* Sessions are revoked for a reason.
Revoke(sessions, reason) ==
  session' = [s \in Requests |->
                IF s \in sessions THEN [session[s] EXCEPT !.state = reason] ELSE session[s]]

\* The row a handler was given is used up without a new session: for a code this is
\* consumed_at, for a session revoked_at with its reason.
UseUp(r, reason) ==
  LET x == cmd[r].row IN
  IF x \in Codes
  THEN code' = [code EXCEPT ![x] = "consumed"] /\ UNCHANGED session
  ELSE Revoke({x}, reason) /\ UNCHANGED code

\* Mutant of Good: a token is refused only after a rotation.
GoodUnlessRotated(r) == cmd[r].op # "login" => seen[r] # "rotated" /\ ~ late[r]

\* Is the token or code still good, as far as its row says?
Good(r) == cmd[r].op # "login" => seen[r] = "active" /\ ~ late[r]

\* refresh_tokens and exchange_login_code find the row expired.
RefuseExpired(r) ==
  /\ pc[r] = "read"
  /\ cmd[r].op \in {"refresh", "exchange"}
  /\ seen[r] = "active" /\ late[r]
  /\ UseUp(r, "expired")
  /\ Answer(r, "rejected")
  /\ UNCHANGED <<expired, enabled, cmd, late, seen, listed, revoke>>

\* exchange_login_code finds the code consumed.
RefuseConsumed(r) ==
  /\ pc[r] = "read"
  /\ cmd[r].op = "exchange" /\ seen[r] # "active"
  /\ Answer(r, "rejected")
  /\ UNCHANGED <<session, code, expired, enabled, cmd, late, seen, listed, revoke>>

\* The user is read: a new session, or the row used up if the user is not active; a login
\* may also be refused for its password.
CheckUser(r) ==
  /\ pc[r] = "read"
  /\ cmd[r].op # "logout" /\ Good(r)
  /\ \/ /\ enabled
        /\ GoTo(r, "commit")
        /\ UNCHANGED <<session, code, rowLock>>
     \/ /\ cmd[r].op = "login"
        /\ Answer(r, "rejected")
        /\ UNCHANGED <<session, code>>
     \/ /\ ~ enabled /\ cmd[r].op # "login"
        /\ UseUp(r, "invalid_user")
        /\ Answer(r, "rejected")
  /\ UNCHANGED <<expired, enabled, cmd, late, seen, listed, revoke>>

\* create_refresh_session of a login or an exchange: a family of its own.
CommitLogin(r) ==
  LET c == cmd[r] IN
  /\ pc[r] = "commit"
  /\ c.op \in {"login", "exchange"}
  /\ session' = [session EXCEPT ![r] =
       [family |-> r, parent |-> NoRequest, next |-> NoRequest, state |-> "active"]]
  /\ code' = IF c.op = "exchange" THEN [code EXCEPT ![c.row] = "consumed"] ELSE code
  /\ Answer(r, "ok")
  /\ UNCHANGED <<expired, enabled, cmd, late, seen, listed, revoke>>

\* refresh_tokens: the new session, and the old one revoked in its favour.
CommitRotation(r) ==
  LET t == cmd[r].row IN
  /\ pc[r] = "commit"
  /\ cmd[r].op = "refresh"
  /\ session' = [session EXCEPT ![r] = [family |-> session[t].family, parent |-> t,
                                        next |-> NoRequest, state |-> "active"],
                                ![t].next = r, ![t].state = "rotated"]
  /\ Answer(r, "ok")
  /\ UNCHANGED <<code, expired, enabled, cmd, late, seen, listed, revoke>>

\* logout_user: revoked, if it is not already.
CommitLogout(r) ==
  /\ pc[r] = "read"
  /\ cmd[r].op = "logout"
  /\ Revoke(IF seen[r] = "active" THEN {cmd[r].row} ELSE {}, "logout")
  /\ Answer(r, "ok")
  /\ UNCHANGED <<code, expired, enabled, cmd, late, seen, listed, revoke>>

\* Mutant of ListFamily: the revoked sessions are locked as well.
ListWholeFamily(r) ==
  /\ pc[r] = "read"
  /\ cmd[r].op = "refresh" /\ seen[r] # "active"
  /\ listed' = [listed EXCEPT ![r] = Family(session[cmd[r].row].family)]
  /\ GoTo(r, "family")
  /\ UNCHANGED <<session, code, expired, enabled, rowLock, cmd, late, seen, revoke>>

\* The token has been used: list_active_by_family_for_update begins with what is
\* committed by now.
ListFamily(r) ==
  /\ pc[r] = "read"
  /\ cmd[r].op = "refresh" /\ seen[r] # "active"
  /\ listed' = [listed EXCEPT ![r] = Active(session[cmd[r].row].family)]
  /\ GoTo(r, "family")
  /\ UNCHANGED <<session, code, expired, enabled, rowLock, cmd, late, seen, revoke>>

\* It waits for each row and takes it if it is active still.
LockFamily(r, s) ==
  /\ pc[r] = "family"
  /\ s \in listed[r]
  /\ rowLock[s] = NoRequest
  /\ rowLock' = [rowLock EXCEPT ![s] = r]
  /\ revoke' = [revoke EXCEPT ![r] = IF session[s].state = "active" THEN @ \cup {s} ELSE @]
  /\ UNCHANGED <<session, code, expired, enabled, cmd, pc, late, seen, listed, reply>>

\* Mutant of CommitReuse: the answer comes without revoking.
AnswerReuse(r) ==
  /\ pc[r] = "family"
  /\ \A s \in listed[r] : rowLock[s] = r
  /\ Answer(r, "reused")
  /\ UNCHANGED <<session, code, expired, enabled, cmd, late, seen, listed, revoke>>

\* revoke_refresh_family.
CommitReuse(r) ==
  /\ pc[r] = "family"
  /\ \A s \in listed[r] : rowLock[s] = r
  /\ Revoke(revoke[r], "reuse_detected")
  /\ Answer(r, "reused")
  /\ UNCHANGED <<code, expired, enabled, cmd, late, seen, listed, revoke>>

\* The connection or the process is lost: the transaction is rolled back.
Abort(r) ==
  /\ pc[r] \notin {"new", "done"}
  /\ Answer(r, "error")
  /\ UNCHANGED <<session, code, expired, enabled, cmd, late, seen, listed, revoke>>

\* expires_at of a row passes; a session expires after the one it replaced.
Expire(x) ==
  /\ State(x) # NoRow
  /\ x \in Requests => session[x].parent \in expired \cup {NoRequest}
  /\ x \notin expired
  /\ expired' = expired \cup {x}
  /\ UNCHANGED <<session, code, enabled, rowLock, requestVars>>

\* The user is deactivated, outside this program.
Deactivate ==
  /\ enabled
  /\ enabled' = FALSE
  /\ UNCHANGED <<session, code, expired, rowLock, requestVars>>

Handle(r) ==
  \/ Lock(r) \/ RefuseExpired(r) \/ RefuseConsumed(r) \/ CheckUser(r)
  \/ CommitLogin(r) \/ CommitRotation(r) \/ CommitLogout(r)
  \/ ListFamily(r) \/ (\E s \in Requests : LockFamily(r, s)) \/ CommitReuse(r)

Next ==
  \/ \E r \in Requests : Handle(r) \/ Abort(r) \/ \E c \in Ask[r] : Arrive(r, c)
  \/ \E c \in Codes : IssueCode(c)
  \/ \E x \in Requests \cup Codes : Expire(x)
  \/ Deactivate

\* A handler goes on as long as the rows it waits for come free.
Spec == Init /\ [][Next]_vars /\ \A r \in Requests : WF_vars(Handle(r))

-----------------------------------------------------------------------------
\* Rows, locks and handlers keep their types, and a handler is over exactly when it has
\* answered.
TypeOK ==
  /\ session \in [Requests -> Rows \cup {NoRow}]
  /\ code \in [Codes -> {NoRow, "active", "consumed"}]
  /\ expired \subseteq Requests \cup Codes
  /\ enabled \in BOOLEAN
  /\ rowLock \in [Requests \cup Codes -> Requests \cup {NoRequest}]
  /\ cmd \in [Requests -> CommandSet \cup {NoRequest}]
  /\ pc \in [Requests -> {"new", "lock", "read", "family", "commit", "done"}]
  /\ late \in [Requests -> BOOLEAN]
  /\ seen \in [Requests -> Revoked \cup {"active", "consumed", NoRow}]
  /\ listed \in [Requests -> SUBSET Requests]
  /\ revoke \in [Requests -> SUBSET Requests]
  /\ reply \in [Requests -> {"none", "ok", "rejected", "reused", "error"}]
  /\ \A r \in Requests : /\ reply[r] = "none" <=> pc[r] # "done"
                         /\ cmd[r] = NoRequest <=> pc[r] = "new"

\* However many requests present its tokens at once, a family has one active session at
\* most (refresh_tokens).
OneActivePerFamily ==
  \A f \in Requests : \A s, t \in Active(f) : s = t

\* Of the requests that present one token or one code, one at most is answered with new
\* tokens (get_by_token_hash_for_update, get_by_code_hash_for_update).
RedeemedOnce ==
  \A q, r \in Requests :
    /\ reply[q] = "ok" /\ reply[r] = "ok"
    /\ cmd[q].op \in {"refresh", "exchange"} /\ cmd[r].op \in {"refresh", "exchange"}
    /\ cmd[q].row = cmd[r].row
    => q = r

\* The sessions of a family form a chain: each but the first names the one it replaced,
\* which names it in turn and was revoked as rotated (parent_session_id and
\* replaced_by_session_id in refresh_tokens).
FamilyIsChain ==
  \A s \in Requests : session[s] # NoRow =>
    LET row == session[s] IN
    /\ row.state = "rotated" <=> row.next # NoRequest
    /\ row.next # NoRequest => /\ session[row.next] # NoRow
                                /\ session[row.next].parent = s
                                /\ session[row.next].family = row.family
    /\ row.parent # NoRequest => session[row.parent] # NoRow /\ session[row.parent].next = s
    /\ row.parent = NoRequest <=> row.family = s

\* A revoked session stays revoked for the reason it was revoked for: a logout, an expiry
\* or the revocation of the family that comes second does not overwrite it
\* (list_active_by_family_for_update, logout_user).
RevokedForGood ==
  [][\A s \in Requests :
       session[s] # NoRow /\ session[s].state # "active" =>
         session'[s] # NoRow /\ session'[s].state = session[s].state]_vars

\* A family without an active session never gets one again, whatever was under way when
\* it lost the last (refresh_tokens).
NoRevival ==
  [][\A f \in Requests : Family(f) # {} /\ Active(f) = {} => Active(f)' = {}]_vars

\* When a used token has come back, every session of its family that was active is
\* revoked; one that is active afterwards was inserted by a rotation that committed while
\* the handler was listing and locking the family (revoke_refresh_family).
ReuseRevokes ==
  [][\A r \in Requests : reply[r] = "none" /\ reply'[r] = "reused" =>
       LET family == Active(session[cmd[r].row].family)' IN
       /\ family \cap listed[r] = {}
       /\ family # {} => \E t \in listed[r] : session'[t].state = "rotated"]_vars

\* Every request is answered: handlers that lock a family row by row never wait for each
\* other in a circle (list_active_by_family_for_update).
EveryRequestAnswered ==
  \A r \in Requests : pc[r] # "new" ~> pc[r] = "done"

\* What the proofs need besides: a handler that goes on has the row it read locked, and
\* the row is as it was read;
LocksHeld ==
  /\ \A r \in Requests : pc[r] # "new" => cmd[r].op = "login" \/ State(cmd[r].row) # NoRow
  /\ \A r \in Requests : pc[r] \in {"lock", "family"} => cmd[r].op # "login"
  /\ \A r \in Requests : pc[r] \in {"read", "family", "commit"} /\ cmd[r].op # "login" =>
       rowLock[cmd[r].row] = r /\ seen[r] = State(cmd[r].row)
  /\ \A r \in Requests : pc[r] = "commit" => cmd[r].op # "logout" /\ Good(r)
  /\ \A r \in Requests : pc[r] = "family" =>
       /\ cmd[r].op = "refresh" /\ seen[r] # "active"
       /\ \A s \in listed[r] : session[s] # NoRow
                                /\ session[s].family = session[cmd[r].row].family
       /\ \A s \in listed[r] : rowLock[s] = r => (s \in revoke[r] <=> session[s].state = "active")
       /\ \A s \in revoke[r] : s \in listed[r] /\ rowLock[s] = r
  /\ \A r \in Requests : pc[r] \notin {"family", "done"} => revoke[r] = {}
  /\ \A x \in Requests \cup Codes : rowLock[x] # NoRequest =>
       /\ pc[rowLock[x]] \in {"read", "family", "commit"}
       /\ pc[rowLock[x]] # "family" => x = cmd[rowLock[x]].row

\* a session appears with the end of its request;
Inserted ==
  /\ \A r \in Requests : session[r] # NoRow => pc[r] = "done"
  /\ \A s \in Requests : session[s] # NoRow => session[session[s].family] # NoRow

\* a family whose session was revoked other than by rotation has no active one;
TerminalIsLast ==
  \A s \in Requests :
    session[s] # NoRow /\ session[s].state \notin {"active", "rotated"} =>
      Active(session[s].family) = {}

\* and a handler that listed a family misses an active session only if one it listed was
\* rotated since.
ListedCovers ==
  \A r \in Requests : pc[r] = "family" =>
    \/ Active(session[cmd[r].row].family) \subseteq listed[r]
    \/ \E t \in listed[r] : session[t].state = "rotated"

\* A token that brought a new session is rotated, a code consumed.
UsedUp ==
  \A r \in Requests : reply[r] = "ok" =>
    /\ cmd[r].op = "refresh" => session[cmd[r].row].next = r
    /\ cmd[r].op = "exchange" => code[cmd[r].row] = "consumed"

IInv ==
  TypeOK /\ OneActivePerFamily /\ RedeemedOnce /\ FamilyIsChain /\ LocksHeld /\ Inserted
  /\ TerminalIsLast /\ ListedCovers /\ UsedUp
=============================================================================
