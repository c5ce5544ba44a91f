----------------------------- MODULE Identities -----------------------------
(***************************************************************************)
(* How people become users (modules/auth, modules/users): registration     *)
(* with a password, the callback of an identity provider that finds a      *)
(* user or issues a registration ticket, the registration that redeems     *)
(* such a ticket, and the change of a user's email.                        *)
(*                                                                         *)
(* Handlers look, decide and insert in READ COMMITTED transactions.  A     *)
(* flushed key makes others that insert it wait until it is committed or   *)
(* rolled back; only these unique keys stand between requests that         *)
(* overlap.  The profile of a provider's account may change between two    *)
(* callbacks, and so may the email of a user.                              *)
(***************************************************************************)
CONSTANTS
  SignIns,   \* requests, each of which may insert a user
  Founders,  \* users that registered with a password before
  Home,      \* their emails
  Emails,
  Subjects,  \* accounts at providers: (provider, provider_subject)
  Provider,  \* the provider of each
  Offers,    \* what each request may be
  None

Users == Founders \cup SignIns

SignInCommands ==
  [op : {"register"}, email : Emails]
  \cup [op : {"callback"}, subject : Subjects, email : Emails]
  \cup [op : {"join"}, ticket : SignIns]
  \cup [op : {"edit"}, user : Founders, email : Emails]

ASSUME IdentitiesAssumption ==
  /\ Founders \cap SignIns = {}
  /\ None \notin Users \cup Emails \cup Subjects \cup SignInCommands
  /\ Home \in [Founders -> Emails]
  /\ \A u, v \in Founders : Home[u] = Home[v] => u = v
  /\ DOMAIN Provider = Subjects
  /\ Offers \in [SignIns -> SUBSET SignInCommands]

VARIABLES
  email,     \* users.email, None while there is no such user
  active,    \* users.is_active
  password,  \* users.password_hash is set
  owner,     \* oauth_identities.user_id of a subject, None without a row
  op,        \* what a request is
  subject,   \* the provider account it speaks for
  address,   \* the email it brings
  found,     \* the user its handler has found or inserts
  was,       \* the email an edit loaded with the user
  stage,     \* where the handler is
  outcome    \* "none", "ok", "code", "ticket", "conflict", "refused" or "error"

userVars == <<email, active, password, owner>>
inputVars == <<op, subject, address, was>>
signInVars == <<userVars, inputVars, found, stage, outcome>>

IdentitiesInit ==
  /\ email = [u \in Users |-> IF u \in Founders THEN Home[u] ELSE None]
  /\ active = [u \in Users |-> TRUE]
  /\ password = [u \in Users |-> u \in Founders]
  /\ owner = [s \in Subjects |-> None]
  /\ op = [r \in SignIns |-> "none"]
  /\ subject = [r \in SignIns |-> None]
  /\ address = [r \in SignIns |-> None]
  /\ found = [r \in SignIns |-> None]
  /\ was = [r \in SignIns |-> None]
  /\ stage = [r \in SignIns |-> "new"]
  /\ outcome = [r \in SignIns |-> "none"]

WithEmail(e) == {u \in Users : email[u] = e}
Linked(u, provider) == {s \in Subjects : owner[s] = u /\ Provider[s] = provider}

\* Handlers whose flushed row has the email, or one of the two keys of an identity.
HoldsEmail(e) ==
  {q \in SignIns :
     /\ address[q] = e
     /\ \/ op[q] = "register" /\ stage[q] = "commit"
        \/ op[q] = "join" /\ stage[q] \in {"identity", "commit"}}
HoldsIdentity(s, u) ==
  {q \in SignIns :
     /\ op[q] \in {"callback", "join"} /\ stage[q] = "commit"
     /\ \/ subject[q] = s
        \/ found[q] = u /\ Provider[subject[q]] = Provider[s]}

MoveTo(r, place) ==
  /\ stage' = [stage EXCEPT ![r] = place]
  /\ UNCHANGED outcome

\* The handler answers, and its transaction is over.
Respond(r, answer) ==
  /\ stage' = [stage EXCEPT ![r] = "done"]
  /\ outcome' = [outcome EXCEPT ![r] = answer]

-----------------------------------------------------------------------------
\* A request comes in: for a callback the provider has verified the profile, a join
\* brings a ticket that holds the profile of an earlier callback, and an edit has loaded
\* its user.
Present(r, c) ==
  /\ stage[r] = "new"
  /\ c.op = "join" => outcome[c.ticket] = "ticket"
  /\ c.op = "edit" => active[c.user]
  /\ op' = [op EXCEPT ![r] = c.op]
  /\ subject' = [subject EXCEPT ![r] =
                   CASE c.op = "callback" -> c.subject
                     [] c.op = "join" -> subject[c.ticket]
                     [] OTHER -> None]
  /\ address' = [address EXCEPT ![r] = IF c.op = "join" THEN address[c.ticket] ELSE c.email]
  /\ found' = [found EXCEPT ![r] = IF c.op = "edit" THEN c.user ELSE None]
  /\ was' = [was EXCEPT ![r] = IF c.op = "edit" THEN email[c.user] ELSE None]
  /\ MoveTo(r, CASE c.op = "register" -> "email"
               [] c.op \in {"callback", "join"} -> "subject"
               [] c.op = "edit" -> "edit")
  /\ UNCHANGED userVars

\* get_by_provider_subject
LookForSubject(r) ==
  LET u == owner[subject[r]] IN
  /\ stage[r] = "subject"
  /\ \/ u = None /\ MoveTo(r, "email") /\ UNCHANGED found
     \/ /\ u # None /\ op[r] = "callback"
        /\ found' = [found EXCEPT ![r] = u]
        /\ MoveTo(r, "owner")
     \/ u # None /\ op[r] = "join" /\ Respond(r, "conflict") /\ UNCHANGED found
  /\ UNCHANGED <<userVars, inputVars>>

\* get_by_email of resolve_callback: no user means a ticket to register one.
MatchEmail(r) ==
  LET users == WithEmail(address[r]) IN
  /\ stage[r] = "email"
  /\ op[r] = "callback"
  /\ \/ users = {} /\ Respond(r, "ticket") /\ UNCHANGED found
     \/ \E u \in users :
          \/ ~ active[u] /\ Respond(r, "refused") /\ UNCHANGED found
          \/ /\ active[u]
             /\ found' = [found EXCEPT ![r] = u]
             /\ MoveTo(r, "pair")
  /\ UNCHANGED <<userVars, inputVars>>

\* get_by_email of register_user and register_oauth_user.
CheckEmail(r) ==
  /\ stage[r] = "email"
  /\ op[r] # "callback"
  /\ IF WithEmail(address[r]) = {} THEN MoveTo(r, "user") ELSE Respond(r, "conflict")
  /\ UNCHANGED <<userVars, inputVars, found>>

\* get_by_user_provider
LookForPair(r) ==
  LET linked == Linked(found[r], Provider[subject[r]]) IN
  /\ stage[r] = "pair"
  /\ \/ linked = {} /\ MoveTo(r, "identity")
     \/ subject[r] \in linked /\ MoveTo(r, "code")
     \/ linked # {} /\ subject[r] \notin linked /\ Respond(r, "refused")
  /\ UNCHANGED <<userVars, inputVars, found>>

\* Mutant of InsertUser: the new user is committed before its identity is inserted.
InsertAndCommit(r) ==
  /\ stage[r] = "user"
  /\ HoldsEmail(address[r]) = {}
  /\ IF WithEmail(address[r]) = {}
     THEN /\ email' = [email EXCEPT ![r] = address[r]]
          /\ found' = [found EXCEPT ![r] = r]
          /\ MoveTo(r, IF op[r] = "join" THEN "identity" ELSE "commit")
     ELSE Respond(r, "conflict") /\ UNCHANGED <<email, found>>
  /\ UNCHANGED <<active, password, owner, inputVars>>

\* UserRepository.create: the flush waits for another insert of the email.
InsertUser(r) ==
  /\ stage[r] = "user"
  /\ HoldsEmail(address[r]) = {}
  /\ IF WithEmail(address[r]) = {}
     THEN /\ found' = [found EXCEPT ![r] = r]
          /\ MoveTo(r, IF op[r] = "join" THEN "identity" ELSE "commit")
     ELSE Respond(r, "conflict") /\ UNCHANGED found
  /\ UNCHANGED <<userVars, inputVars>>

\* OAuthIdentityRepository.create, with what follows when one of its keys is taken.
Insert(r, taken) ==
  /\ stage[r] = "identity"
  /\ HoldsIdentity(subject[r], found[r]) = {}
  /\ IF owner[subject[r]] = None /\ Linked(found[r], Provider[subject[r]]) = {}
     THEN MoveTo(r, "commit")
     ELSE taken
  /\ UNCHANGED <<userVars, inputVars, found>>

\* Mutant of InsertIdentity: a callback that lost a race does not look again.
InsertOrRefuse(r) ==
  Insert(r, Respond(r, IF op[r] = "callback" THEN "refused" ELSE "conflict"))

InsertIdentity(r) ==
  Insert(r, IF op[r] = "callback" THEN MoveTo(r, "raced") ELSE Respond(r, "conflict"))

\* Mutant of LookAgain: whoever has the identity by now, the user found by email gets in.
LookAgainForAny(r) ==
  /\ stage[r] = "raced"
  /\ IF owner[subject[r]] # None THEN MoveTo(r, "owner") ELSE Respond(r, "refused")
  /\ UNCHANGED <<userVars, inputVars, found>>

\* After the rollback resolve_callback reads the identity that was there first.
LookAgain(r) ==
  /\ stage[r] = "raced"
  /\ IF owner[subject[r]] = found[r] THEN MoveTo(r, "owner") ELSE Respond(r, "refused")
  /\ UNCHANGED <<userVars, inputVars, found>>

\* get_by_id, and is_active as _create_exchange_for_active_user finds it.
LoadOwner(r) ==
  /\ stage[r] = "owner"
  /\ IF active[found[r]] THEN MoveTo(r, "code") ELSE Respond(r, "refused")
  /\ UNCHANGED <<userVars, inputVars, found>>

\* _create_login_exchange for a user whose identity was there.
CommitCode(r) ==
  /\ stage[r] = "code"
  /\ Respond(r, "code")
  /\ UNCHANGED <<userVars, inputVars, found>>

\* The commits of resolve_callback, register_oauth_user and register_user.
CommitLink(r) ==
  /\ stage[r] = "commit"
  /\ op[r] = "callback"
  /\ owner' = [owner EXCEPT ![subject[r]] = found[r]]
  /\ Respond(r, "code")
  /\ UNCHANGED <<email, active, password, inputVars, found>>

CommitUser(r) ==
  /\ stage[r] = "commit"
  /\ op[r] \in {"register", "join"}
  /\ email' = [email EXCEPT ![r] = address[r]]
  /\ password' = [password EXCEPT ![r] = op[r] = "register"]
  /\ owner' = IF op[r] = "join" THEN [owner EXCEPT ![subject[r]] = r] ELSE owner
  /\ Respond(r, "ok")
  /\ UNCHANGED <<active, inputVars, found>>

\* update_current_user as far as the email goes: the UPDATE has the columns that differ
\* from what was loaded, and waits for an insert of the same email.
CommitEdit(r) ==
  LET u == found[r] IN
  /\ stage[r] = "edit"
  /\ \/ was[r] = address[r] /\ Respond(r, "ok") /\ UNCHANGED email
     \/ /\ was[r] # address[r] /\ HoldsEmail(address[r]) = {}
        /\ IF WithEmail(address[r]) \subseteq {u}
           THEN email' = [email EXCEPT ![u] = address[r]] /\ Respond(r, "ok")
           ELSE Respond(r, "conflict") /\ UNCHANGED email
  /\ UNCHANGED <<active, password, owner, inputVars, found>>

\* The connection or the process is lost.
Fail(r) ==
  /\ stage[r] \notin {"new", "done"}
  /\ Respond(r, "error")
  /\ UNCHANGED <<userVars, inputVars, found>>

DeactivateUser(u) ==
  /\ u \in Founders /\ active[u]
  /\ active' = [active EXCEPT ![u] = FALSE]
  /\ UNCHANGED <<email, password, owner, inputVars, found, stage, outcome>>

HandleSignIn(r) ==
  \/ LookForSubject(r) \/ MatchEmail(r) \/ CheckEmail(r) \/ LookForPair(r)
  \/ InsertUser(r) \/ InsertIdentity(r) \/ LookAgain(r) \/ LoadOwner(r)
  \/ CommitCode(r) \/ CommitLink(r) \/ CommitUser(r) \/ CommitEdit(r)

IdentitiesNext ==
  \/ \E r \in SignIns : (\E c \in Offers[r] : Present(r, c)) \/ HandleSignIn(r) \/ Fail(r)
  \/ \E u \in Users : DeactivateUser(u)

IdentitiesSpec == IdentitiesInit /\ [][IdentitiesNext]_signInVars
-----------------------------------------------------------------------------
\* Every variable has its type.
UserTypesOK ==
  /\ email \in [Users -> Emails \cup {None}]
  /\ active \in [Users -> BOOLEAN]
  /\ password \in [Users -> BOOLEAN]
  /\ owner \in [Subjects -> Users \cup {None}]
  /\ op \in [SignIns -> {"none", "register", "callback", "join", "edit"}]
  /\ subject \in [SignIns -> Subjects \cup {None}]
  /\ address \in [SignIns -> Emails \cup {None}]
  /\ found \in [SignIns -> Users \cup {None}]
  /\ was \in [SignIns -> Emails \cup {None}]
  /\ stage \in [SignIns -> {"new", "subject", "email", "pair", "user", "identity", "raced",
                          "owner", "code", "commit", "edit", "done"}]
  /\ outcome \in [SignIns -> {"none", "ok", "code", "ticket", "conflict", "refused", "error"}]

\* A login code that a callback hands out is for the user who owns the provider account,
\* whatever other callbacks linked between its looks (resolve_callback).
CodesFollowIdentities ==
  \A r \in SignIns : outcome[r] = "code" => owner[subject[r]] = found[r]

\* Every user can sign in: one without a password has an identity, also when the
\* registration by ticket loses a race or is cut off half way (register_oauth_user).
NoUserAlone ==
  \A u \in Users : email[u] # None /\ ~ password[u] => \E s \in Subjects : owner[s] = u

\* The users a refusal of r may be about.
Person(r) == IF found[r] = None THEN WithEmail(address[r]) ELSE {found[r]}

\* An answer of 409 or an unavailable account has a reason at the moment it is given: a
\* callback that lost a race to one for the same user gets its code like the winner.
RefusedWithReason ==
  [][\A r \in SignIns : outcome'[r] # outcome[r] =>
       /\ outcome'[r] = "conflict" =>
            \/ WithEmail(address[r]) \ {found[r]} # {}
            \/ op[r] = "join" /\ owner[subject[r]] # None
       /\ outcome'[r] = "refused" =>
            \E u \in Person(r) :
              \/ ~ active[u]
              \/ owner[subject[r]] \notin {None, u}
              \/ Linked(u, Provider[subject[r]]) \ {subject[r]} # {}]_signInVars
-----------------------------------------------------------------------------
\* The inductive invariant: where each handler stands, what the keys it holds keep others
\* from, and that identities belong to users that are there.
Speaks(r) == op[r] \in {"callback", "join"}

Started(r) ==
  /\ stage[r] # "new" => op[r] # "none" /\ address[r] # None
  /\ stage[r] # "done" => outcome[r] = "none" /\ email[r] = None
  /\ Speaks(r) => subject[r] # None
  /\ outcome[r] \in {"ticket", "code"} => op[r] = "callback"
  /\ outcome[r] = "code" => found[r] # None

Stage(r) ==
  /\ stage[r] \in {"subject", "email", "user"} => found[r] = None
  /\ stage[r] \in {"pair", "raced", "owner", "code"} => op[r] = "callback"
  /\ stage[r] \in {"pair", "identity", "commit", "raced", "owner", "code"} =>
       /\ found[r] # None
       /\ IF op[r] = "callback" THEN email[found[r]] # None ELSE found[r] = r
  /\ stage[r] = "raced" =>
       owner[subject[r]] # None \/ Linked(found[r], Provider[subject[r]]) # {}
  /\ stage[r] \in {"owner", "code"} => owner[subject[r]] = found[r]

Command(r) ==
  /\ stage[r] = "subject" => Speaks(r)
  /\ stage[r] = "identity" => Speaks(r)
  /\ stage[r] = "user" => op[r] # "callback"
  /\ stage[r] = "edit" => op[r] = "edit"
  /\ op[r] = "edit" => stage[r] \in {"edit", "done"} /\ found[r] \in Founders

KeysHeld ==
  \A r \in SignIns : stage[r] = "commit" /\ Speaks(r) =>
     /\ owner[subject[r]] = None
     /\ \A q \in SignIns \ {r} : stage[q] = "commit" /\ Speaks(q) => subject[q] # subject[r]

OwnersExist ==
  /\ \A s \in Subjects : owner[s] # None => email[owner[s]] # None
  /\ \A u \in Founders : password[u]

IdentityInv ==
  /\ UserTypesOK
  /\ \A r \in SignIns : Started(r) /\ Stage(r) /\ Command(r)
  /\ KeysHeld /\ OwnersExist
  /\ CodesFollowIdentities /\ NoUserAlone
=============================================================================
