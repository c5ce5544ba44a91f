---------------------------- MODULE MCIdentities ----------------------------
(* Three requests against one or two users who have a password; the account of a      *)
(* provider shows different emails in different callbacks.                             *)
EXTENDS Identities, TLC

CONSTANTS r1, r2, r3, u1, u2, e1, e2, e3, s1, s2, t1

MCHome == u1 :> e1 @@ u2 :> e2
MCProvider == s1 :> "google" @@ s2 :> "google" @@ t1 :> "github"

Callbacks == [op : {"callback"}, subject : Subjects, email : Emails]
Joins(q) == [op : {"join"}, ticket : q]
MCAsk ==
  r1 :> (Callbacks \cup [op : {"register"}, email : {e3}])
  @@ r2 :> (Callbacks \cup Joins({r1}))
  @@ r3 :> ([op : {"callback"}, subject : {s1, t1}, email : {e1, e3}] \cup Joins({r1, r2})
            \cup [op : {"register"}, email : {e3}]
            \cup [op : {"edit"}, user : {u1}, email : {e1, e2, e3}])
=============================================================================
