------------------------------ MODULE Receipts ------------------------------
(***************************************************************************)
(* Receipts: a row in the database and, in the object store, an object and *)
(* the metadata beside it (modules/receipts, adapters/storage). An upload  *)
(* stores before it commits the row, a deletion commits before it removes, *)
(* and nothing makes the two stores one: either may fail, the process may  *)
(* end between any two steps, and a commit may take effect though its      *)
(* answer is lost.                                                         *)
(*                                                                         *)
(* A receipt is named by the upload that makes it; its key contains a new  *)
(* uuid, so no two uploads share an object.                                *)
(***************************************************************************)

CONSTANTS
  Uploads,  \* POST /receipts requests, and the receipts they make
  Deletes,  \* DELETE /receipts/{id} requests
  None

ASSUME ReceiptsAssumption ==
  /\ Uploads \cap Deletes = {}
  /\ None \notin Uploads \cup Deletes \cup {"active", "deleted"}

FileRequests == Uploads \cup Deletes
Files == {"object", "metadata"}
SaveAt == [object |-> "save_object", metadata |-> "save_metadata"]
DeleteAt == [object |-> "delete_object", metadata |-> "delete_metadata"]

VARIABLES
  row,      \* the table receipts: None, active, or deleted_at set
  stored,   \* the files of each receipt that exist
  voided,   \* the transaction receipts are attached to is voided
  target,   \* the receipt a request is about
  stage,    \* where its handler is
  outcome,  \* how it was answered
  faulty,   \* receipts with a handler that died, or that the store failed
  lost      \* receipts with a commit that took effect without an answer

fileVars == <<row, stored, voided, target, stage, outcome, faulty, lost>>

-----------------------------------------------------------------------------
ReceiptsInit ==
  /\ row = [k \in Uploads |-> None]
  /\ stored = [k \in Uploads |-> {}]
  /\ voided = FALSE
  /\ target = [r \in FileRequests |-> None]
  /\ stage = [r \in FileRequests |-> "new"]
  /\ outcome = [r \in FileRequests |-> "none"]
  /\ faulty = {}
  /\ lost = {}

Proceed(r, place) == stage' = [stage EXCEPT ![r] = place] /\ UNCHANGED outcome
Finish(r, answer) ==
  /\ stage' = [stage EXCEPT ![r] = "done"]
  /\ outcome' = [outcome EXCEPT ![r] = answer]

\* upload_receipt: the file is valid, and get_owned_transaction looks for the transaction.
ArriveUpload(r) ==
  /\ r \in Uploads /\ stage[r] = "new"
  /\ target' = [target EXCEPT ![r] = r]
  /\ IF voided THEN Finish(r, "refused") ELSE Proceed(r, "save_object")
  /\ UNCHANGED <<row, stored, voided, faulty, lost>>

\* LocalStorageAdapter.save writes one file after the other; when it raises, nothing
\* takes back what it has written: upload_receipt calls it outside its try.
Save(r, file) ==
  /\ stage[r] = SaveAt[file]
  /\ \/ /\ stored' = [stored EXCEPT ![r] = @ \cup {file}]
        /\ Proceed(r, IF file = "object" THEN "save_metadata" ELSE "insert")
        /\ UNCHANGED faulty
     \/ /\ faulty' = faulty \cup {r}
        /\ Finish(r, "error")
        /\ UNCHANGED stored
  /\ UNCHANGED <<row, voided, target, lost>>

\* The row is inserted, refreshed and answered, or the transaction is rolled back.
Insert(r) ==
  /\ stage[r] = "insert"
  /\ \/ Proceed(r, "commit")
     \/ Proceed(r, "delete_object")
  /\ UNCHANGED <<row, stored, voided, target, faulty, lost>>

\* Mutant of CommitUpload: the files are left when the commit fails.
CommitUploadOnly(r) ==
  /\ stage[r] = "commit" /\ r \in Uploads
  /\ \/ row' = [row EXCEPT ![r] = "active"] /\ Finish(r, "ok") /\ UNCHANGED lost
     \/ Finish(r, "error") /\ UNCHANGED <<row, lost>>
  /\ UNCHANGED <<stored, voided, target, faulty>>

\* The commit takes effect or not, and answers or not; without an answer the files go.
CommitUpload(r) ==
  /\ stage[r] = "commit" /\ r \in Uploads
  /\ \/ row' = [row EXCEPT ![r] = "active"] /\ Finish(r, "ok") /\ UNCHANGED lost
     \/ row' = [row EXCEPT ![r] = "active"] /\ Proceed(r, "delete_object") /\ lost' = lost \cup {r}
     \/ Proceed(r, "delete_object") /\ UNCHANGED <<row, lost>>
  /\ UNCHANGED <<stored, voided, target, faulty>>

\* delete_receipt finds the active row.
ArriveDelete(r, k) ==
  /\ r \in Deletes /\ stage[r] = "new"
  /\ target' = [target EXCEPT ![r] = k]
  /\ IF row[k] = "active" THEN Proceed(r, "commit") ELSE Finish(r, "refused")
  /\ UNCHANGED <<row, stored, voided, faulty, lost>>

\* Mutant of CommitDelete: the files go before deleted_at is committed.
DeleteFirst(r) ==
  /\ r \in Deletes /\ stage[r] = "commit"
  /\ stored' = [stored EXCEPT ![target[r]] = {}]
  /\ \/ row' = [row EXCEPT ![target[r]] = "deleted"] /\ Finish(r, "ok")
     \/ Finish(r, "error") /\ UNCHANGED row
  /\ UNCHANGED <<voided, target, faulty, lost>>

\* deleted_at is committed; when the commit answers with an error the files stay.
CommitDelete(r) ==
  /\ r \in Deletes /\ stage[r] = "commit"
  /\ \/ /\ row' = [row EXCEPT ![target[r]] = "deleted"]
        /\ Proceed(r, "delete_object")
        /\ UNCHANGED lost
     \/ /\ row' = [row EXCEPT ![target[r]] = "deleted"]
        /\ Finish(r, "error")
        /\ lost' = lost \cup {target[r]}
     \/ Finish(r, "error") /\ UNCHANGED <<row, lost>>
  /\ UNCHANGED <<stored, voided, target, faulty>>

\* LocalStorageAdapter.delete removes each file that exists; when it raises, a deletion
\* logs it and answers, an upload raises.
Delete(r, file) ==
  LET k == target[r]
      answer == IF r \in Deletes THEN "ok" ELSE "error" IN
  /\ stage[r] = DeleteAt[file]
  /\ \/ /\ stored' = [stored EXCEPT ![k] = @ \ {file}]
        /\ IF file = "object" THEN Proceed(r, "delete_metadata") ELSE Finish(r, answer)
        /\ UNCHANGED faulty
     \/ /\ file \in stored[k]
        /\ faulty' = faulty \cup {k}
        /\ Finish(r, answer)
        /\ UNCHANGED stored
  /\ UNCHANGED <<row, voided, target, lost>>

\* The process ends.
Crash(r) ==
  /\ stage[r] \notin {"new", "done"}
  /\ Finish(r, "lost")
  /\ faulty' = faulty \cup {target[r]}
  /\ UNCHANGED <<row, stored, voided, target, lost>>

\* void_transaction, of the transactions.
Void ==
  /\ ~ voided
  /\ voided' = TRUE
  /\ UNCHANGED <<row, stored, target, stage, outcome, faulty, lost>>

HandleFiles(r) ==
  \/ Insert(r) \/ CommitUpload(r) \/ CommitDelete(r)
  \/ \E file \in Files : Save(r, file) \/ Delete(r, file)

ReceiptsNext ==
  \/ \E r \in FileRequests : HandleFiles(r) \/ Crash(r) \/ ArriveUpload(r)
  \/ \E r \in Deletes, k \in Uploads : ArriveDelete(r, k)
  \/ Void

ReceiptsSpec == ReceiptsInit /\ [][ReceiptsNext]_fileVars

-----------------------------------------------------------------------------
Stages ==
  {"new", "insert", "commit", "done"}
    \cup {SaveAt[f] : f \in Files} \cup {DeleteAt[f] : f \in Files}

\* Rows, files and handlers keep their types, and a handler is over exactly when it has
\* answered or died.
FileTypesOK ==
  /\ row \in [Uploads -> {None, "active", "deleted"}]
  /\ stored \in [Uploads -> SUBSET Files]
  /\ voided \in BOOLEAN
  /\ target \in [FileRequests -> Uploads \cup {None}]
  /\ stage \in [FileRequests -> Stages]
  /\ outcome \in [FileRequests -> {"none", "ok", "refused", "error", "lost"}]
  /\ faulty \subseteq Uploads /\ lost \subseteq Uploads
  /\ \A r \in FileRequests : outcome[r] = "none" <=> stage[r] # "done"
  /\ \A r \in FileRequests : target[r] = None <=> stage[r] = "new"

\* A receipt that can be seen has its object and its metadata, whoever crashes and
\* whichever store fails, unless the answer to the commit of its upload was lost
\* (upload_receipt stores first, delete_receipt removes last).
ActiveIsStored ==
  \A k \in Uploads : row[k] = "active" /\ k \notin lost => stored[k] = Files

\* Files that no visible receipt owns belong to a request that is under way, or a crash, a
\* failing store or a lost answer has left them (the except clause of upload_receipt,
\* delete_receipt).
OrphansExplained ==
  \A k \in Uploads : stored[k] # {} /\ row[k] # "active" =>
    \/ \E r \in FileRequests : target[r] = k /\ stage[r] # "done"
    \/ k \in faulty \cup lost

\* What the proofs need besides: how far an upload has come tells what is stored of it;
UploadProgress ==
  \A u \in Uploads :
    /\ stage[u] # "new" => target[u] = u
    /\ stage[u] \in {"new", "save_object"} => stored[u] = {}
    /\ stage[u] = "save_metadata" => stored[u] = {"object"}
    /\ stage[u] \in {"insert", "commit"} => stored[u] = Files
    /\ stage[u] \in {"new", "save_object", "save_metadata", "insert", "commit"} => row[u] = None
    /\ stage[u] \in {"delete_object", "delete_metadata"} => row[u] = None \/ u \in lost

\* a deletion has found a row, and removes files only when the row is deleted;
DeleteProgress ==
  \A d \in Deletes :
    /\ stage[d] \in {"new", "commit", "delete_object", "delete_metadata", "done"}
    /\ stage[d] = "commit" => row[target[d]] # None
    /\ stage[d] \in {"delete_object", "delete_metadata"} => row[target[d]] = "deleted"

\* files that no visible receipt owns have a handler that will remove them.
BeingRemoved ==
  /\ \A r \in FileRequests : stage[r] = "delete_metadata" =>
       "object" \notin stored[target[r]] \/ target[r] \in faulty
  /\ \A k \in Uploads : stored[k] # {} /\ k \notin faulty \cup lost =>
       /\ row[k] = None => stage[k] # "done"
       /\ row[k] = "deleted" => \E d \in Deletes :
            target[d] = k /\ stage[d] \in {"delete_object", "delete_metadata"}

FilesInv == FileTypesOK /\ ActiveIsStored /\ UploadProgress /\ DeleteProgress /\ BeingRemoved
=============================================================================
