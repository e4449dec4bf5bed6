------------------------------ MODULE Uploads ------------------------------
(***************************************************************************)
(* UploadsService over the storage driver and the Upload table, and the    *)
(* verification status that the user directory derives from it.  A request *)
(* is a sequence of steps, one between two awaits; files and rows survive  *)
(* a restart, requests do not.  Nothing in the service deletes a file or a *)
(* row.  A refused request (400, 403, 404) is the absence of a step.       *)
(***************************************************************************)
EXTENDS Requests, Parties

CONSTANTS
  Docs,         \* ids that uploads may get: storage key and row id
  Uploader,     \* Docs -> user
  Attach,       \* Docs -> the reservation in the form, or Nil
  Form,         \* Docs -> [mime, size] of the file in the form
  AllowedMime, MaxBytes,
  MaxReviews    \* bound of the reviews that get past their checks

ASSUME UploadAssumption ==
  /\ Uploader \in [Docs -> Users]
  /\ Attach \in [Docs -> Bookings \cup {Nil}]
  /\ IsFiniteSet(Calls) /\ MaxReviews \in Nat /\ MaxFaults \in Nat
  /\ Nil \notin Users /\ Nil \notin Bookings

VARIABLES
  files,        \* storage keys that are on the disk
  docStatus,    \* Upload.status; NoRow while there is no row
  reviewer,     \* Upload.reviewedById
  note,         \* is Upload.rejectionNote set?
  docAudit,     \* ActivityLog: <<document, actor, what>>
  docCall,      \* Calls -> progress of the request
  reviews,      \* reviews so far
  docFaults,
  decided       \* history: <<document, reviewer, outcome>> that were stored

docTable == <<docStatus, reviewer, note, decided>>
docVars  == <<files, docTable, docAudit, docCall, reviews, docFaults>>

NoRow        == "NONE"
UploadStatus == {"PENDING_REVIEW", "VERIFIED", "REJECTED"}

ReviewState ==
  {Idle} \cup
  [pc : {"put", "insert", "uploaded"}, doc : Docs] \cup
  [pc : {"update", "reviewed"}, doc : Docs, user : Operators,
   outcome : UploadStatus, note : BOOLEAN]

UploadsInit ==
  /\ files     = {}
  /\ docStatus = [d \in Docs |-> NoRow]
  /\ reviewer  = [d \in Docs |-> Nil]
  /\ note      = [d \in Docs |-> FALSE]
  /\ docAudit  = {} /\ decided = {}
  /\ docCall   = [c \in Calls |-> Idle]
  /\ reviews   = 0 /\ docFaults = 0

DocAt(c, pc) == docCall[c].pc = pc
DocGoes(c, k) == docCall' = [docCall EXCEPT ![c] = k]
DocFault == docFaults < MaxFaults /\ docFaults' = docFaults + 1

\* ActivityService.record, fail-soft.
RecordDoc(entry) ==
  \/ docAudit' = docAudit \cup {entry} /\ UNCHANGED docFaults
  \/ DocFault /\ UNCHANGED docAudit

-----------------------------------------------------------------------------
\* UploadsService.create

\* The checks on the file and, for customers, on the reservation.
Accepts(d) ==
  /\ Form[d].mime \in AllowedMime
  /\ Form[d].size <= MaxBytes
  /\ Uploader[d] \in Customers /\ Attach[d] # Nil => Owner[Attach[d]] = Uploader[d]

\* Mutant: the row is inserted before the file is written.
FirstStep_Row == "insert"

FirstStep == "put"

\* A generated key is in no use.
UploadBegin(c, d) ==
  /\ docCall[c] = Idle
  /\ d \notin files /\ docStatus[d] = NoRow
  /\ \A e \in Calls : docCall[e] # Idle => docCall[e].doc # d
  /\ Accepts(d)
  /\ DocGoes(c, [pc |-> FirstStep, doc |-> d])
  /\ UNCHANGED <<files, docTable, docAudit, reviews, docFaults>>

\* storage.put
PutFile(c) ==
  /\ DocAt(c, "put")
  /\ files' = files \cup {docCall[c].doc}
  /\ DocGoes(c, [docCall[c] EXCEPT !.pc = "insert"])
  /\ UNCHANGED <<docTable, docAudit, reviews, docFaults>>

\* upload.create; the status is the column's default
InsertRow(c) ==
  /\ DocAt(c, "insert")
  /\ docStatus' = [docStatus EXCEPT ![docCall[c].doc] = "PENDING_REVIEW"]
  /\ DocGoes(c, [docCall[c] EXCEPT !.pc = "uploaded"])
  /\ UNCHANGED <<files, reviewer, note, decided, docAudit, reviews, docFaults>>

RecordUpload(c) ==
  /\ DocAt(c, "uploaded")
  /\ RecordDoc(<<docCall[c].doc, Uploader[docCall[c].doc], "DOCUMENT_UPLOADED">>)
  /\ DocGoes(c, Idle)
  /\ UNCHANGED <<files, docTable, reviews>>

-----------------------------------------------------------------------------
\* UploadsService.review

\* "A review must resolve to VERIFIED or REJECTED."
Resolves(outcome) == outcome \in {"VERIFIED", "REJECTED"}

\* The row must exist; what it says already is not asked.
ReviewRead(c, u, d, outcome, why) ==
  /\ docCall[c] = Idle
  /\ reviews < MaxReviews /\ reviews' = reviews + 1
  /\ docStatus[d] # NoRow
  /\ Resolves(outcome)
  /\ DocGoes(c, [pc |-> "update", doc |-> d, user |-> u, outcome |-> outcome, note |-> why])
  /\ UNCHANGED <<files, docTable, docAudit, docFaults>>

\* Mutant: the note of a rejection is never cleared.
NoteAfter_Kept(d, k) == note[d] \/ (k.outcome = "REJECTED" /\ k.note)

\* rejectionNote: the form's on a rejection, else null
NoteAfter(d, k) == k.outcome = "REJECTED" /\ k.note

\* upload.update by id alone
ReviewStore(c) ==
  LET k == docCall[c] IN
  /\ DocAt(c, "update")
  /\ docStatus' = [docStatus EXCEPT ![k.doc] = k.outcome]
  /\ reviewer'  = [reviewer  EXCEPT ![k.doc] = k.user]
  /\ note'      = [note      EXCEPT ![k.doc] = NoteAfter(k.doc, k)]
  /\ decided'   = decided \cup {<<k.doc, k.user, k.outcome>>}
  /\ DocGoes(c, [k EXCEPT !.pc = "reviewed"])
  /\ UNCHANGED <<files, docAudit, reviews, docFaults>>

ReviewEntry(k) == {<<k.doc, k.user, k.outcome>>}

RecordReview(c) ==
  /\ DocAt(c, "reviewed")
  /\ \/ docAudit' = docAudit \cup ReviewEntry(docCall[c]) /\ UNCHANGED docFaults
     \/ DocFault /\ UNCHANGED docAudit
  /\ DocGoes(c, Idle)
  /\ UNCHANGED <<files, docTable, reviews>>

-----------------------------------------------------------------------------
\* UploadsService.findAll and getFile, and UsersService.findAll

\* The documents that a user is shown: customers see their own.
Listed(u) ==
  {d \in Docs : docStatus[d] # NoRow /\ (u \in Customers => Uploader[d] = u)}

\* The download: the row, then the bytes; 404 when the file is gone.
Downloads(u) == {d \in Listed(u) : d \in files}

DocsOf(u, s) == {d \in Docs : Uploader[d] = u /\ docStatus[d] = s}

\* verificationStatus of the directory
VerificationStatus(u) ==
  IF DocsOf(u, "VERIFIED") # {} /\ DocsOf(u, "PENDING_REVIEW") = {} THEN "VERIFIED"
  ELSE IF DocsOf(u, "PENDING_REVIEW") # {} THEN "PENDING_REVIEW" ELSE "UNVERIFIED"

-----------------------------------------------------------------------------
\* A write to disk or database fails: the request ends with a 500.
DocWriteFails(c) ==
  /\ docCall[c].pc \in {"put", "insert", "update"} /\ DocFault
  /\ DocGoes(c, Idle)
  /\ UNCHANGED <<files, docTable, docAudit, reviews>>

UploadsRestart ==
  /\ DocFault
  /\ docCall' = [c \in Calls |-> Idle]
  /\ UNCHANGED <<files, docTable, docAudit, reviews>>

UploadsNext ==
  \/ \E c \in Calls :
       \/ \E d \in Docs :
            \/ UploadBegin(c, d)
            \/ \E u \in Operators, s \in UploadStatus, why \in BOOLEAN : ReviewRead(c, u, d, s, why)
       \/ PutFile(c) \/ InsertRow(c) \/ RecordUpload(c)
       \/ ReviewStore(c) \/ RecordReview(c)
       \/ DocWriteFails(c)
  \/ UploadsRestart

UploadsSpec == UploadsInit /\ [][UploadsNext]_docVars

-----------------------------------------------------------------------------
\* Properties.

\* The values that the columns, the disk and the requests can hold.
UploadsTypeOK ==
  /\ files \subseteq Docs
  /\ docStatus \in [Docs -> UploadStatus \cup {NoRow}]
  /\ reviewer  \in [Docs -> Operators \cup {Nil}]
  /\ note      \in [Docs -> BOOLEAN]
  /\ docAudit  \subseteq Docs \X Users \X (UploadStatus \cup {"DOCUMENT_UPLOADED"})
  /\ decided   \subseteq Docs \X Operators \X UploadStatus
  /\ docCall   \in [Calls -> ReviewState]
  /\ reviews   \in 0 .. MaxReviews
  /\ docFaults \in 0 .. MaxFaults

\* Whatever stops between the disk and the table, a listed document can be
\* downloaded: no row is there without its file.
ListedCanBeDownloaded == \A u \in Users : Downloads(u) = Listed(u)

\* A file without a row belongs to an upload in progress, or to one that a
\* fault has cut off: nothing cleans up, but nothing else leaves one behind.
Uploading(c) == DocAt(c, "put") \/ DocAt(c, "insert")
OrphansAreFaults ==
  LET orphans == {d \in files : docStatus[d] = NoRow}
      busy    == {c \in Calls : Uploading(c)}
  IN  Cardinality(orphans) <= Cardinality(busy) + docFaults * Cardinality(Calls)

\* Status, reviewer and note are those of one and the same review, and a
\* document awaits its review until it has one: overlapping reviews do not mix.
RowsAreOneReview ==
  \A d \in Docs :
    /\ docStatus[d] \in {"VERIFIED", "REJECTED"} => <<d, reviewer[d], docStatus[d]>> \in decided
    /\ docStatus[d] \in {NoRow, "PENDING_REVIEW"} => reviewer[d] = Nil /\ ~note[d]
    /\ note[d] => docStatus[d] = "REJECTED"

\* An account that the directory shows as verified has had every one of its
\* documents decided by an operator, the latest one included.
VerifiedWasReviewed ==
  \A u \in Users : VerificationStatus(u) = "VERIFIED" =>
    \A d \in Docs : Uploader[d] = u /\ docStatus[d] # NoRow =>
      \E o \in Operators : <<d, o, docStatus[d]>> \in decided

\* The audit log has what was stored and, short of a fault, all of it.
AuditMatches ==
  /\ \A a \in docAudit :
       IF a[3] = "DOCUMENT_UPLOADED" THEN docStatus[a[1]] # NoRow ELSE a \in decided
  /\ docFaults = 0 /\ (\A c \in Calls : docCall[c] = Idle) => decided \subseteq docAudit

\* Disk and table agree but for the orphans that faults leave.
FilesMatchRows == UploadsTypeOK /\ ListedCanBeDownloaded /\ OrphansAreFaults

\* Each request rests on what the others leave alone: a key that only it
\* writes, a row that stays.
UploadsKnow ==
  /\ \A c \in Calls :
       /\ Uploading(c) => docStatus[docCall[c].doc] = NoRow
       /\ DocAt(c, "insert") => docCall[c].doc \in files
       /\ docCall[c].pc \in {"uploaded", "update", "reviewed"} => docStatus[docCall[c].doc] # NoRow
       /\ DocAt(c, "update") => Resolves(docCall[c].outcome)
       /\ DocAt(c, "reviewed") =>
            <<docCall[c].doc, docCall[c].user, docCall[c].outcome>> \in decided
  /\ \A c, d \in Calls : Uploading(c) /\ Uploading(d) /\ c # d => docCall[c].doc # docCall[d].doc

\* What is stored, derived and logged of a review is that of one review, and
\* no request is misled about it.
ReviewsHold == UploadsKnow /\ RowsAreOneReview /\ VerifiedWasReviewed /\ AuditMatches

=============================================================================
