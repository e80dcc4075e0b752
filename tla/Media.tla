------------------------------- MODULE Media -------------------------------
(***************************************************************************)
(* One uploaded file: the asset in the storage service, its document in    *)
(* medias, its job in the media queue (MediaService, MediaProcessingWorker *)
(* and MediaProcessingReconciler); a process that runs in the inline mode  *)
(* has no job.  No two of the three change together, every process may die *)
(* between two steps, and a job whose worker was slow is given to another. *)
(***************************************************************************)
EXTENDS Naturals, FiniteSets

CONSTANTS
    Hand,          \* slots of the media worker
    MaxTries,      \* envConfig.media.queueMaxAttempts
    MaxMishaps     \* bound on crashes, errors and stalls

\* Of the constants.
MediaAssumption == MaxTries \in Nat \ {0} /\ MaxMishaps \in Nat

VARIABLES
    asset,       \* is the file in the storage service?
    doc,         \* the document's status, "none" without one
    upload,      \* how far uploadOne is
    removal,     \* how far delete is
    job,         \* the job's state in the queue
    owner,       \* the slots that hold its lock
    tries,       \* its attempts made
    hand,        \* how far each slot is, and the job's attempts when it took it
    scan,        \* how far the reconciler is with the document
    excused,     \* a removal was asked for, or an insert has failed that was made
    mishaps

vars == <<asset, doc, upload, removal, job, owner, tries, hand, scan, excused, mishaps>>

TypeOK ==
    /\ asset \in BOOLEAN /\ excused \in BOOLEAN
    /\ doc \in {"none", "pending", "ready", "failed"}
    /\ upload \in {"parsed", "stored", "inserted", "over"} /\ removal \in {"no", "asked", "unstored"}
    /\ job \in {"missing", "waiting", "active", "completed", "failed"}
    /\ owner \subseteq Hand /\ Cardinality(owner) <= 1 /\ tries \in 0..MaxTries
    /\ hand \in [Hand -> [at : {"free", "took", "found"}, tries : 0..MaxTries]]
    /\ scan \in {"rests", "found", "settles", "queues"} /\ mishaps \in 0..MaxMishaps

Free == [at |-> "free", tries |-> 0]

Init ==
    /\ asset = FALSE /\ doc = "none" /\ upload = "parsed" /\ removal = "no"
    /\ job = "missing" /\ owner = {} /\ tries = 0 /\ hand = [w \in Hand |-> Free]
    /\ scan = "rests" /\ excused = FALSE /\ mishaps = 0

Mishap == mishaps < MaxMishaps /\ mishaps' = mishaps + 1

-----------------------------------------------------------------------------
(* uploadOne.                                                              *)

Store ==
    /\ upload = "parsed" /\ upload' = "stored" /\ asset' = TRUE
    /\ UNCHANGED <<doc, removal, job, owner, tries, hand, scan, excused, mishaps>>

Insert ==
    /\ upload = "stored" /\ upload' = "inserted" /\ doc' = "pending"
    /\ UNCHANGED <<asset, removal, job, owner, tries, hand, scan, excused, mishaps>>

\* MEDIA_PROCESSING_MODE=inline: processed before it is inserted.
InsertReady ==
    /\ upload = "stored" /\ upload' = "over" /\ doc' = "ready"
    /\ UNCHANGED <<asset, removal, job, owner, tries, hand, scan, excused, mishaps>>

\* The insert throws, made or not, and compensateStorageUpload removes the
\* asset or fails to.
InsertFails ==
    /\ upload = "stored" /\ Mishap /\ upload' = "over"
    /\ asset' \in BOOLEAN /\ doc' \in {"none", "pending", "ready"} /\ excused' = (doc' # "none")
    /\ UNCHANGED <<removal, job, owner, tries, hand, scan>>

\* The id of the job is that of the document: a second add is ignored.
Add == IF job = "missing" THEN job' = "waiting" /\ tries' = 0 ELSE UNCHANGED <<job, tries>>

Enqueue ==
    /\ upload = "inserted" /\ upload' = "over" /\ Add
    /\ UNCHANGED <<asset, doc, removal, owner, hand, scan, excused, mishaps>>

\* The process dies, or the queue is not available, which is only logged.
GiveUp ==
    /\ upload # "over" /\ Mishap /\ upload' = "over"
    /\ UNCHANGED <<asset, doc, removal, job, owner, tries, hand, scan, excused>>

-----------------------------------------------------------------------------
(* MediaProcessingWorker.                                                  *)

Take(w) ==
    /\ job = "waiting" /\ hand[w] = Free
    /\ job' = "active" /\ owner' = {w}
    /\ hand' = [hand EXCEPT ![w] = [at |-> "took", tries |-> tries]]
    /\ UNCHANGED <<asset, doc, upload, removal, tries, scan, excused, mishaps>>

\* What becomes of the job when slot w is through; nothing if w lost its lock.
Through(w, outcome) ==
    IF w \in owner THEN job' = outcome /\ owner' = {} ELSE UNCHANGED <<job, owner>>

Look(w) ==
    /\ hand[w].at = "took"
    /\ IF doc = "pending"
       THEN hand' = [hand EXCEPT ![w].at = "found"] /\ UNCHANGED <<job, owner>>
       ELSE hand' = [hand EXCEPT ![w] = Free] /\ Through(w, "completed")
    /\ UNCHANGED <<asset, doc, upload, removal, tries, scan, excused, mishaps>>

\* Mutant: whatever the document says by now.
ProcessAny(w) ==
    /\ hand[w].at = "found" /\ hand' = [hand EXCEPT ![w] = Free]
    /\ doc' = IF doc = "none" THEN doc ELSE "ready"
    /\ Through(w, "completed")
    /\ UNCHANGED <<asset, upload, removal, tries, scan, excused, mishaps>>

Process(w) ==
    /\ hand[w].at = "found" /\ hand' = [hand EXCEPT ![w] = Free]
    /\ doc' = IF doc = "pending" THEN "ready" ELSE doc
    /\ Through(w, "completed")
    /\ UNCHANGED <<asset, upload, removal, tries, scan, excused, mishaps>>

Last(w) == hand[w].tries + 1 >= MaxTries

\* The last attempt marks the document, unless that fails too.  Which attempt
\* it is, the slot tells from the job as it took it.
Fail(w) ==
    /\ hand[w] # Free /\ Mishap /\ hand' = [hand EXCEPT ![w] = Free]
    /\ tries' = IF w \in owner THEN hand[w].tries + 1 ELSE tries
    /\ Through(w, IF Last(w) THEN "failed" ELSE "waiting")
    /\ UNCHANGED doc \/ (Last(w) /\ doc = "pending" /\ doc' = "failed")
    /\ UNCHANGED <<asset, upload, removal, scan, excused>>

\* The lock of a slow or dead worker expires: the job waits again, or fails.
Stall ==
    /\ owner # {} /\ Mishap /\ owner' = {}
    /\ job' \in {"waiting", "failed"}
    /\ \E h \in [owner -> {"free", "same"}] :
        hand' = [w \in Hand |-> IF w \in owner /\ h[w] = "free" THEN Free ELSE hand[w]]
    /\ UNCHANGED <<asset, doc, upload, removal, tries, scan, excused>>

\* The queue keeps a limited number of jobs that are through.
Forget ==
    /\ job \in {"completed", "failed"} /\ job' = "missing"
    /\ UNCHANGED <<asset, doc, upload, removal, owner, tries, hand, scan, excused, mishaps>>

-----------------------------------------------------------------------------
(* MediaProcessingReconciler, and MediaService.delete.                     *)

ScanFinds ==
    /\ scan = "rests" /\ doc = "pending" /\ scan' = "found"
    /\ UNCHANGED <<asset, doc, upload, removal, job, owner, tries, hand, excused, mishaps>>

\* Mutant: the job is added whatever became of the last one.
ScanLooksAway ==
    /\ scan = "found" /\ scan' = "queues"
    /\ UNCHANGED <<asset, doc, upload, removal, job, owner, tries, hand, excused, mishaps>>

ScanLooks ==
    /\ scan = "found" /\ scan' = IF job = "failed" THEN "settles" ELSE "queues"
    /\ UNCHANGED <<asset, doc, upload, removal, job, owner, tries, hand, excused, mishaps>>

ScanSettles ==
    /\ scan = "settles" /\ scan' = "rests"
    /\ doc' = IF doc = "pending" THEN "failed" ELSE doc
    /\ UNCHANGED <<asset, upload, removal, job, owner, tries, hand, excused, mishaps>>

ScanQueues ==
    /\ scan = "queues" /\ scan' = "rests" /\ Add
    /\ UNCHANGED <<asset, doc, upload, removal, owner, hand, excused, mishaps>>

\* The process dies, or the queue is not available: the rest waits for the
\* next scan.
ScanFails ==
    /\ scan # "rests" /\ Mishap /\ scan' = "rests"
    /\ UNCHANGED <<asset, doc, upload, removal, job, owner, tries, hand, excused>>

Ask ==
    /\ doc # "none" /\ removal = "no" /\ removal' = "asked" /\ excused' = TRUE
    /\ UNCHANGED <<asset, doc, upload, job, owner, tries, hand, scan, mishaps>>

\* The storage service removes the asset, or says that it has not.
Unstore ==
    /\ removal = "asked"
    /\ \/ removal' = "unstored" /\ asset' = FALSE /\ UNCHANGED mishaps
       \/ Mishap /\ removal' = "no" /\ asset' \in {asset, FALSE}
    /\ UNCHANGED <<doc, upload, job, owner, tries, hand, scan, excused>>

Erase ==
    /\ removal = "unstored" /\ removal' = "no"
    /\ \/ doc' = "none" /\ UNCHANGED mishaps
       \/ Mishap /\ UNCHANGED doc
    /\ UNCHANGED <<asset, upload, job, owner, tries, hand, scan, excused>>

-----------------------------------------------------------------------------
Next ==
    \/ Store \/ Insert \/ InsertReady \/ InsertFails \/ Enqueue \/ GiveUp
    \/ \E w \in Hand : Take(w) \/ Look(w) \/ Process(w) \/ Fail(w)
    \/ Stall \/ Forget
    \/ ScanFinds \/ ScanLooks \/ ScanSettles \/ ScanQueues \/ ScanFails
    \/ Ask \/ Unstore \/ Erase

Spec == Init /\ [][Next]_vars

\* Slots take jobs and get through, and the reconciler scans every 30 seconds
\* for as long as the process runs; nothing says when a client uploads or
\* removes, nor when anything goes wrong.
Fairness ==
    /\ \A w \in Hand : WF_vars(Take(w)) /\ WF_vars(Look(w)) /\ WF_vars(Process(w))
    /\ WF_vars(ScanFinds) /\ WF_vars(ScanLooks) /\ WF_vars(ScanSettles) /\ WF_vars(ScanQueues)

FairSpec == Spec /\ Fairness

-----------------------------------------------------------------------------
(* Properties.                                                             *)

\* No document stays pending, whatever was lost between the upload and the
\* queue, with the job or with the mark of its failure: a kept job that is
\* through would have every further add ignored.  The client that polls gets
\* an answer in the end.
PendingEnds == (doc = "pending") ~> (doc # "pending")

\* A file is ready or failed for good: what a client was told while polling
\* is not taken back by a worker that lost its job, nor by the reconciler.
OutcomeFinal == [][(doc \in {"ready", "failed"}) => (doc' \in {doc, "none"})]_vars

\* A document that is ready has its asset, unless it is to be removed or its
\* insert was reported as failed though it was made (see the README).
ReadyStored == doc = "ready" => asset \/ excused

=============================================================================
