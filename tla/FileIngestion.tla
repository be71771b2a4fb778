---------------------------- MODULE FileIngestion ----------------------------
(***************************************************************************)
(* Ingestion of one uploaded file: QueueService of the backend (confirm,   *)
(* cancel, stop, delete), FileService.deleteMultiple, the file-queue       *)
(* processor and FileIngestionService of the queueConsumer with its        *)
(* handlers, and the daily clean-up of failed uploads.                     *)
(*                                                                         *)
(* The file has its row, "upload"; an execution may insert further rows: a *)
(* new one when it does not find the upload's, and the MCAP converted from *)
(* a bag.  A confirmation c creates at most one ingestion job row, also    *)
(* called c, and adds one Bull job (ticket), also called c.  TypeORM's     *)
(* save leaves a soft deleted row deleted.  A job's row that was removed is *)
(* inserted again; a file's is not: it was read without its mission or its *)
(* creator, which may not be null, and save fails.                         *)
(***************************************************************************)
EXTENDS Naturals, FiniteSets

CONSTANTS
    Confirm,     \* requests of POST /files/upload/confirm for the file
    NoJob,
    Kind,        \* "mcap", "bag", or "plain" (no handler)
    Ops,         \* operations that users and crons may carry out, once each
    Faults,      \* storage and parsers may fail
    MaxCrashes   \* bound: crashes of the consumer

AllOps == {"cancel", "remove", "stop", "delete", "cleanup", "recompute"}

ASSUME IngestionAssumption ==
    /\ NoJob \notin Confirm
    /\ Kind \in {"mcap", "bag", "plain"}
    /\ Ops \subseteq AllOps
    /\ Faults \in BOOLEAN /\ MaxCrashes \in Nat

\* The rows of file_entity, by the uuid of the upload or the ticket that
\* inserted them.
Upload  == [by |-> NoJob, as |-> "upload"]
New(c)  == [by |-> c, as |-> "new"]
Mcap(c) == [by |-> c, as |-> "mcap"]
FileRow == {Upload} \cup {New(c) : c \in Confirm} \cup {Mcap(c) : c \in Confirm}

VARIABLES
    \* the database
    file, soft,    \* file_entity.state; the soft deleted rows
    job, hidden,   \* ingestion_job.state; the soft deleted rows
    \* S3
    stored,        \* the rows whose uuid names an object
    \* Bull
    bull, stalled, \* the tickets; those that stalled once
    \* a confirmation
    cpc, mine, fseen,
    \* an execution of a ticket
    ipc, target,
    \* the operations
    rpc, rjob, marked,
    crashes,
    \* history
    dequeued,      \* tickets that a cancellation took out of the queue
    stopped        \* jobs whose stop was carried out

vars == <<file, soft, job, hidden, stored, bull, stalled, cpc, mine, fseen,
          ipc, target, rpc, rjob, marked, crashes, dequeued, stopped>>

confirmVars == <<cpc, mine, fseen>>
ingestVars  == <<ipc, target>>
opVars      == <<rpc, rjob, marked>>
history     == <<dequeued, stopped>>

\* The values of QueueState, which the guards compare as numbers.
Code == [none |-> 0, AWAITING_UPLOAD |-> 0, AWAITING_PROCESSING |-> 10,
         PROCESSING |-> 20, DOWNLOADING |-> 21,
         CONVERTING_AND_EXTRACTING_TOPICS |-> 22, UPLOADING |-> 23,
         COMPLETED |-> 30, ERROR |-> 40, CORRUPTED |-> 41, CANCELED |-> 42]
QueueState == DOMAIN Code
Busy == {s \in QueueState : Code[s] \in 20..29}

FileState == {"none", "OK", "CORRUPTED", "UPLOADING", "ERROR", "CONVERTING",
              "CONVERSION_ERROR", "LOST"}

LiveFile(r) == file[r] # "none" /\ r \notin soft
LiveJob(j)  == job[j] # "none" /\ j \notin hidden

TypeOK ==
    /\ file \in [FileRow -> FileState] /\ soft \subseteq FileRow
    /\ job \in [Confirm -> QueueState] /\ hidden \subseteq Confirm
    /\ stored \subseteq FileRow
    /\ bull \in [Confirm -> {"none", "wait", "active", "ended"}]
    /\ stalled \subseteq Confirm
    /\ cpc \in [Confirm -> {"new", "create", "file", "save", "job", "add",
                            "done", "refused"}]
    /\ mine \in [Confirm -> Confirm \cup {NoJob}]
    /\ fseen \in [Confirm -> FileState]
    /\ ipc \in [Confirm -> {"idle", "download", "fetch", "find", "validate",
            "corrupt", "handle", "extract", "convert", "derive", "index",
            "push", "put", "primary", "mcapfail", "bagfail", "complete",
            "error"}]
    /\ target \in [Confirm -> FileRow]
    /\ rpc \in [AllOps -> {"new", "dequeue", "save", "job", "object", "file",
                           "commit", "jobs", "done"}]
    /\ rjob \in [AllOps -> Confirm \cup {NoJob}]
    /\ marked \subseteq Confirm
    /\ crashes \in 0..MaxCrashes
    /\ dequeued \subseteq Confirm /\ stopped \subseteq Confirm

Init ==
    /\ file = [r \in FileRow |-> IF r = Upload THEN "UPLOADING" ELSE "none"]
    /\ soft = {} /\ hidden = {}
    /\ job = [j \in Confirm |-> "none"]
    /\ stored = {}
    /\ bull = [c \in Confirm |-> "none"] /\ stalled = {}
    /\ cpc = [c \in Confirm |-> "new"]
    /\ mine = [c \in Confirm |-> NoJob]
    /\ fseen = [c \in Confirm |-> "none"]
    /\ ipc = [c \in Confirm |-> "idle"]
    /\ target = [c \in Confirm |-> Upload]
    /\ rpc = [o \in AllOps |-> "new"]
    /\ rjob = [o \in AllOps |-> NoJob]
    /\ marked = {} /\ crashes = 0
    /\ dequeued = {} /\ stopped = {}

SetFile(r, s) == file' = [file EXCEPT ![r] = s]
Rewrite(r, s) == SetFile(r, IF file[r] = "none" THEN "none" ELSE s)
SetJob(j, s)  == job' = [job EXCEPT ![j] = s]

-----------------------------------------------------------------------------
(***************************************************************************)
(* The client writes the object with its temporary credentials.            *)
(***************************************************************************)
PutObject ==
    /\ Upload \notin stored /\ file[Upload] = "UPLOADING" /\ soft = {}
    /\ stored' = stored \cup {Upload}
    /\ UNCHANGED <<file, soft, job, hidden, bull, stalled, confirmVars,
                   ingestVars, opVars, crashes, history>>

-----------------------------------------------------------------------------
(***************************************************************************)
(* confirmUpload.                                                          *)
(***************************************************************************)
ConfirmAt(c, from, to) ==
    /\ cpc[c] = from
    /\ cpc' = [cpc EXCEPT ![c] = to]
    /\ UNCHANGED <<soft, hidden, stored, stalled, ingestVars, opVars, crashes,
                   history>>

\* Neither waiting for its upload, nor failed, and begun or ended: return.
Resumable(s) ==
    s \in {"AWAITING_UPLOAD", "ERROR"} \/ Code[s] < Code["PROCESSING"]

FindJob(c) ==
    \/ \E j \in {k \in Confirm : LiveJob(k)} :
          /\ ConfirmAt(c, "new", IF Resumable(job[j]) THEN "file" ELSE "refused")
          /\ mine' = [mine EXCEPT ![c] = j]
          /\ UNCHANGED <<file, job, bull, fseen>>
    \/ /\ \A j \in Confirm : ~LiveJob(j)
       /\ ConfirmAt(c, "new", IF LiveFile(Upload) THEN "create" ELSE "refused")
       /\ UNCHANGED <<file, job, bull, mine, fseen>>

CreateJob(c) ==
    /\ ConfirmAt(c, "create", "file")
    /\ SetJob(c, "AWAITING_UPLOAD")
    /\ mine' = [mine EXCEPT ![c] = c]
    /\ UNCHANGED <<file, bull, fseen>>

\* The row is read and the object must exist.
ReadFile(c) ==
    /\ ConfirmAt(c, "file", IF LiveFile(Upload) /\ Upload \in stored
                            THEN "save" ELSE "refused")
    /\ fseen' = [fseen EXCEPT ![c] = file[Upload]]
    /\ UNCHANGED <<file, job, bull, mine>>

\* Mutant of SaveFile: the state is taken from the wrong enumeration.
SaveFileMixed(c) ==
    /\ ConfirmAt(c, "save", IF file[Upload] = "none" THEN "refused" ELSE "job")
    /\ Rewrite(Upload, IF fseen[c] = "UPLOADING" THEN "COMPLETED" ELSE fseen[c])
    /\ UNCHANGED <<job, bull, mine, fseen>>

SaveFile(c) ==
    /\ ConfirmAt(c, "save", IF file[Upload] = "none" THEN "refused" ELSE "job")
    /\ Rewrite(Upload, IF fseen[c] = "UPLOADING" THEN "OK" ELSE fseen[c])
    /\ UNCHANGED <<job, bull, mine, fseen>>

SaveJob(c) ==
    /\ ConfirmAt(c, "job", "add")
    /\ SetJob(mine[c], "AWAITING_PROCESSING")
    /\ UNCHANGED <<file, bull, mine, fseen>>

Enqueue(c) ==
    /\ ConfirmAt(c, "add", "done")
    /\ bull' = [bull EXCEPT ![c] = "wait"]
    /\ UNCHANGED <<file, job, mine, fseen>>

Confirmation(c) ==
    FindJob(c) \/ CreateJob(c) \/ ReadFile(c) \/ SaveFile(c) \/ SaveJob(c)
    \/ Enqueue(c)

-----------------------------------------------------------------------------
(***************************************************************************)
(* processS3File and processJob.                                           *)
(***************************************************************************)
IngestAt(c, from, to) ==
    /\ ipc[c] = from
    /\ ipc' = [ipc EXCEPT ![c] = to]
    /\ UNCHANGED <<soft, hidden, stalled, confirmVars, opVars, crashes, history>>

\* The await at a place fails: the catch block follows.
Fails(c, from, to) ==
    /\ Faults
    /\ IngestAt(c, from, to)
    /\ UNCHANGED <<file, job, stored, bull, target>>

\* findOneOrFail; the job's state is not looked at.
Take(c) ==
    /\ bull[c] = "wait"
    /\ bull' = [bull EXCEPT ![c] = IF LiveJob(mine[c]) THEN "active" ELSE "ended"]
    /\ IngestAt(c, "idle", IF LiveJob(mine[c]) THEN "download" ELSE "idle")
    /\ UNCHANGED <<file, job, stored, target>>

Step(c, from, to, s) ==
    /\ IngestAt(c, from, to)
    /\ SetJob(mine[c], s)

Download(c) ==
    /\ Step(c, "download", "fetch", "DOWNLOADING")
    /\ UNCHANGED <<file, stored, bull, target>>

\* fetch fails when the object is gone; the entity is saved once more.
Fetch(c) ==
    \/ /\ Upload \in stored
       /\ Step(c, "fetch", "find", "DOWNLOADING")
       /\ UNCHANGED <<file, stored, bull, target>>
    \/ /\ Upload \notin stored
       /\ IngestAt(c, "fetch", "error")
       /\ UNCHANGED <<file, job, stored, bull, target>>
    \/ Fails(c, "fetch", "error")

\* Rows of a mission that are not deleted have different names.
NameFree(as) == ~\E r \in FileRow : LiveFile(r) /\ (r.as = "mcap") = (as = "mcap")

\* createAndSaveFileEntity.
FindFile(c) ==
    \/ /\ LiveFile(Upload)
       /\ IngestAt(c, "find", "validate")
       /\ target' = [target EXCEPT ![c] = Upload]
       /\ UNCHANGED <<file, job, stored, bull>>
    \/ /\ ~LiveFile(Upload) /\ NameFree("new")
       /\ IngestAt(c, "find", "validate")
       /\ SetFile(New(c), "UPLOADING")
       /\ target' = [target EXCEPT ![c] = New(c)]
       /\ UNCHANGED <<job, stored, bull>>
    \/ /\ ~LiveFile(Upload) /\ ~NameFree("new")
       /\ IngestAt(c, "find", "error")
       /\ UNCHANGED <<file, job, stored, bull, target>>

\* The row is saved in state s; the failure of save leads elsewhere.
Save(c, from, s, to, failed) ==
    /\ IngestAt(c, from, IF file[target[c]] = "none" THEN failed ELSE to)
    /\ Rewrite(target[c], s)
    /\ UNCHANGED <<job, stored, bull, target>>

\* The magic number of the downloaded file.
Validate(c) ==
    \/ /\ IngestAt(c, "validate", "handle")
       /\ UNCHANGED <<file, job, stored, bull, target>>
    \/ Faults /\ Save(c, "validate", "CORRUPTED", "corrupt", "error")

Handle(c) ==
    /\ Step(c, "handle",
            CASE Kind = "plain" -> "complete"
              [] Kind = "mcap" -> "extract"
              [] OTHER -> "convert", "PROCESSING")
    /\ UNCHANGED <<file, stored, bull, target>>

\* An mcap is read from the storage, under the uuid of the row; a bag that is
\* not converted from the local copy.
Extract(c) ==
    \/ /\ Kind = "mcap" => target[c] \in stored
       /\ Save(c, "extract", "OK", "complete", "error")
    \/ /\ Faults \/ (Kind = "mcap" /\ target[c] \notin stored)
       /\ Save(c, "extract", "CORRUPTED", "error", "error")

\* RosBagHandler: the project tells whether bags are converted.
Convert(c) ==
    /\ \E autoConvert \in BOOLEAN :
          Step(c, "convert", IF autoConvert THEN "derive" ELSE "extract",
               "CONVERTING_AND_EXTRACTING_TOPICS")
    /\ UNCHANGED <<file, stored, bull, target>>

\* The row of the MCAP; its name may be taken.
Derive(c) ==
    \/ /\ NameFree("mcap")
       /\ IngestAt(c, "derive", "index")
       /\ SetFile(Mcap(c), "CONVERTING")
       /\ UNCHANGED <<job, stored, bull, target>>
    \/ /\ Faults \/ ~NameFree("mcap")
       /\ IngestAt(c, "derive", "bagfail")
       /\ UNCHANGED <<file, job, stored, bull, target>>

\* finishExtraction marks the MCAP OK; its object is stored two steps later.
Index(c) ==
    \/ /\ IngestAt(c, "index", "push")
       /\ SetFile(Mcap(c), "OK")
       /\ UNCHANGED <<job, stored, bull, target>>
    \/ Fails(c, "index", "mcapfail")

Push(c) ==
    \/ /\ Step(c, "push", "put", "UPLOADING")
       /\ UNCHANGED <<file, stored, bull, target>>
    \/ Fails(c, "push", "mcapfail")

Put(c) ==
    \/ /\ IngestAt(c, "put", "primary")
       /\ stored' = stored \cup {Mcap(c)}
       /\ UNCHANGED <<file, job, bull, target>>
    \/ Fails(c, "put", "mcapfail")

Primary(c) == Save(c, "primary", "OK", "complete", "mcapfail")

\* Mutant of McapFail: the catch of handleAutoConvert does not save.
McapFailSilent(c) ==
    /\ IngestAt(c, "mcapfail", "bagfail")
    /\ UNCHANGED <<file, job, stored, bull, target>>

McapFail(c) ==
    /\ IngestAt(c, "mcapfail", "bagfail")
    /\ SetFile(Mcap(c), "CONVERSION_ERROR")
    /\ UNCHANGED <<job, stored, bull, target>>

BagFail(c) == Save(c, "bagfail", "CONVERSION_ERROR", "error", "error")

Ends(c) == bull' = [bull EXCEPT ![c] = "ended"]

\* Mutant of Error: the catch block of processJob rethrows without saving.
ErrorUnsaved(c) ==
    /\ IngestAt(c, "error", "idle")
    /\ Ends(c)
    /\ UNCHANGED <<file, job, stored, target>>

Error(c) ==
    /\ Step(c, "error", "idle", "ERROR")
    /\ Ends(c)
    /\ UNCHANGED <<file, stored, target>>

Corrupt(c) ==
    /\ Step(c, "corrupt", "idle", "CORRUPTED")
    /\ Ends(c)
    /\ UNCHANGED <<file, stored, target>>

Complete(c) ==
    /\ Step(c, "complete", "idle", "COMPLETED")
    /\ Ends(c)
    /\ UNCHANGED <<file, stored, target>>

Ingest(c) ==
    \/ Take(c) \/ Download(c) \/ Fetch(c) \/ FindFile(c) \/ Validate(c)
    \/ Handle(c) \/ Extract(c) \/ Convert(c) \/ Derive(c) \/ Index(c) \/ Push(c)
    \/ Put(c) \/ Primary(c) \/ McapFail(c) \/ BagFail(c)
    \/ Error(c) \/ Corrupt(c) \/ Complete(c)

\* A consumer dies with the executions S.
Crash ==
    /\ crashes < MaxCrashes
    /\ \E S \in SUBSET {c \in Confirm : ipc[c] # "idle"} :
          /\ S # {}
          /\ ipc' = [c \in Confirm |-> IF c \in S THEN "idle" ELSE ipc[c]]
    /\ crashes' = crashes + 1
    /\ UNCHANGED <<file, soft, job, hidden, stored, bull, stalled, confirmVars,
                   target, opVars, history>>

\* Mutant of Stalled: a stalled job is failed at once (maxStalledCount 0).
StalledFails(c) ==
    /\ bull[c] = "active" /\ ipc[c] = "idle"
    /\ Ends(c)
    /\ stalled' = stalled \cup {c}
    /\ UNCHANGED <<file, soft, job, hidden, stored, confirmVars, ingestVars,
                   opVars, crashes, history>>

\* Bull gives an active job without a lock back once, then fails it.
Stalled(c) ==
    /\ bull[c] = "active" /\ ipc[c] = "idle"
    /\ bull' = [bull EXCEPT ![c] = IF c \in stalled THEN "ended" ELSE "wait"]
    /\ stalled' = stalled \cup {c}
    /\ UNCHANGED <<file, soft, job, hidden, stored, confirmVars, ingestVars,
                   opVars, crashes, history>>

-----------------------------------------------------------------------------
(***************************************************************************)
(* The operations.  A request that is refused changes nothing: only the    *)
(* accepted ones are steps.                                                *)
(***************************************************************************)
OpAt(o, from, to) ==
    /\ o \in Ops /\ rpc[o] = from
    /\ rpc' = [rpc EXCEPT ![o] = to]
    /\ UNCHANGED <<stalled, confirmVars, ingestVars, crashes>>

\* The guard of each request, on the row it reads.
Allows(o, s) ==
    CASE o = "cancel" -> Code[s] < Code["PROCESSING"]
      [] o = "remove" -> s \notin Busy
      [] o = "stop"   -> s = "PROCESSING"

Accept(o) ==
    /\ \E j \in {k \in Confirm : LiveJob(k)} :
          /\ Allows(o, job[j])
          /\ rjob' = [rjob EXCEPT ![o] = j]
    /\ OpAt(o, "new", "dequeue")
    /\ UNCHANGED <<file, soft, job, hidden, stored, bull, marked, history>>

TicketsOf(o, s) == {c \in Confirm : mine[c] = rjob[o] /\ bull[c] = s}

\* Mutant of Dequeue: the job is taken out of the queue although a consumer
\* holds its lock.
DequeueLocked(o) ==
    /\ OpAt(o, "dequeue", IF o = "cancel" THEN "save" ELSE "job")
    /\ \E c \in TicketsOf(o, "wait") \cup TicketsOf(o, "active") :
          /\ bull' = [bull EXCEPT ![c] = "none"]
          /\ dequeued' = IF o = "cancel" THEN dequeued \cup {c} ELSE dequeued
    /\ UNCHANGED <<file, soft, job, hidden, stored, rjob, marked, stopped>>

\* One waiting ticket of the job is removed, if there is one.
Dequeue(o) ==
    /\ o \in {"cancel", "remove"}
    /\ OpAt(o, "dequeue", IF o = "cancel" THEN "save" ELSE "job")
    /\ \/ \E c \in TicketsOf(o, "wait") :
             /\ bull' = [bull EXCEPT ![c] = "none"]
             /\ dequeued' = IF o = "cancel" THEN dequeued \cup {c} ELSE dequeued
       \/ /\ TicketsOf(o, "wait") = {}
          /\ UNCHANGED <<bull, dequeued>>
    /\ UNCHANGED <<file, soft, job, hidden, stored, rjob, marked, stopped>>

CancelSave ==
    /\ OpAt("cancel", "save", "done")
    /\ SetJob(rjob["cancel"], "CANCELED")
    /\ UNCHANGED <<file, soft, hidden, stored, bull, rjob, marked, history>>

\* stopJob: the ticket is moved to failed; the execution itself goes on.
StopTicket ==
    /\ \/ \E c \in TicketsOf("stop", "active") :
             /\ bull' = [bull EXCEPT ![c] = "ended"]
             /\ OpAt("stop", "dequeue", "save")
       \/ /\ TicketsOf("stop", "active") = {}
          /\ OpAt("stop", "dequeue", "done")
          /\ UNCHANGED bull
    /\ UNCHANGED <<file, soft, job, hidden, stored, rjob, marked, history>>

StopSave ==
    /\ OpAt("stop", "save", "done")
    /\ SetJob(rjob["stop"], "ERROR")
    /\ stopped' = stopped \cup {rjob["stop"]}
    /\ UNCHANGED <<file, soft, hidden, stored, bull, rjob, marked, dequeued>>

\* delete: the rows are removed, not soft deleted.
RemoveJob ==
    /\ OpAt("remove", "job", "object")
    /\ SetJob(rjob["remove"], "none")
    /\ hidden' = hidden \ {rjob["remove"]}
    /\ UNCHANGED <<file, soft, stored, bull, rjob, marked, history>>

RemoveObject ==
    /\ OpAt("remove", "object", IF LiveFile(Upload) THEN "file" ELSE "done")
    /\ stored' = IF LiveFile(Upload) THEN stored \ {Upload} ELSE stored
    /\ UNCHANGED <<file, soft, job, hidden, bull, rjob, marked, history>>

RemoveFile ==
    /\ OpAt("remove", "file", "done")
    /\ SetFile(Upload, "none")
    /\ soft' = soft \ {Upload}
    /\ UNCHANGED <<job, hidden, stored, bull, rjob, marked, history>>

\* deleteMultiple: the rows change when the transaction commits, the object
\* goes before that.
DeleteObject ==
    /\ LiveFile(Upload)
    /\ OpAt("delete", "new", "commit")
    /\ marked' = {j \in Confirm : LiveJob(j)}
    /\ stored' = stored \ {Upload}
    /\ UNCHANGED <<file, soft, job, hidden, bull, rjob, history>>

DeleteCommit ==
    /\ OpAt("delete", "commit", "done")
    /\ soft' = soft \cup {Upload}
    /\ hidden' = hidden \cup marked
    /\ UNCHANGED <<file, job, stored, bull, rjob, marked, history>>

\* cleanupFailedUploads, of uploads that are 12 hours old: a list, then a
\* save per row read; the same for the jobs.
CleanupList ==
    /\ LiveFile(Upload) /\ file[Upload] = "UPLOADING"
    /\ OpAt("cleanup", "new", "file")
    /\ UNCHANGED <<file, soft, job, hidden, stored, bull, rjob, marked, history>>

CleanupFile ==
    /\ OpAt("cleanup", "file", IF file[Upload] = "none" THEN "done" ELSE "jobs")
    /\ Rewrite(Upload, "ERROR")
    /\ UNCHANGED <<soft, job, hidden, stored, bull, rjob, marked, history>>

CleanupJobs ==
    \/ \E j \in Confirm :
          /\ LiveJob(j) /\ job[j] = "AWAITING_UPLOAD"
          /\ OpAt("cleanup", "jobs", "save")
          /\ rjob' = [rjob EXCEPT !["cleanup"] = j]
          /\ UNCHANGED <<file, soft, job, hidden, stored, bull, marked, history>>
    \/ /\ OpAt("cleanup", "save", "done")
       /\ SetJob(rjob["cleanup"], "ERROR")
       /\ UNCHANGED <<file, soft, hidden, stored, bull, rjob, marked, history>>

\* recomputeFileSizes: the row was read while OK.
RecomputeList ==
    /\ LiveFile(Upload) /\ file[Upload] = "OK"
    /\ OpAt("recompute", "new", "file")
    /\ UNCHANGED <<file, soft, job, hidden, stored, bull, rjob, marked, history>>

RecomputeSave ==
    /\ OpAt("recompute", "file", "done")
    /\ Rewrite(Upload, IF Upload \notin stored THEN "LOST" ELSE "OK")
    /\ UNCHANGED <<soft, job, hidden, stored, bull, rjob, marked, history>>

Operation ==
    \/ \E o \in {"cancel", "remove", "stop"} : Accept(o)
    \/ \E o \in {"cancel", "remove"} : Dequeue(o)
    \/ CancelSave \/ StopTicket \/ StopSave
    \/ RemoveJob \/ RemoveObject \/ RemoveFile
    \/ DeleteObject \/ DeleteCommit
    \/ CleanupList \/ CleanupFile \/ CleanupJobs
    \/ RecomputeList \/ RecomputeSave

-----------------------------------------------------------------------------
Next ==
    \/ PutObject \/ Crash \/ Operation
    \/ \E c \in Confirm : Confirmation(c) \/ Ingest(c) \/ Stalled(c)

Spec == Init /\ [][Next]_vars

(***************************************************************************)
(* Fairness: an execution goes on, Bull hands out and checks its jobs.     *)
(* None for clients, users, crashes and faults.                            *)
(***************************************************************************)
FairSpec ==
    Spec /\ \A c \in Confirm : WF_vars(Ingest(c)) /\ WF_vars(Stalled(c))

-----------------------------------------------------------------------------
(***************************************************************************)
(* Safety.                                                                 *)
(***************************************************************************)
\* A job row says that it is being processed only while a ticket for it runs,
\* waits, or is about to be given back, or an operation that took the ticket
\* is about to write the row: every exit of processJob, whichever of its
\* awaits failed, saves a final state.  (Bull fails a ticket that stalls twice
\* without telling the row; the execution of a stopped job has no ticket, so
\* that its crash leaves the row as it is.)
NotStuck ==
    \A j \in Confirm :
        LiveJob(j) /\ j \notin stopped /\ job[j] \in Busy =>
            \/ \E c \in Confirm :
                  /\ mine[c] = j
                  /\ ipc[c] # "idle" \/ bull[c] \in {"wait", "active"}
                     \/ c \in stalled
            \/ \E o \in Ops : rjob[o] = j /\ rpc[o] \in {"save", "job"}

\* An execution whose process died before it could store the MCAP.
CutOff(c) ==
    \/ c \in stalled
    \/ /\ mine[c] # NoJob /\ ipc[c] = "idle"
       /\ bull[c] = "active" \/ mine[c] = rjob["stop"]

\* What users can open: the upload and the MCAP, in state OK, have their
\* object, unless the step that stores it, or the one that marks the row, is
\* still to come, the execution was cut off, or the row is about to be deleted.
OkIsStored ==
    \A r \in FileRow :
        LiveFile(r) /\ file[r] = "OK" /\ r \notin stored =>
            \/ \E c \in Confirm :
                  /\ r = Mcap(c)
                  /\ ipc[c] \in {"push", "put", "mcapfail"} \/ CutOff(c)
            \/ r = Upload /\ (rpc["delete"] = "commit" \/ rpc["remove"] = "file")
            \/ r.as = "new"

\* A cancellation that took the ticket out of the queue is final: nobody
\* processes the job afterwards (of a file that was confirmed once).
CanceledIsFinal ==
    \A c \in dequeued :
        /\ ipc[c] = "idle"
        /\ rpc["cancel"] = "done" => job[mine[c]] \notin Busy \cup {"COMPLETED"}

(***************************************************************************)
(* Liveness.                                                               *)
(***************************************************************************)
\* Every ticket ends, and leaves the job's row in a final state.
TicketSettles ==
    \A c \in Confirm :
        bull[c] = "wait" ~>
            /\ bull[c] \in {"none", "ended"} /\ ipc[c] = "idle"
            /\ \A j \in Confirm :
                  j = mine[c] /\ LiveJob(j) =>
                      \/ job[j] \notin Busy \cup {"AWAITING_PROCESSING"}
                      \/ bull[c] = "none" \/ j = rjob["stop"]
=============================================================================
