------------------------- MODULE FileIngestionProofs -------------------------
(***************************************************************************)
(* The safety properties of FileIngestion, for any set of confirmations,   *)
(* any kind of file, any set of operations, any number of crashes, with    *)
(* and without faults.                                                     *)
(***************************************************************************)
EXTENDS FileIngestion, TLAPS

\* Only the operations that may be carried out begin; until it begins, the one
\* that stops a job has none, and no job was stopped.
OpsInv ==
    /\ \A o \in AllOps : rpc[o] # "new" => o \in Ops
    /\ rpc["stop"] = "new" => rjob["stop"] = NoJob /\ stopped = {}

\* There is no ticket before the end of a confirmation, which has its job by
\* then; an execution holds its ticket, unless the job is being stopped or was.
TicketInv ==
    \A c \in Confirm :
        /\ cpc[c] # "done" => bull[c] = "none" /\ ipc[c] = "idle" /\ c \notin stalled
        /\ cpc[c] \in {"new", "create"} => mine[c] = NoJob
        /\ cpc[c] \in {"file", "save", "job", "add", "done"} => mine[c] \in Confirm
        /\ ipc[c] # "idle" =>
              \/ bull[c] = "active"
              \/ /\ bull[c] = "ended" /\ mine[c] = rjob["stop"]
                 /\ rpc["stop"] = "save" \/ mine[c] \in stopped

\* A job that is being processed has a ticket that is executed, was cut off or
\* is about to be stopped.
Attended(j) ==
    \/ \E c \in Confirm :
          mine[c] = j /\ (ipc[c] # "idle" \/ bull[c] = "active" \/ c \in stalled)
    \/ rjob["stop"] = j /\ rpc["stop"] = "save"
BusyInv == \A j \in Confirm : job[j] \in Busy /\ j \notin stopped => Attended(j)

\* An execution works on the upload or on the row that it inserted.
TargetInv == \A c \in Confirm : target[c] \in {Upload, New(c)}

\* The upload has its object, or is deleted, or is about to be.
Kept ==
    \/ Upload \in stored \/ Upload \in soft \/ file[Upload] = "none"
    \/ rpc["delete"] = "commit" \/ rpc["remove"] = "file"

\* Whoever may mark the upload as OK has found its object.
UploadInv ==
    \/ Kept
    \/ /\ file[Upload] # "OK" /\ rpc["recompute"] # "file"
       /\ \A c \in Confirm : /\ cpc[c] \notin {"save", "job", "add", "done"}
                             /\ ipc[c] \in {"idle", "download", "fetch", "error"}

\* A ticket that was never executed has inserted no row.
FreshInv ==
    \A c \in Confirm :
        cpc[c] # "done" \/ (bull[c] = "wait" /\ c \notin stalled) =>
            file[Mcap(c)] = "none"

\* A converted MCAP is marked as OK shortly before its object is stored.
McapInv ==
    \A c \in Confirm :
        file[Mcap(c)] = "OK" /\ Mcap(c) \notin stored =>
            ipc[c] \in {"push", "put", "mcapfail"} \/ CutOff(c)

\* A ticket taken out by a cancellation is gone for good.
DequeuedInv ==
    \A c \in dequeued :
        /\ bull[c] = "none" /\ cpc[c] = "done"
        /\ mine[c] = rjob["cancel"] /\ rpc["cancel"] \notin {"new", "dequeue"}

\* A canceled job stays out of the processor's hands, if its file was confirmed
\* once: no other ticket is its own.
ConfirmedOnce == \A c, d \in Confirm : c = d
FinalInv ==
    ConfirmedOnce =>
        \A c \in dequeued :
            rpc["cancel"] = "done" => job[mine[c]] \notin Busy \cup {"COMPLETED"}

IInv == /\ TypeOK /\ OpsInv /\ TicketInv /\ BusyInv /\ TargetInv /\ UploadInv
        /\ FreshInv /\ McapInv /\ DequeuedInv /\ FinalInv

-----------------------------------------------------------------------------
USE IngestionAssumption
USE DEF confirmVars, ingestVars, opVars, history, SetFile, Rewrite, SetJob,
        ConfirmAt, IngestAt, Fails, Step, Save, Ends, OpAt

\* The rows are those of the upload, and two for each confirmation.
LEMMA Rows ==
  /\ Upload \in FileRow
  /\ \A c \in Confirm : /\ New(c) \in FileRow /\ Mcap(c) \in FileRow
                        /\ Upload # New(c) /\ Upload # Mcap(c)
                        /\ Upload.as = "upload" /\ New(c).as = "new" /\ Mcap(c).as = "mcap"
  /\ \A c, d \in Confirm : New(c) # Mcap(d) /\ (Mcap(c) = Mcap(d) => c = d)
BY DEF FileRow, Upload, New, Mcap

\* The values that the code compares as numbers.
LEMMA States ==
  /\ QueueState = {"none", "AWAITING_UPLOAD", "AWAITING_PROCESSING", "PROCESSING",
                   "DOWNLOADING", "CONVERTING_AND_EXTRACTING_TOPICS", "UPLOADING",
                   "COMPLETED", "ERROR", "CORRUPTED", "CANCELED"}
  /\ Busy = {"PROCESSING", "DOWNLOADING", "CONVERTING_AND_EXTRACTING_TOPICS",
             "UPLOADING"}
<1>1. QueueState = {"none", "AWAITING_UPLOAD", "AWAITING_PROCESSING", "PROCESSING",
                   "DOWNLOADING", "CONVERTING_AND_EXTRACTING_TOPICS", "UPLOADING",
                   "COMPLETED", "ERROR", "CORRUPTED", "CANCELED"}
  BY DEF QueueState, Code
<1>2. Busy = {"PROCESSING", "DOWNLOADING", "CONVERTING_AND_EXTRACTING_TOPICS",
             "UPLOADING"}
  BY <1>1 DEF Busy, Code
<1> QED
  BY <1>1, <1>2

\* An assignment keeps the type of the jobs' states, also that of no job.
LEMMA JobTyped ==
  \A j : \A f \in [Confirm -> QueueState], s \in QueueState :
      [f EXCEPT ![j] = s] \in [Confirm -> QueueState]
OBVIOUS

\* Nothing was confirmed, queued or executed yet.
LEMMA InitIInv ==
  ASSUME Init
  PROVE  IInv
<1> USE DEF Init
<1>1. TypeOK
  BY Rows, States DEF TypeOK, FileState, AllOps
<1>2. OpsInv /\ TicketInv /\ BusyInv /\ TargetInv
  BY States DEF OpsInv, TicketInv, BusyInv, TargetInv, AllOps
<1>3. UploadInv /\ FreshInv /\ McapInv
  BY Rows DEF UploadInv, FreshInv, McapInv, AllOps
<1>4. DequeuedInv /\ FinalInv
  BY DEF DequeuedInv, FinalInv
<1> QED
  BY <1>1, <1>2, <1>3, <1>4 DEF IInv

\* A confirmation finds or creates its job, reads and saves the file's row, saves
\* the job and adds the ticket: only then there is one.
LEMMA ConfirmationStep ==
  ASSUME IInv, NEW c \in Confirm,
         \/ FindJob(c) \/ CreateJob(c) \/ ReadFile(c) \/ SaveFile(c)
         \/ SaveJob(c) \/ Enqueue(c)
  PROVE  IInv'
<1> USE DEF FindJob, CreateJob, ReadFile, SaveFile, SaveJob, Enqueue
<1>1. TypeOK'
  BY Rows, States, JobTyped DEF IInv, TypeOK, FileState, AllOps
<1>2. OpsInv' /\ TicketInv'
  BY Rows, States DEF IInv, TypeOK, AllOps, OpsInv, TicketInv
<1>3. BusyInv'
  BY Rows, States DEF IInv, TypeOK, AllOps, OpsInv, TicketInv, BusyInv,
     Attended
<1>4. TargetInv' /\ UploadInv'
  BY Rows, States DEF IInv, TypeOK, AllOps, OpsInv, TargetInv, UploadInv,
     Kept
<1>5. FreshInv' /\ McapInv'
  BY Rows, States DEF IInv, TypeOK, AllOps, OpsInv, TicketInv, TargetInv,
     FreshInv, McapInv, CutOff
<1>6. DequeuedInv' /\ FinalInv'
  BY Rows, States DEF IInv, TypeOK, AllOps, OpsInv, TicketInv, DequeuedInv,
     FinalInv, ConfirmedOnce
<1> QED
  BY <1>1, <1>2, <1>3, <1>4, <1>5, <1>6 DEF IInv

\* The processor takes a ticket that waits.
LEMMA TakeStep ==
  ASSUME IInv, NEW c \in Confirm, Take(c)
  PROVE  IInv'
<1> USE DEF Take
<1>1. TypeOK'
  BY Rows, States, JobTyped DEF IInv, TypeOK, FileState, AllOps
<1>2. OpsInv' /\ TicketInv'
  BY Rows, States DEF IInv, TypeOK, AllOps, OpsInv, TicketInv
<1>3. BusyInv'
  BY Rows, States DEF IInv, TypeOK, AllOps, OpsInv, TicketInv, BusyInv,
     Attended
<1>4. TargetInv' /\ UploadInv'
  BY Rows, States DEF IInv, TypeOK, AllOps, OpsInv, TargetInv, UploadInv,
     Kept
<1>5. FreshInv' /\ McapInv'
  BY Rows, States DEF IInv, TypeOK, AllOps, OpsInv, TicketInv, TargetInv,
     FreshInv, McapInv, CutOff
<1>6. DequeuedInv' /\ FinalInv'
  BY Rows, States DEF IInv, TypeOK, AllOps, OpsInv, TicketInv, DequeuedInv,
     FinalInv, ConfirmedOnce
<1> QED
  BY <1>1, <1>2, <1>3, <1>4, <1>5, <1>6 DEF IInv

\* It fetches the object, which must exist, and finds or inserts the row.
LEMMA ReadingStep ==
  ASSUME IInv, NEW c \in Confirm,
         \/ Download(c) \/ Fetch(c) \/ FindFile(c) \/ Validate(c)
  PROVE  IInv'
<1> USE DEF Download, Fetch, FindFile, Validate
<1>1. TypeOK'
  BY Rows, States, JobTyped DEF IInv, TypeOK, FileState, AllOps
<1>2. OpsInv' /\ TicketInv'
  BY Rows, States DEF IInv, TypeOK, AllOps, OpsInv, TicketInv
<1>3. BusyInv'
  BY Rows, States DEF IInv, TypeOK, AllOps, OpsInv, TicketInv, BusyInv,
     Attended
<1>4. TargetInv'
  BY Rows, States DEF IInv, TypeOK, AllOps, TargetInv
<1>5. UploadInv'
  <2> HIDE DEF Download, Fetch, FindFile, Validate
  <2>1. CASE Download(c)
    BY <2>1, Rows, States
       DEF Download, IInv, TypeOK, AllOps, OpsInv, TargetInv, UploadInv, Kept
  <2>2. CASE Fetch(c)
    <3>1. /\ UNCHANGED <<file, stored, soft, rpc, cpc>>
          /\ \E to \in {"find", "error"} :
                ipc' = [ipc EXCEPT ![c] = to] /\ (to = "error" \/ Upload \in stored)
      BY <2>2 DEF Fetch
    <3> QED
      BY <3>1 DEF IInv, TypeOK, UploadInv, Kept
  <2>3. CASE FindFile(c)
    <3>1. ipc[c] = "find" /\ UNCHANGED <<stored, soft, rpc>>
      BY <2>3 DEF FindFile
    <3>2. file'[Upload] = file[Upload]
      BY <2>3, Rows DEF FindFile, IInv, TypeOK
    <3> QED
      BY <3>1, <3>2 DEF IInv, UploadInv, Kept
  <2>4. CASE Validate(c)
    BY <2>4, Rows, States
       DEF Validate, IInv, TypeOK, AllOps, OpsInv, TargetInv, UploadInv, Kept
  <2> QED
    BY <2>1, <2>2, <2>3, <2>4
<1>6. FreshInv' /\ McapInv'
  BY Rows, States DEF IInv, TypeOK, AllOps, OpsInv, TicketInv, TargetInv,
     FreshInv, McapInv, CutOff
<1>7. DequeuedInv' /\ FinalInv'
  BY Rows, States DEF IInv, TypeOK, AllOps, OpsInv, TicketInv, DequeuedInv,
     FinalInv, ConfirmedOnce
<1> QED
  BY <1>1, <1>2, <1>3, <1>4, <1>5, <1>6, <1>7 DEF IInv

\* It extracts the topics of an mcap, which must exist, or of a bag.
LEMMA HandlerStep ==
  ASSUME IInv, NEW c \in Confirm,
         \/ Handle(c) \/ Extract(c)
  PROVE  IInv'
<1> USE DEF Handle, Extract
<1>1. TypeOK'
  BY Rows, States, JobTyped DEF IInv, TypeOK, FileState, AllOps
<1>2. OpsInv' /\ TicketInv'
  BY Rows, States DEF IInv, TypeOK, AllOps, OpsInv, TicketInv
<1>3. BusyInv'
  BY Rows, States DEF IInv, TypeOK, AllOps, OpsInv, TicketInv, BusyInv,
     Attended
<1>4. TargetInv'
  BY Rows, States DEF IInv, TypeOK, AllOps, TargetInv
<1>5. UploadInv'
  BY Rows, States DEF IInv, TypeOK, AllOps, OpsInv, TargetInv, UploadInv,
     Kept
<1>6. FreshInv'
  BY Rows, States DEF IInv, TypeOK, AllOps, TicketInv, TargetInv, FreshInv
<1>7. McapInv'
  BY Rows, States DEF IInv, TypeOK, AllOps, OpsInv, TicketInv, TargetInv,
     FreshInv, McapInv, CutOff
<1>8. DequeuedInv' /\ FinalInv'
  BY Rows, States DEF IInv, TypeOK, AllOps, OpsInv, TicketInv, DequeuedInv,
     FinalInv, ConfirmedOnce
<1> QED
  BY <1>1, <1>2, <1>3, <1>4, <1>5, <1>6, <1>7, <1>8 DEF IInv

\* It converts a bag: the MCAP's row is marked, then its object is stored.
LEMMA ConversionStep ==
  ASSUME IInv, NEW c \in Confirm,
         \/ Convert(c) \/ Derive(c) \/ Index(c) \/ Push(c) \/ Put(c)
         \/ Primary(c)
  PROVE  IInv'
<1> USE DEF Convert, Derive, Index, Push, Put, Primary
<1>1. TypeOK'
  BY Rows, States, JobTyped DEF IInv, TypeOK, FileState, AllOps
<1>2. OpsInv' /\ TicketInv'
  BY Rows, States DEF IInv, TypeOK, AllOps, OpsInv, TicketInv
<1>3. BusyInv'
  BY Rows, States DEF IInv, TypeOK, AllOps, OpsInv, TicketInv, BusyInv,
     Attended
<1>4. TargetInv'
  BY Rows, States DEF IInv, TypeOK, AllOps, TargetInv
<1>5. UploadInv'
  BY Rows, States DEF IInv, TypeOK, AllOps, OpsInv, TargetInv, UploadInv,
     Kept
<1>6. FreshInv'
  BY Rows, States DEF IInv, TypeOK, AllOps, TicketInv, TargetInv, FreshInv
<1>7. McapInv'
  BY Rows, States DEF IInv, TypeOK, AllOps, OpsInv, TicketInv, TargetInv,
     FreshInv, McapInv, CutOff
<1>8. DequeuedInv' /\ FinalInv'
  BY Rows, States DEF IInv, TypeOK, AllOps, OpsInv, TicketInv, DequeuedInv,
     FinalInv, ConfirmedOnce
<1> QED
  BY <1>1, <1>2, <1>3, <1>4, <1>5, <1>6, <1>7, <1>8 DEF IInv

\* The catch blocks of a conversion.
LEMMA FailureStep ==
  ASSUME IInv, NEW c \in Confirm,
         \/ McapFail(c) \/ BagFail(c)
  PROVE  IInv'
<1> USE DEF McapFail, BagFail
<1>1. TypeOK'
  BY Rows, States, JobTyped DEF IInv, TypeOK, FileState, AllOps
<1>2. OpsInv' /\ TicketInv'
  BY Rows, States DEF IInv, TypeOK, AllOps, OpsInv, TicketInv
<1>3. BusyInv'
  BY Rows, States DEF IInv, TypeOK, AllOps, OpsInv, TicketInv, BusyInv,
     Attended
<1>4. TargetInv' /\ UploadInv'
  <2>1. CASE McapFail(c)
    BY <2>1, Rows, States DEF IInv, TypeOK, AllOps, OpsInv, TargetInv, UploadInv, Kept
  <2>2. CASE BagFail(c)
    BY <2>2, Rows, States DEF IInv, TypeOK, AllOps, OpsInv, TargetInv, UploadInv, Kept
  <2> QED
    BY <2>1, <2>2
<1>5. FreshInv' /\ McapInv'
  BY Rows, States DEF IInv, TypeOK, AllOps, OpsInv, TicketInv, TargetInv,
     FreshInv, McapInv, CutOff
<1>6. DequeuedInv' /\ FinalInv'
  BY Rows, States DEF IInv, TypeOK, AllOps, OpsInv, TicketInv, DequeuedInv,
     FinalInv, ConfirmedOnce
<1> QED
  BY <1>1, <1>2, <1>3, <1>4, <1>5, <1>6 DEF IInv

\* Every exit of processJob saves a final state.
LEMMA ExitStep ==
  ASSUME IInv, NEW c \in Confirm,
         \/ Error(c) \/ Corrupt(c) \/ Complete(c)
  PROVE  IInv'
<1> USE DEF Error, Corrupt, Complete
<1>1. TypeOK'
  BY Rows, States, JobTyped DEF IInv, TypeOK, FileState, AllOps
<1>2. OpsInv' /\ TicketInv'
  BY Rows, States DEF IInv, TypeOK, AllOps, OpsInv, TicketInv
<1>3. BusyInv'
  BY Rows, States DEF IInv, TypeOK, AllOps, OpsInv, TicketInv, BusyInv,
     Attended
<1>4. TargetInv' /\ UploadInv'
  BY Rows, States DEF IInv, TypeOK, AllOps, OpsInv, TargetInv, UploadInv,
     Kept
<1>5. FreshInv'
  BY Rows, States DEF IInv, TypeOK, AllOps, TicketInv, TargetInv, FreshInv
<1>6. McapInv'
  BY Rows, States DEF IInv, TypeOK, AllOps, OpsInv, TicketInv, TargetInv,
     FreshInv, McapInv, CutOff
<1>7. DequeuedInv' /\ FinalInv'
  BY Rows, States DEF IInv, TypeOK, AllOps, OpsInv, TicketInv, DequeuedInv,
     FinalInv, ConfirmedOnce
<1> QED
  BY <1>1, <1>2, <1>3, <1>4, <1>5, <1>6, <1>7 DEF IInv

\* A ticket without its execution is given back, or failed.
LEMMA StalledStep ==
  ASSUME IInv, NEW c \in Confirm, Stalled(c)
  PROVE  IInv'
<1> USE DEF Stalled
<1>1. TypeOK'
  BY Rows, States, JobTyped DEF IInv, TypeOK, FileState, AllOps
<1>2. OpsInv' /\ TicketInv'
  BY Rows, States DEF IInv, TypeOK, AllOps, OpsInv, TicketInv
<1>3. BusyInv'
  BY Rows, States DEF IInv, TypeOK, AllOps, OpsInv, TicketInv, BusyInv,
     Attended
<1>4. TargetInv' /\ UploadInv'
  BY Rows, States DEF IInv, TypeOK, AllOps, OpsInv, TargetInv, UploadInv,
     Kept
<1>5. FreshInv' /\ McapInv'
  BY Rows, States DEF IInv, TypeOK, AllOps, OpsInv, TicketInv, TargetInv,
     FreshInv, McapInv, CutOff
<1>6. DequeuedInv' /\ FinalInv'
  BY Rows, States DEF IInv, TypeOK, AllOps, OpsInv, TicketInv, DequeuedInv,
     FinalInv, ConfirmedOnce
<1> QED
  BY <1>1, <1>2, <1>3, <1>4, <1>5, <1>6 DEF IInv

\* A request on a job is accepted.
LEMMA AcceptStep ==
  ASSUME IInv, NEW o \in AllOps, Accept(o)
  PROVE  IInv'
<1> USE DEF Accept
<1>1. TypeOK'
  BY Rows, States, JobTyped DEF IInv, TypeOK, FileState, AllOps
<1>2. OpsInv' /\ TicketInv'
  BY Rows, States DEF IInv, TypeOK, AllOps, OpsInv, TicketInv
<1>3. BusyInv'
  BY Rows, States DEF IInv, TypeOK, AllOps, OpsInv, TicketInv, BusyInv,
     Attended
<1>4. TargetInv' /\ UploadInv'
  BY Rows, States DEF IInv, TypeOK, AllOps, OpsInv, TargetInv, UploadInv,
     Kept
<1>5. FreshInv' /\ McapInv'
  BY Rows, States DEF IInv, TypeOK, AllOps, OpsInv, TicketInv, TargetInv,
     FreshInv, McapInv, CutOff
<1>6. DequeuedInv' /\ FinalInv'
  BY Rows, States DEF IInv, TypeOK, AllOps, OpsInv, TicketInv, DequeuedInv,
     FinalInv, ConfirmedOnce
<1> QED
  BY <1>1, <1>2, <1>3, <1>4, <1>5, <1>6 DEF IInv

\* A waiting ticket of the job is removed: nobody executes it.
LEMMA DequeueStep ==
  ASSUME IInv, NEW o \in AllOps, Dequeue(o)
  PROVE  IInv'
<1> USE DEF Dequeue, TicketsOf
<1>1. TypeOK'
  BY Rows, States, JobTyped DEF IInv, TypeOK, FileState, AllOps
<1>2. OpsInv' /\ TicketInv'
  BY Rows, States DEF IInv, TypeOK, AllOps, OpsInv, TicketInv
<1>3. BusyInv'
  BY Rows, States DEF IInv, TypeOK, AllOps, OpsInv, TicketInv, BusyInv,
     Attended
<1>4. TargetInv' /\ UploadInv'
  BY Rows, States DEF IInv, TypeOK, AllOps, OpsInv, TargetInv, UploadInv,
     Kept
<1>5. FreshInv' /\ McapInv'
  BY Rows, States DEF IInv, TypeOK, AllOps, OpsInv, TicketInv, TargetInv,
     FreshInv, McapInv, CutOff
<1>6. DequeuedInv' /\ FinalInv'
  BY Rows, States DEF IInv, TypeOK, AllOps, OpsInv, TicketInv, DequeuedInv,
     FinalInv, ConfirmedOnce
<1> QED
  BY <1>1, <1>2, <1>3, <1>4, <1>5, <1>6 DEF IInv

\* A cancellation saves its verdict; a stop moves the ticket to failed, then saves.
LEMMA StopStep ==
  ASSUME IInv,
         \/ CancelSave \/ StopTicket \/ StopSave
  PROVE  IInv'
<1> USE DEF CancelSave, StopTicket, StopSave, TicketsOf
<1>1. TypeOK'
  BY Rows, States, JobTyped DEF IInv, TypeOK, FileState, AllOps
<1>2. OpsInv' /\ TicketInv'
  BY Rows, States DEF IInv, TypeOK, AllOps, OpsInv, TicketInv
<1>3. BusyInv'
  BY Rows, States DEF IInv, TypeOK, AllOps, OpsInv, TicketInv, BusyInv,
     Attended
<1>4. TargetInv' /\ UploadInv'
  BY Rows, States DEF IInv, TypeOK, AllOps, OpsInv, TargetInv, UploadInv,
     Kept
<1>5. FreshInv' /\ McapInv'
  BY Rows, States DEF IInv, TypeOK, AllOps, OpsInv, TicketInv, TargetInv,
     FreshInv, McapInv, CutOff
<1>6. DequeuedInv' /\ FinalInv'
  BY Rows, States DEF IInv, TypeOK, AllOps, OpsInv, TicketInv, DequeuedInv,
     FinalInv, ConfirmedOnce
<1> QED
  BY <1>1, <1>2, <1>3, <1>4, <1>5, <1>6 DEF IInv

\* The job is removed, the object of the upload, then its row.
LEMMA RemoveStep ==
  ASSUME IInv,
         \/ RemoveJob \/ RemoveObject \/ RemoveFile
  PROVE  IInv'
<1> USE DEF RemoveJob, RemoveObject, RemoveFile
<1>1. TypeOK'
  BY Rows, States, JobTyped DEF IInv, TypeOK, FileState, AllOps
<1>2. OpsInv' /\ TicketInv'
  BY Rows, States DEF IInv, TypeOK, AllOps, OpsInv, TicketInv
<1>3. BusyInv'
  BY Rows, States DEF IInv, TypeOK, AllOps, OpsInv, TicketInv, BusyInv,
     Attended
<1>4. TargetInv' /\ UploadInv'
  BY Rows, States DEF IInv, TypeOK, AllOps, OpsInv, TargetInv, UploadInv,
     Kept
<1>5. FreshInv' /\ McapInv'
  BY Rows, States DEF IInv, TypeOK, AllOps, OpsInv, TicketInv, TargetInv,
     FreshInv, McapInv, CutOff
<1>6. DequeuedInv' /\ FinalInv'
  BY Rows, States DEF IInv, TypeOK, AllOps, OpsInv, TicketInv, DequeuedInv,
     FinalInv, ConfirmedOnce
<1> QED
  BY <1>1, <1>2, <1>3, <1>4, <1>5, <1>6 DEF IInv

\* The object goes, then the transaction commits.
LEMMA DeleteStep ==
  ASSUME IInv,
         \/ DeleteObject \/ DeleteCommit
  PROVE  IInv'
<1> USE DEF DeleteObject, DeleteCommit
<1>1. TypeOK'
  BY Rows, States, JobTyped DEF IInv, TypeOK, FileState, AllOps
<1>2. OpsInv' /\ TicketInv'
  BY Rows, States DEF IInv, TypeOK, AllOps, OpsInv, TicketInv
<1>3. BusyInv'
  BY Rows, States DEF IInv, TypeOK, AllOps, OpsInv, TicketInv, BusyInv,
     Attended
<1>4. TargetInv' /\ UploadInv'
  BY Rows, States DEF IInv, TypeOK, AllOps, OpsInv, TargetInv, UploadInv,
     Kept
<1>5. FreshInv' /\ McapInv'
  BY Rows, States DEF IInv, TypeOK, AllOps, OpsInv, TicketInv, TargetInv,
     FreshInv, McapInv, CutOff
<1>6. DequeuedInv' /\ FinalInv'
  BY Rows, States DEF IInv, TypeOK, AllOps, OpsInv, TicketInv, DequeuedInv,
     FinalInv, ConfirmedOnce
<1> QED
  BY <1>1, <1>2, <1>3, <1>4, <1>5, <1>6 DEF IInv

\* The crons save rows that they read earlier.
LEMMA CronsStep ==
  ASSUME IInv,
         \/ CleanupList \/ CleanupFile \/ CleanupJobs
         \/ RecomputeList \/ RecomputeSave
  PROVE  IInv'
<1> USE DEF CleanupList, CleanupFile, CleanupJobs, RecomputeList,
            RecomputeSave
<1>1. TypeOK'
  BY Rows, States, JobTyped DEF IInv, TypeOK, FileState, AllOps
<1>2. OpsInv' /\ TicketInv'
  BY Rows, States DEF IInv, TypeOK, AllOps, OpsInv, TicketInv
<1>3. BusyInv'
  BY Rows, States DEF IInv, TypeOK, AllOps, OpsInv, TicketInv, BusyInv,
     Attended
<1>4. TargetInv' /\ UploadInv'
  BY Rows, States DEF IInv, TypeOK, AllOps, OpsInv, TargetInv, UploadInv,
     Kept
<1>5. FreshInv' /\ McapInv'
  BY Rows, States DEF IInv, TypeOK, AllOps, OpsInv, TicketInv, TargetInv,
     FreshInv, McapInv, CutOff
<1>6. DequeuedInv' /\ FinalInv'
  BY Rows, States DEF IInv, TypeOK, AllOps, OpsInv, TicketInv, DequeuedInv,
     FinalInv, ConfirmedOnce
<1> QED
  BY <1>1, <1>2, <1>3, <1>4, <1>5, <1>6 DEF IInv

\* The client stores the object.
LEMMA PutStep ==
  ASSUME IInv, PutObject
  PROVE  IInv'
<1> USE DEF PutObject
<1>1. TypeOK'
  BY Rows, States, JobTyped DEF IInv, TypeOK, FileState, AllOps
<1>2. OpsInv' /\ TicketInv'
  BY Rows, States DEF IInv, TypeOK, AllOps, OpsInv, TicketInv
<1>3. BusyInv'
  BY Rows, States DEF IInv, TypeOK, AllOps, OpsInv, TicketInv, BusyInv,
     Attended
<1>4. TargetInv' /\ UploadInv'
  BY Rows, States DEF IInv, TypeOK, AllOps, OpsInv, TargetInv, UploadInv,
     Kept
<1>5. FreshInv' /\ McapInv'
  BY Rows, States DEF IInv, TypeOK, AllOps, OpsInv, TicketInv, TargetInv,
     FreshInv, McapInv, CutOff
<1>6. DequeuedInv' /\ FinalInv'
  BY Rows, States DEF IInv, TypeOK, AllOps, OpsInv, TicketInv, DequeuedInv,
     FinalInv, ConfirmedOnce
<1> QED
  BY <1>1, <1>2, <1>3, <1>4, <1>5, <1>6 DEF IInv

\* Executions die: their tickets are still active, or their jobs stopped.
LEMMA CrashStep ==
  ASSUME IInv, Crash
  PROVE  IInv'
<1> USE DEF Crash
<1>1. TypeOK'
  BY Rows, States, JobTyped DEF IInv, TypeOK, FileState, AllOps
<1>2. OpsInv' /\ TicketInv'
  BY Rows, States DEF IInv, TypeOK, AllOps, OpsInv, TicketInv
<1>3. BusyInv'
  BY Rows, States DEF IInv, TypeOK, AllOps, OpsInv, TicketInv, BusyInv,
     Attended
<1>4. TargetInv' /\ UploadInv'
  BY Rows, States DEF IInv, TypeOK, AllOps, OpsInv, TargetInv, UploadInv,
     Kept
<1>5. FreshInv' /\ McapInv'
  BY Rows, States DEF IInv, TypeOK, AllOps, OpsInv, TicketInv, TargetInv,
     FreshInv, McapInv, CutOff
<1>6. DequeuedInv' /\ FinalInv'
  BY Rows, States DEF IInv, TypeOK, AllOps, OpsInv, TicketInv, DequeuedInv,
     FinalInv, ConfirmedOnce
<1> QED
  BY <1>1, <1>2, <1>3, <1>4, <1>5, <1>6 DEF IInv

-----------------------------------------------------------------------------
\* Every step keeps the invariant.
LEMMA StepIInv ==
  ASSUME IInv, [Next]_vars
  PROVE  IInv'
<1>1. CASE PutObject \/ Crash
  BY <1>1, PutStep, CrashStep
<1>2. CASE Operation
  <2>1. {"cancel", "remove", "stop"} \subseteq AllOps
    BY DEF AllOps
  <2> QED
    BY <1>2, <2>1, AcceptStep, DequeueStep, StopStep, RemoveStep, DeleteStep, CronsStep
    DEF Operation
<1>3. CASE \E c \in Confirm : Confirmation(c)
  BY <1>3, ConfirmationStep DEF Confirmation
<1>4. CASE \E c \in Confirm : Ingest(c)
  BY <1>4, TakeStep, ReadingStep, HandlerStep, ConversionStep, FailureStep, ExitStep
  DEF Ingest
<1>5. CASE \E c \in Confirm : Stalled(c)
  BY <1>5, StalledStep
<1>6. CASE UNCHANGED vars
  BY <1>6 DEF vars, IInv, TypeOK, OpsInv, TicketInv, BusyInv, Attended, TargetInv,
              UploadInv, Kept, FreshInv, McapInv, CutOff, DequeuedInv, FinalInv
<1> QED
  BY <1>1, <1>2, <1>3, <1>4, <1>5, <1>6 DEF Next

\* The invariant holds throughout.
LEMMA Invariance == Spec => []IInv
<1>1. IInv /\ [Next]_vars => IInv'
  BY StepIInv
<1> QED
  BY InitIInv, <1>1, PTL DEF Spec

\* A row in state OK is the upload, a row inserted for it or an MCAP.
LEMMA StoredByInvariant ==
  ASSUME IInv
  PROVE  OkIsStored
<1> SUFFICES ASSUME NEW r \in FileRow, LiveFile(r), file[r] = "OK", r \notin stored
             PROVE  \/ \E c \in Confirm :
                          /\ r = Mcap(c)
                          /\ ipc[c] \in {"push", "put", "mcapfail"} \/ CutOff(c)
                    \/ r = Upload /\ (rpc["delete"] = "commit" \/ rpc["remove"] = "file")
                    \/ r.as = "new"
  BY DEF OkIsStored
<1>1. CASE r = Upload
  BY <1>1 DEF IInv, UploadInv, Kept, LiveFile
<1>2. CASE \E c \in Confirm : r = New(c)
  BY <1>2, Rows
<1>3. CASE \E c \in Confirm : r = Mcap(c)
  BY <1>3 DEF IInv, McapInv
<1> QED
  BY <1>1, <1>2, <1>3 DEF FileRow

\* QueueService, FileService, FileQueueProcessorProvider: whatever is requested,
\* executed, failed or lost, every part of the state is what the code expects.
THEOREM TypeCorrect == Spec => []TypeOK
BY Invariance, PTL DEF IInv

\* processJob: for any number of confirmations, operations and crashes, a job is
\* in a state of processing only while somebody is going to end it.
THEOREM JobsAreAttended == Spec => []NotStuck
<1>1. IInv => NotStuck
  BY DEF IInv, OpsInv, BusyInv, Attended, NotStuck, AllOps
<1> QED
  BY Invariance, <1>1, PTL

\* confirmUpload, deleteMultiple, handleAutoConvert: for any number of
\* confirmations, operations, faults and crashes, a row in state OK has its
\* object, but for the moments that OkIsStored names.
THEOREM OkHasObject == Spec => []OkIsStored
BY Invariance, StoredByInvariant, PTL

\* cancelJob: of a file that is confirmed once, a job whose ticket a cancellation
\* removed is neither executed nor marked as processed afterwards.
THEOREM CanceledStays ==
  ASSUME ConfirmedOnce
  PROVE  Spec => []CanceledIsFinal
<1>1. IInv => CanceledIsFinal
  <2> SUFFICES ASSUME IInv, NEW c \in dequeued
               PROVE  /\ ipc[c] = "idle"
                      /\ rpc["cancel"] = "done" =>
                            job[mine[c]] \notin Busy \cup {"COMPLETED"}
    BY DEF CanceledIsFinal
  <2>1. ipc[c] = "idle"
    BY DEF IInv, TypeOK, DequeuedInv, TicketInv
  <2>2. rpc["cancel"] = "done" => job[mine[c]] \notin Busy \cup {"COMPLETED"}
    BY ConfirmedOnce DEF IInv, FinalInv
  <2> QED
    BY <2>1, <2>2
<1> QED
  BY Invariance, <1>1, PTL

==============================================================================
