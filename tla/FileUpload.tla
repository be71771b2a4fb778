----------------------------- MODULE FileUpload -----------------------------
(***************************************************************************)
(* Upload of files into one mission: FileService.getTemporaryAccess and    *)
(* cancelUpload of the backend, the cancelUpload processor and the         *)
(* clean-up of the queueConsumer, and the two clients: upload_file of the  *)
(* CLI, which uploads one file and retries, and _createFileAction of the   *)
(* frontend, which asks for the credentials of a batch and then uploads    *)
(* its files side by side.                                                 *)
(*                                                                         *)
(* A client is called by the batch of names it uploads; <<c, i>> is the    *)
(* content of the i-th file of client c.  A row of file_entity is a number *)
(* (its uuid); so is the ingestion job whose identifier is that uuid.  The *)
(* steps of a confirmation are those of FileIngestion; here it is one.     *)
(***************************************************************************)
EXTENDS Naturals, Sequences, FiniteSets

CONSTANTS
    Cli, Web,       \* the clients
    Batch,          \* the file names that a client uploads, a sequence
    Unsupported,    \* names whose ending the backend refuses
    MaxUploadRetries,  \* attempts of upload_file (3 in the code)
    MaxAttempts,       \* requests for credentials of a later attempt (5)
    MaxRow,         \* bound: rows of file_entity
    MaxDelete,      \* bound: files that users delete
    Faults          \* storage and network may fail

Client == Cli \cup Web
Name   == UNION {{Batch[c][i] : i \in DOMAIN Batch[c]} : c \in Client}
Item   == UNION {{<<c, i>> : i \in DOMAIN Batch[c]} : c \in Client}
RowId  == 1..MaxRow

ASSUME UploadAssumption ==
    /\ Cli \cap Web = {}
    /\ \A c \in Client : Batch[c] \in Seq(Name) /\ Len(Batch[c]) > 0
    /\ \A c \in Cli : Len(Batch[c]) = 1
    /\ {MaxUploadRetries, MaxAttempts, MaxRow} \subseteq Nat \ {0}
    /\ MaxDelete \in Nat /\ Faults \in BOOLEAN

VARIABLES
    rows,      \* the names of the rows inserted so far
    state,     \* file_entity.state, or how the row went
    object,    \* the content stored under a row's uuid
    job,       \* ingestion_job.state of the job of a row
    cancels,   \* rows whose cancellation waits in the clean-up queue
    pc, creds, \* a client, and the rows it was given (0: no credentials)
    attempt, tries,  \* upload_file
    ipc,       \* a file of a client
    deletes

vars == <<rows, state, object, job, cancels, pc, creds, attempt, tries, ipc,
          deletes>>
database == <<rows, state, job>>
client   == <<pc, creds, attempt, tries>>

Nothing == <<>>
Live(r)  == r \in DOMAIN rows /\ state[r] \in {"UPLOADING", "OK", "ERROR"}

Taken == {rows[r] : r \in {s \in DOMAIN rows : Live(s)}}

TypeOK ==
    /\ rows \in Seq(Name) /\ Len(rows) <= MaxRow
    /\ state \in [RowId -> {"none", "UPLOADING", "OK", "ERROR", "removed",
                            "deleted"}]
    /\ object \in [RowId -> Item \cup {Nothing}]
    /\ job \in [RowId -> {"none", "AWAITING_PROCESSING", "CANCELED"}]
    /\ cancels \subseteq RowId
    /\ pc \in [Client -> {"ask", "upload"}]
    /\ creds \in [Client -> Seq(RowId \cup {0})]
    /\ attempt \in [Client -> 0..(MaxUploadRetries - 1)]
    /\ tries \in [Client -> 0..(MaxAttempts - 1)]
    /\ ipc \in [Item -> {"idle", "check", "send", "confirm", "cancel",
                         "UPLOADED", "EXISTS", "FAILED"}]
    /\ deletes \in 0..MaxDelete

Init ==
    /\ rows = <<>>
    /\ state = [r \in RowId |-> "none"] /\ job = [r \in RowId |-> "none"]
    /\ object = [r \in RowId |-> Nothing]
    /\ cancels = {} /\ deletes = 0
    /\ pc = [c \in Client |-> "ask"] /\ creds = [c \in Client |-> <<>>]
    /\ attempt = [c \in Client |-> 0] /\ tries = [c \in Client |-> 0]
    /\ ipc = [x \in Item |-> "idle"]

SetAll(c, s) == ipc' = [x \in Item |-> IF x[1] = c THEN s ELSE ipc[x]]
SetItem(x, s) == ipc' = [ipc EXCEPT ![x] = s]

-----------------------------------------------------------------------------
(***************************************************************************)
(* getTemporaryAccess: one transaction, which a name that exists aborts.   *)
(***************************************************************************)
\* The elements of s at the positions I, in their order.
Before(I, i) == Cardinality({j \in I : j < i})
Pick(s, I) ==
    [k \in 1..Cardinality(I) |-> s[CHOOSE i \in I : Before(I, i) = k - 1]]

Without(s, S) == Pick(s, {k \in DOMAIN s : s[k] \notin S})

\* [...new Set(filenames)]
Distinct(names) ==
    Pick(names, {i \in DOMAIN names : \A j \in 1..(i - 1) : names[j] # names[i]})

Requested(c) == Distinct(Batch[c])
Inserted(c)  == Without(Requested(c), Unsupported)

\* Mutant of Conflicts: the upload of a name whose row is not OK yet is taken
\* up again.
ConflictsIfOk(c) ==
    \E r \in DOMAIN rows, k \in DOMAIN Inserted(c) :
        state[r] = "OK" /\ Inserted(c)[k] = rows[r]

Conflicts(c) == \E k \in DOMAIN Inserted(c) : Inserted(c)[k] \in Taken

\* The row of a name: the one there is, or the one this transaction inserts.
RowOf(n, names) ==
    IF n \in Unsupported THEN 0
    ELSE CHOOSE r \in DOMAIN names : names[r] = n /\ (Live(r) \/ r > Len(rows))

Grant(c) ==
    /\ ~Conflicts(c)
    /\ LET all == rows \o Without(Inserted(c), Taken)
       IN  /\ Len(all) <= MaxRow
           /\ rows' = all
           /\ state' = [r \in RowId |->
                           IF r \in (Len(rows) + 1)..Len(all) THEN "UPLOADING"
                           ELSE state[r]]
           /\ \/ /\ creds' = [creds EXCEPT ![c] =
                       [k \in DOMAIN Requested(c) |-> RowOf(Requested(c)[k], all)]]
                 /\ pc' = [pc EXCEPT ![c] = "upload"]
                 /\ ipc' = [x \in Item |->
                       IF x[1] # c THEN ipc[x]
                       ELSE IF x[2] > Len(creds'[c]) \/ creds'[c][x[2]] = 0
                            THEN "FAILED"
                       ELSE IF c \in Web THEN "check" ELSE "send"]
              \/ /\ Faults                     \* the answer is lost
                 /\ pc' = [pc EXCEPT ![c] = "upload"]
                 /\ SetAll(c, "FAILED")
                 /\ UNCHANGED creds
    /\ UNCHANGED <<object, job, cancels, attempt, tries, deletes>>

\* Mutant of Limit: one request too many.
LimitPlusOne(c) == IF attempt[c] > 0 THEN MaxAttempts + 1 ELSE 1

Limit(c) == IF attempt[c] > 0 THEN MaxAttempts ELSE 1

\* 409: the CLI asks again from its second attempt on, the frontend gives up.
Refuse(c) ==
    /\ Conflicts(c)
    /\ IF c \in Cli /\ tries[c] + 1 < Limit(c)
       THEN /\ tries' = [tries EXCEPT ![c] = @ + 1]
            /\ UNCHANGED <<pc, ipc>>
       ELSE /\ pc' = [pc EXCEPT ![c] = "upload"]
            /\ SetAll(c, IF c \in Cli THEN "EXISTS" ELSE "FAILED")
            /\ UNCHANGED tries
    /\ UNCHANGED <<database, object, cancels, creds, attempt, deletes>>

Ask(c) == pc[c] = "ask" /\ (Grant(c) \/ Refuse(c))

-----------------------------------------------------------------------------
(***************************************************************************)
(* The upload of one file.                                                 *)
(***************************************************************************)
Row(x) == creds[x[1]][x[2]]

\* uploadFileMultipart asks whether the file is still there (every 20 parts).
Check(x) ==
    /\ ipc[x] = "check"
    /\ SetItem(x, IF Live(Row(x)) THEN "send" ELSE "cancel")
    /\ UNCHANGED <<database, object, cancels, client, deletes>>

\* A failure may come after the storage completed the object.
Send(x) ==
    /\ ipc[x] = "send"
    /\ \/ /\ object' = [object EXCEPT ![Row(x)] = x]
          /\ SetItem(x, "confirm")
       \/ /\ Faults
          /\ object' \in {object, [object EXCEPT ![Row(x)] = x]}
          /\ SetItem(x, "cancel")
    /\ UNCHANGED <<database, cancels, client, deletes>>

\* confirmUpload, once per row, which thus has no job yet; its answer may be
\* lost.
Confirm(x) ==
    /\ ipc[x] = "confirm"
    /\ LET r == Row(x)
           accepted == Live(r) /\ object[r] # Nothing
       IN  \/ /\ accepted
              /\ state' = [state EXCEPT ![r] = IF @ = "UPLOADING" THEN "OK" ELSE @]
              /\ job' = [job EXCEPT ![r] = "AWAITING_PROCESSING"]
              /\ SetItem(x, "UPLOADED") \/ (Faults /\ SetItem(x, "FAILED"))
           \/ /\ ~accepted
              /\ SetItem(x, "FAILED")
              /\ UNCHANGED <<state, job>>
    /\ UNCHANGED <<rows, object, cancels, client, deletes>>

\* Mutant of NextAttempt: the attempts are not counted.
SameAttempt(c) == attempt[c]

NextAttempt(c) == attempt[c] + 1

\* The request to cancel may fail.  upload_file then starts over.
Cancel(x) ==
    /\ ipc[x] = "cancel"
    /\ cancels' = cancels \cup {Row(x)} \/ (Faults /\ UNCHANGED cancels)
    /\ LET c == x[1]
       IN  IF c \in Cli /\ NextAttempt(c) < MaxUploadRetries
           THEN /\ attempt' = [attempt EXCEPT ![c] = NextAttempt(c)]
                /\ tries' = [tries EXCEPT ![c] = 0]
                /\ pc' = [pc EXCEPT ![c] = "ask"]
                /\ creds' = [creds EXCEPT ![c] = <<>>]
                /\ SetItem(x, "idle")
           ELSE /\ SetItem(x, "FAILED")
                /\ UNCHANGED client
    /\ UNCHANGED <<database, object, deletes>>

Upload(c) ==
    \/ Ask(c)
    \/ \E i \in DOMAIN Batch[c] :
          Check(<<c, i>>) \/ Send(<<c, i>>) \/ Confirm(<<c, i>>) \/ Cancel(<<c, i>>)

-----------------------------------------------------------------------------
(***************************************************************************)
(* The clean-up queue, the clean-up cron, and users.                       *)
(***************************************************************************)
\* The job is looked up by the name it displays; without one the processor
\* throws, and Bull does not try again.
ProcessCancel ==
    \E r \in cancels :
       /\ cancels' = cancels \ {r}
       /\ \/ /\ Live(r) /\ state[r] # "OK"
             /\ \E j \in {k \in DOMAIN rows : job[k] # "none" /\ rows[k] = rows[r]} :
                   /\ job' = [job EXCEPT ![j] = "CANCELED"]
                   /\ state' = [state EXCEPT ![r] = "removed"]
          \/ /\ \/ ~Live(r) \/ state[r] = "OK"
                \/ ~\E k \in DOMAIN rows : job[k] # "none" /\ rows[k] = rows[r]
             /\ UNCHANGED <<state, job>>
       /\ UNCHANGED <<rows, object, client, ipc, deletes>>

\* Mutant of Stale: uploads are looked for by their jobs.
StaleByJob(r) == state[r] = "UPLOADING" /\ job[r] # "none"

\* UPLOADING for 12 hours, whoever is still sending.
Stale(r) == state[r] = "UPLOADING"

\* cleanupFailedUploads.
Cleanup ==
    /\ \E r \in RowId : Stale(r)
    /\ state' = [r \in RowId |-> IF Stale(r) THEN "ERROR" ELSE state[r]]
    /\ UNCHANGED <<rows, object, job, cancels, client, ipc, deletes>>

\* deleteFile; the ingestion job stays.
DeleteFile ==
    /\ deletes < MaxDelete
    /\ \E r \in DOMAIN rows :
          /\ Live(r)
          /\ state' = [state EXCEPT ![r] = "deleted"]
          /\ object' = [object EXCEPT ![r] = Nothing]
    /\ deletes' = deletes + 1
    /\ UNCHANGED <<rows, job, cancels, client, ipc>>

-----------------------------------------------------------------------------
Next ==
    \/ \E c \in Client : Upload(c)
    \/ ProcessCancel \/ Cleanup \/ DeleteFile

Spec == Init /\ [][Next]_vars

(***************************************************************************)
(* Fairness: clients go on, the queue is worked off, the cron runs.        *)
(***************************************************************************)
FairSpec ==
    /\ Spec
    /\ \A c \in Client : WF_vars(Upload(c))
    /\ WF_vars(ProcessCancel) /\ WF_vars(Cleanup)

-----------------------------------------------------------------------------
(***************************************************************************)
(* Properties.                                                             *)
(***************************************************************************)
\* A file that its client reports as uploaded is the one stored under the row
\* the client was given, as long as nobody deletes that row: neither a retry,
\* nor another client, nor a late cancellation gets at it.
UploadedIsMine ==
    \A x \in Item :
        ipc[x] = "UPLOADED" =>
            \/ state[Row(x)] = "deleted"
            \/ Live(Row(x)) /\ object[Row(x)] = x

\* Every upload comes to an end, whatever fails.
UploadEnds ==
    \A x \in Item : <>[](ipc[x] \in {"UPLOADED", "EXISTS", "FAILED"})

\* A row does not stay in UPLOADING for ever.
UploadingEnds ==
    \A r \in RowId : state[r] = "UPLOADING" ~> state[r] # "UPLOADING"
=============================================================================
