---------------------------- MODULE ActionRunner ----------------------------
(***************************************************************************)
(* One queueConsumer host that runs actions: the Bull consumer of the      *)
(* queue action-queue-<hostname>, the execution of one action at a time    *)
(* (ActionManagerService.processAction), the completion and failure        *)
(* handlers of the queue, the Janitor (performReconciliation, every 30 s)  *)
(* and the crash and restart of the process.  They share the rows of the   *)
(* action table, the Docker daemon of the host and the job queue in Redis, *)
(* and none of them takes a lock.                                          *)
(*                                                                         *)
(* Bull, Docker and Node.js are external: they are modelled by how the     *)
(* code uses them.                                                         *)
(***************************************************************************)
EXTENDS Naturals, FiniteSets

CONSTANTS
    Action,      \* the actions queued on this host
    NoAction,    \* "the runner is idle"
    MaxCrashes,  \* bound: crashes of the process caused by its environment
    Foreign,     \* containers of another environment share the Docker daemon
    Faults       \* Docker, S3 or the access check may fail at any call

ASSUME RunnerAssumption ==
    /\ NoAction \notin Action
    /\ MaxCrashes \in Nat
    /\ Foreign \in BOOLEAN
    /\ Faults \in BOOLEAN

VARIABLES
    \* the database
    row,        \* action.state, or "DELETED" once the row is gone
    artifacts,  \* action.artifacts
    key,        \* the action's API key ("orphaned": live, its disposer died)
    \* Redis
    job,        \* where the action's Bull job is
    stalls,     \* Bull's stalled counter of that job
    \* the Docker daemon
    box,        \* the action's container
    boxGen,     \* its runner_id label
    exitCode,   \* how it ended
    late,       \* its expires_at label is in the past
    removing,   \* a remove request was sent and not awaited
    \* the process
    up, gen, crashes,
    inactive,   \* runner rows whose lastSeenAt is older than 5 minutes
    cur, pc,    \* the action being executed, and where
    seen,       \* action.state in the entity read when the job was taken
    handler,    \* queue event handlers in flight
    \* the Janitor
    jpc, jcur, jseen, jdoomed, jzombie, jcrash

dbVars     == <<row, artifacts, key>>
queueVars  == <<job, stalls>>
boxVars    == <<box, boxGen, exitCode, late, removing>>
procVars   == <<up, gen, crashes, inactive>>
runVars    == <<cur, pc, seen>>
janitorVars == <<jpc, jcur, jseen, jdoomed, jzombie, jcrash>>

vars == <<row, artifacts, key, job, stalls, box, boxGen, exitCode, late,
          removing, up, gen, crashes, inactive, cur, pc, seen, handler,
          jpc, jcur, jseen, jdoomed, jzombie, jcrash>>

(***************************************************************************)
(* Types                                                                   *)
(***************************************************************************)
ActionState == {"PENDING", "STARTING", "PROCESSING", "STOPPING", "DONE",
                "FAILED"}
Row         == ActionState \cup {"DELETED"}
Artifacts   == {"AWAITING_ACTION", "UPLOADING", "UPLOADED", "ERROR"}
KeyState    == {"none", "live", "orphaned", "disposed"}
JobState    == {"none", "wait", "active", "delayed", "failed"}
BoxState    == {"none", "created", "running", "exited", "gone"}
ExitCode    == {"none", "zero", "nonzero", "killed"}
HandlerState == {"none", "completed", "saveDone", "saveFailed",
                 "failed", "removed", "saveError"}

\* The awaits of the try block of processAction, in order.
TrySteps    == {"image", "create", "launch", "info", "wait", "stop",
                "inspect", "upload"}
\* The steps at which the execution holds its API key.
KeySteps    == TrySteps \cup {"caught", "dispose", "disposeErr"}
Pc          == KeySteps \cup {"idle", "check", "key", "complete", "throw"}

TypeOK ==
    /\ row \in [Action -> Row]
    /\ artifacts \in [Action -> Artifacts]
    /\ key \in [Action -> KeyState]
    /\ job \in [Action -> JobState]
    /\ stalls \in [Action -> {0, 1}]
    /\ box \in [Action -> BoxState]
    /\ boxGen \in [Action -> Nat]
    /\ exitCode \in [Action -> ExitCode]
    /\ late \in [Action -> BOOLEAN]
    /\ removing \in [Action -> BOOLEAN]
    /\ up \in BOOLEAN /\ gen \in Nat /\ crashes \in Nat
    /\ inactive \subseteq Nat
    /\ cur \in Action \cup {NoAction}
    /\ pc \in Pc
    /\ (pc = "idle") = (cur = NoAction)
    /\ seen \in Row
    /\ handler \in [Action -> HandlerState]
    /\ jpc \in {"idle", "snapshot", "scan", "mark", "reap", "crash"}
    /\ jcur \in Action \cup {NoAction}
    /\ (jpc \in {"mark", "reap"}) = (jcur # NoAction)
    /\ jseen \subseteq Action /\ jdoomed \subseteq Action
    /\ jzombie \subseteq Action /\ jcrash \subseteq Action

Init ==
    /\ row = [a \in Action |-> "PENDING"]
    /\ artifacts = [a \in Action |-> "AWAITING_ACTION"]
    /\ key = [a \in Action |-> "none"]
    /\ job = [a \in Action |-> "wait"]
    /\ stalls = [a \in Action |-> 0]
    /\ box = [a \in Action |-> "none"]
    /\ boxGen = [a \in Action |-> 0]
    /\ exitCode = [a \in Action |-> "none"]
    /\ late = [a \in Action |-> FALSE]
    /\ removing = [a \in Action |-> FALSE]
    /\ up = TRUE /\ gen = 0 /\ crashes = 0 /\ inactive = {}
    /\ cur = NoAction /\ pc = "idle" /\ seen = "PENDING"
    /\ handler = [a \in Action |-> "none"]
    /\ jpc = "idle" /\ jcur = NoAction
    /\ jseen = {} /\ jdoomed = {} /\ jzombie = {} /\ jcrash = {}

(***************************************************************************)
(* repository.update({uuid}, {state}): no condition, nothing if no row.    *)
(***************************************************************************)
Update(a, s) ==
    row' = [row EXCEPT ![a] = IF @ = "DELETED" THEN @ ELSE s]

UpdateArtifacts(a, s) ==
    artifacts' = [artifacts EXCEPT ![a] = IF row[a] = "DELETED" THEN @ ELSE s]

\* Docker: SIGKILL ends a running container, an error otherwise is swallowed.
\* The remove request that follows is not awaited.
KillAndRemove(a) ==
    /\ box' = [box EXCEPT ![a] = IF @ = "running" THEN "exited" ELSE @]
    /\ exitCode' = [exitCode EXCEPT
                       ![a] = IF box[a] = "running" THEN "killed" ELSE @]
    /\ removing' = [removing EXCEPT ![a] = box[a] \in {"created", "running", "exited"}]
    /\ UNCHANGED <<boxGen, late>>

-----------------------------------------------------------------------------
(***************************************************************************)
(* The execution of one job.                                               *)
(***************************************************************************)
Goto(p) == pc' = p /\ UNCHANGED <<cur, seen>>

\* Bull hands a waiting job to the consumer (concurrency 1); the entity is
\* read once, here.
Take(a) ==
    /\ up /\ pc = "idle" /\ job[a] = "wait"
    /\ job' = [job EXCEPT ![a] = "active"]
    /\ cur' = a
    /\ seen' = row[a]
    /\ pc' = IF row[a] = "DELETED" THEN "throw" ELSE "check"
    /\ UNCHANGED <<dbVars, stalls, boxVars, procVars, handler, janitorVars>>

\* Mutant of Check: the state guard is dropped.
CheckUnguarded ==
    /\ pc = "check"
    /\ Update(cur, "STARTING")
    /\ Goto("key")
    /\ UNCHANGED <<artifacts, key, queueVars, boxVars, procVars, handler,
                   janitorVars>>

\* The state guard looks at the entity read by Take, the update that follows
\* is unconditional.
Check ==
    /\ pc = "check"
    /\ \/ /\ seen = "PENDING"
          /\ Update(cur, "STARTING")
          /\ Goto("key")
       \/ /\ seen # "PENDING"
          /\ Goto("throw")
          /\ UNCHANGED row
    /\ UNCHANGED <<artifacts, key, queueVars, boxVars, procVars, handler,
                   janitorVars>>

\* createAPIkey stands before the try block: its failure goes straight to Bull.
CreateKey ==
    /\ pc = "key"
    /\ \/ /\ key' = [key EXCEPT ![cur] = "live"]
          /\ Goto("image")
       \/ /\ Faults
          /\ Goto("throw")
          /\ UNCHANGED key
    /\ UNCHANGED <<row, artifacts, queueVars, boxVars, procVars, handler,
                   janitorVars>>

\* The image is there; the onProcessing callback runs before createContainer.
OnProcessing ==
    /\ pc = "image"
    /\ Update(cur, "PROCESSING")
    /\ Goto("create")
    /\ UNCHANGED <<artifacts, key, queueVars, boxVars, procVars, handler,
                   janitorVars>>

CreateContainer ==
    /\ pc = "create"
    /\ box' = [box EXCEPT ![cur] = "created"]
    /\ boxGen' = [boxGen EXCEPT ![cur] = gen]
    /\ exitCode' = [exitCode EXCEPT ![cur] = "none"]
    /\ late' = [late EXCEPT ![cur] = FALSE]
    /\ removing' = [removing EXCEPT ![cur] = FALSE]
    /\ Goto("launch")
    /\ UNCHANGED <<dbVars, queueVars, procVars, handler, janitorVars>>

StartContainer ==
    /\ pc = "launch" /\ box[cur] = "created"
    /\ box' = [box EXCEPT ![cur] = "running"]
    /\ Goto("info")
    /\ UNCHANGED <<dbVars, queueVars, boxGen, exitCode, late, removing,
                   procVars, handler, janitorVars>>

ContainerInfo ==
    /\ pc = "info" /\ box[cur] # "gone"
    /\ Goto("wait")
    /\ UNCHANGED <<dbVars, queueVars, boxVars, procVars, handler, janitorVars>>

\* Log ingestion and container.wait() return once the container has ended.
WaitReturns ==
    /\ pc = "wait" /\ box[cur] \in {"exited", "gone"}
    /\ Goto("stop")
    /\ UNCHANGED <<dbVars, queueVars, boxVars, procVars, handler, janitorVars>>

\* The row is read again, set to STOPPING, and the removal is requested.
Stop ==
    /\ pc = "stop" /\ row[cur] # "DELETED"
    /\ Update(cur, "STOPPING")
    /\ removing' = [removing EXCEPT ![cur] = box[cur] = "exited"]
    /\ Goto("inspect")
    /\ UNCHANGED <<artifacts, key, queueVars, box, boxGen, exitCode, late,
                   procVars, handler, janitorVars>>

\* setActionState: exit code 0 is DONE, everything else FAILED; the artifact
\* upload is announced right after.
SetActionState ==
    /\ pc = "inspect" /\ box[cur] # "gone"
    /\ Update(cur, IF exitCode[cur] = "zero" THEN "DONE" ELSE "FAILED")
    /\ UpdateArtifacts(cur, "UPLOADING")
    /\ Goto("upload")
    /\ UNCHANGED <<key, queueVars, boxVars, procVars, handler, janitorVars>>

UploadArtifacts ==
    /\ pc = "upload"
    /\ UpdateArtifacts(cur, "UPLOADED")
    /\ Goto("dispose")
    /\ UNCHANGED <<row, key, queueVars, boxVars, procVars, handler,
                   janitorVars>>

\* What an await of the try block finds missing: container or row.
NotFound ==
    \/ pc \in {"launch", "info", "wait", "inspect"} /\ box[cur] = "gone"
    \/ pc = "stop" /\ row[cur] = "DELETED"

TryThrows ==
    /\ pc \in TrySteps
    /\ Faults \/ NotFound
    /\ Goto("caught")
    /\ UNCHANGED <<dbVars, queueVars, boxVars, procVars, handler, janitorVars>>

\* Mutant of Catch: the failure is only logged.
CatchUnmarked ==
    /\ pc = "caught"
    /\ Goto("disposeErr")
    /\ UNCHANGED <<dbVars, queueVars, boxVars, procVars, handler, janitorVars>>

Catch ==
    /\ pc = "caught"
    /\ Update(cur, "FAILED")
    /\ Goto("disposeErr")
    /\ UNCHANGED <<artifacts, key, queueVars, boxVars, procVars, handler,
                   janitorVars>>

\* Mutant of DisposeKey: no finally, the error path forgets the key.
DisposeKeyOnSuccess ==
    /\ pc \in {"dispose", "disposeErr"}
    /\ key' = [key EXCEPT ![cur] = IF pc = "dispose" THEN "disposed" ELSE @]
    /\ Goto(IF pc = "dispose" THEN "complete" ELSE "throw")
    /\ UNCHANGED <<row, artifacts, queueVars, boxVars, procVars, handler,
                   janitorVars>>

\* The finally block.
DisposeKey ==
    /\ pc \in {"dispose", "disposeErr"}
    /\ key' = [key EXCEPT ![cur] = "disposed"]
    /\ Goto(IF pc = "dispose" THEN "complete" ELSE "throw")
    /\ UNCHANGED <<row, artifacts, queueVars, boxVars, procVars, handler,
                   janitorVars>>

RunEnds(j, h) ==
    /\ job' = [job EXCEPT ![cur] = j]
    /\ handler' = [handler EXCEPT ![cur] = h]
    /\ pc' = "idle" /\ cur' = NoAction
    /\ UNCHANGED <<seen, dbVars, stalls, boxVars, procVars, janitorVars>>

\* Bull drops a completed job (removeOnComplete) and delays a failed one.
Complete == pc = "complete" /\ RunEnds("none", "completed")
Throw    == pc = "throw" /\ RunEnds("delayed", "failed")

Execution ==
    \/ Check \/ CreateKey \/ OnProcessing \/ CreateContainer
    \/ StartContainer \/ ContainerInfo \/ WaitReturns \/ Stop
    \/ SetActionState \/ UploadArtifacts \/ TryThrows \/ Catch
    \/ DisposeKey \/ Complete \/ Throw

-----------------------------------------------------------------------------
(***************************************************************************)
(* The queue's event handlers: each reads the entity and saves it later.   *)
(* TypeORM's save writes the state it read or inserts the row again.       *)
(***************************************************************************)
Handle(a, from, to) ==
    /\ handler[a] = from
    /\ handler' = [handler EXCEPT ![a] = to]
    /\ UNCHANGED <<boxVars, procVars, runVars, janitorVars, key, stalls>>

\* Mutant of ReadCompleted: a completed job is DONE, whatever the row says.
ReadCompletedBlind(a) ==
    /\ row[a] # "DELETED"
    /\ Handle(a, "completed", "saveDone")
    /\ UNCHANGED <<row, artifacts, job>>

\* markJobAsCompleted: a FAILED action stays FAILED.
ReadCompleted(a) ==
    /\ row[a] # "DELETED"
    /\ Handle(a, "completed",
              IF row[a] = "FAILED" THEN "saveFailed" ELSE "saveDone")
    /\ UNCHANGED <<row, artifacts, job>>

SaveCompleted(a) ==
    /\ \/ Handle(a, "saveDone", "none") /\ row' = [row EXCEPT ![a] = "DONE"]
       \/ Handle(a, "saveFailed", "none") /\ row' = [row EXCEPT ![a] = "FAILED"]
    /\ UNCHANGED <<artifacts, job>>

\* handleUnexpectedError: remove the job, then read and save the entity.
RemoveJob(a) ==
    /\ Handle(a, "failed", "removed")
    /\ job' = [job EXCEPT ![a] = "none"]
    /\ UNCHANGED <<row, artifacts>>

ReadFailed(a) ==
    /\ Handle(a, "removed", IF row[a] = "DELETED" THEN "none" ELSE "saveError")
    /\ UNCHANGED <<row, artifacts, job>>

\* Mutant of SaveFailed: the state is not written.
SaveFailedArtifacts(a) ==
    /\ Handle(a, "saveError", "none")
    /\ artifacts' = [artifacts EXCEPT ![a] = "ERROR"]
    /\ UNCHANGED <<row, job>>

SaveFailed(a) ==
    /\ Handle(a, "saveError", "none")
    /\ row' = [row EXCEPT ![a] = "FAILED"]
    /\ artifacts' = [artifacts EXCEPT ![a] = "ERROR"]
    /\ UNCHANGED job

Handlers(a) ==
    ReadCompleted(a) \/ SaveCompleted(a) \/ RemoveJob(a) \/ ReadFailed(a)
        \/ SaveFailed(a)

-----------------------------------------------------------------------------
(***************************************************************************)
(* The Janitor.                                                            *)
(***************************************************************************)
Listed == {a \in Action : box[a] \in {"created", "running", "exited"}}

\* It gives up early when Docker lists no container at all.
JList ==
    /\ up /\ jpc = "idle"
    /\ Foreign \/ Listed # {}
    /\ jseen' = Listed
    /\ jpc' = "snapshot"
    /\ UNCHANGED <<dbVars, queueVars, boxVars, procVars, runVars, handler,
                   jcur, jdoomed, jzombie, jcrash>>

\* Mutant of JSnapshot: containers of inactive runners are not considered.
JSnapshotOwn ==
    /\ jpc = "snapshot"
    /\ jdoomed' = {a \in jseen : boxGen[a] = gen /\ late[a]}
    /\ jzombie' = {a \in jseen : /\ boxGen[a] = gen /\ ~late[a]
                                 /\ row[a] # "PROCESSING"}
    /\ jpc' = "scan"
    /\ UNCHANGED <<dbVars, queueVars, boxVars, procVars, runVars, handler,
                   jcur, jseen, jcrash>>

\* Mutant of JSnapshot: the expiry label is not compared with the clock.
JSnapshotUntimed ==
    /\ jpc = "snapshot"
    /\ jdoomed' = {a \in jseen : boxGen[a] = gen \/ boxGen[a] \in inactive}
    /\ jzombie' = {}
    /\ jpc' = "scan"
    /\ UNCHANGED <<dbVars, queueVars, boxVars, procVars, runVars, handler,
                   jcur, jseen, jcrash>>

\* The runners, the active actions and the clock are read; each listed
\* container falls into one case of the loop.
JSnapshot ==
    /\ jpc = "snapshot"
    /\ jdoomed' = {a \in jseen : \/ boxGen[a] = gen /\ late[a]
                                 \/ boxGen[a] # gen /\ boxGen[a] \in inactive}
    /\ jzombie' = {a \in jseen : /\ boxGen[a] = gen /\ ~late[a]
                                 /\ row[a] # "PROCESSING"}
    /\ jpc' = "scan"
    /\ UNCHANGED <<dbVars, queueVars, boxVars, procVars, runVars, handler,
                   jcur, jseen, jcrash>>

\* Timed out, or left by an inactive runner: killed, then marked.
JKill(a) ==
    /\ jpc = "scan" /\ a \in jdoomed
    /\ KillAndRemove(a)
    /\ jpc' = "mark" /\ jcur' = a /\ jdoomed' = jdoomed \ {a}
    /\ UNCHANGED <<dbVars, queueVars, procVars, runVars, handler, jseen,
                   jzombie, jcrash>>

JMark ==
    /\ jpc = "mark"
    /\ Update(jcur, "FAILED")
    /\ jpc' = "scan" /\ jcur' = NoAction
    /\ UNCHANGED <<artifacts, key, queueVars, boxVars, procVars, runVars,
                   handler, jseen, jdoomed, jzombie, jcrash>>

\* Not active in the snapshot: marked if it is not active now, killed if
\* the update hit a row.
JZombie(a) ==
    /\ jpc = "scan" /\ a \in jzombie
    /\ jzombie' = jzombie \ {a}
    /\ IF row[a] \in {"PROCESSING", "STARTING", "DELETED"}
       THEN UNCHANGED <<row, jpc, jcur>>
       ELSE /\ Update(a, "FAILED")
            /\ jpc' = "reap" /\ jcur' = a
    /\ UNCHANGED <<artifacts, key, queueVars, boxVars, procVars, runVars,
                   handler, jseen, jdoomed, jcrash>>

\* Mutant of JReap: the container just handled is not forgotten.
JReapKeeps ==
    /\ jpc = "reap"
    /\ KillAndRemove(jcur)
    /\ jpc' = "scan" /\ UNCHANGED jcur
    /\ UNCHANGED <<dbVars, queueVars, procVars, runVars, handler, jseen,
                   jdoomed, jzombie, jcrash>>

JReap ==
    /\ jpc = "reap"
    /\ KillAndRemove(jcur)
    /\ jpc' = "scan" /\ jcur' = NoAction
    /\ UNCHANGED <<dbVars, queueVars, procVars, runVars, handler, jseen,
                   jdoomed, jzombie, jcrash>>

\* Crash detection: PROCESSING actions of this host without a listed container.
JCrashScan ==
    /\ jpc = "scan" /\ jdoomed = {} /\ jzombie = {}
    /\ jcrash' = {a \in Action : row[a] = "PROCESSING"} \ jseen
    /\ jpc' = "crash"
    /\ UNCHANGED <<dbVars, queueVars, boxVars, procVars, runVars, handler,
                   jcur, jseen, jdoomed, jzombie>>

JCrashMark(a) ==
    /\ jpc = "crash" /\ a \in jcrash
    /\ Update(a, "FAILED")
    /\ jcrash' = jcrash \ {a}
    /\ UNCHANGED <<artifacts, key, queueVars, boxVars, procVars, runVars,
                   handler, jpc, jcur, jseen, jdoomed, jzombie>>

JEnd ==
    /\ jpc = "crash" /\ jcrash = {}
    /\ jpc' = "idle" /\ jseen' = {}
    /\ UNCHANGED <<dbVars, queueVars, boxVars, procVars, runVars, handler,
                   jcur, jdoomed, jzombie, jcrash>>

Janitor ==
    \/ JList \/ JSnapshot \/ JMark \/ JReap \/ JCrashScan \/ JEnd
    \/ \E a \in Action : JKill(a) \/ JZombie(a) \/ JCrashMark(a)

-----------------------------------------------------------------------------
(***************************************************************************)
(* The environment: containers, Docker, time, users, crashes.              *)
(***************************************************************************)
ContainerExits(a) ==
    /\ box[a] = "running"
    /\ box' = [box EXCEPT ![a] = "exited"]
    /\ \E c \in {"zero", "nonzero"} : exitCode' = [exitCode EXCEPT ![a] = c]
    /\ UNCHANGED <<dbVars, queueVars, boxGen, late, removing, procVars,
                   runVars, handler, janitorVars>>

\* Docker carries out a remove request, unless the container runs.
Removed(a) ==
    /\ removing[a]
    /\ box' = [box EXCEPT ![a] = IF @ = "running" THEN @ ELSE "gone"]
    /\ removing' = [removing EXCEPT ![a] = FALSE]
    /\ UNCHANGED <<dbVars, queueVars, boxGen, exitCode, late, procVars,
                   runVars, handler, janitorVars>>

\* The maximal runtime written on the container is over.
Expire(a) ==
    /\ a \in Listed /\ ~late[a]
    /\ late' = [late EXCEPT ![a] = TRUE]
    /\ UNCHANGED <<dbVars, queueVars, box, boxGen, exitCode, removing,
                   procVars, runVars, handler, janitorVars>>

\* A user deletes a settled action; the row is removed for good.
Delete(a) ==
    /\ row[a] \in {"DONE", "FAILED"}
    /\ row' = [row EXCEPT ![a] = "DELETED"]
    /\ UNCHANGED <<artifacts, key, queueVars, boxVars, procVars, runVars,
                   handler, janitorVars>>

\* Everything in the memory of the process is lost, nothing else is.
Die ==
    /\ up' = FALSE
    /\ key' = [a \in Action |-> IF key[a] = "live" THEN "orphaned" ELSE key[a]]
    /\ cur' = NoAction /\ pc' = "idle" /\ seen' = "PENDING"
    /\ handler' = [a \in Action |-> "none"]
    /\ jpc' = "idle" /\ jcur' = NoAction
    /\ jseen' = {} /\ jdoomed' = {} /\ jzombie' = {} /\ jcrash' = {}
    /\ UNCHANGED <<row, artifacts, queueVars, boxVars, gen, inactive>>

Crash ==
    /\ up /\ crashes < MaxCrashes
    /\ crashes' = crashes + 1
    /\ Die

\* markJobAsCompleted does not find a deleted action: the rejection of the
\* event handler is not handled, which ends a Node.js process.
CompletedMissing(a) ==
    /\ handler[a] = "completed" /\ row[a] = "DELETED"
    /\ Die
    /\ UNCHANGED crashes

\* A new process registers a new runner row.
Restart ==
    /\ ~up
    /\ up' = TRUE /\ gen' = gen + 1
    /\ UNCHANGED <<crashes, inactive, dbVars, queueVars, boxVars, runVars,
                   handler, janitorVars>>

\* Five minutes without a heartbeat of an earlier process.
GoInactive(g) ==
    /\ g # gen /\ g \notin inactive
    /\ inactive' = inactive \cup {g}
    /\ UNCHANGED <<up, gen, crashes, dbVars, queueVars, boxVars, runVars,
                   handler, janitorVars>>

\* Bull finds an active job without a lock: back to wait, once; then failed.
Stalled(a) ==
    /\ up /\ job[a] = "active" /\ cur # a
    /\ \/ /\ stalls[a] = 0
          /\ stalls' = [stalls EXCEPT ![a] = 1]
          /\ job' = [job EXCEPT ![a] = "wait"]
          /\ UNCHANGED handler
       \/ /\ stalls[a] = 1
          /\ job' = [job EXCEPT ![a] = "failed"]
          /\ handler' = [handler EXCEPT ![a] = "failed"]
          /\ UNCHANGED stalls
    /\ UNCHANGED <<dbVars, boxVars, procVars, runVars, janitorVars>>

\* The back-off of a failed job is over.  Its failure handler takes less than
\* the 60 s of the back-off unless the process died before it ran.
Promote(a) ==
    /\ up /\ job[a] = "delayed" /\ handler[a] = "none"
    /\ job' = [job EXCEPT ![a] = "wait"]
    /\ UNCHANGED <<dbVars, stalls, boxVars, procVars, runVars, handler,
                   janitorVars>>

-----------------------------------------------------------------------------
Bull(a)  == Take(a) \/ Stalled(a) \/ Promote(a)
World(a) == ContainerExits(a) \/ Removed(a) \/ Expire(a) \/ Delete(a)

Process ==
    \/ Crash \/ Restart
    \/ \E a \in Action : CompletedMissing(a)
    \/ \E g \in 0 .. gen : GoInactive(g)

Next ==
    \/ Execution
    \/ Janitor
    \/ Process
    \/ \E a \in Action : Handlers(a) \/ Bull(a) \/ World(a)

Spec == Init /\ [][Next]_vars

(***************************************************************************)
(* Fairness: the event loop of a live process runs what is ready, crons    *)
(* fire, somebody restarts a dead process, Docker answers and time         *)
(* passes.  Containers need not end, users and faults need not happen.     *)
(***************************************************************************)
Progress ==
    \/ Check \/ CreateKey \/ OnProcessing \/ CreateContainer
    \/ StartContainer \/ ContainerInfo \/ WaitReturns \/ Stop
    \/ SetActionState \/ UploadArtifacts \/ (NotFound /\ TryThrows)
    \/ Catch \/ DisposeKey \/ Complete \/ Throw

Fairness ==
    /\ WF_vars(Progress)
    /\ WF_vars(Janitor)
    /\ WF_vars(Restart)
    /\ WF_vars(\E g \in 0 .. gen : GoInactive(g))
    /\ WF_vars(\E a \in Action : Take(a))
    /\ \A a \in Action :
          /\ WF_vars(Handlers(a) \/ CompletedMissing(a))
          /\ WF_vars(Removed(a))
          /\ WF_vars(Expire(a))
          /\ WF_vars(Stalled(a))
          /\ WF_vars(Promote(a))

FairSpec == Spec /\ Fairness

-----------------------------------------------------------------------------
(***************************************************************************)
(* Safety.                                                                 *)
(***************************************************************************)
\* An action is DONE only if its container ended by itself with exit code 0:
\* whatever the Janitor, the two handlers and a restarted process write.
DoneMeansExitZero == \A a \in Action : row[a] = "DONE" => exitCode[a] = "zero"

\* A live API key belongs to the action in execution (createAPIkey and the
\* finally block), or its process died holding it.
KeyScoped ==
    \A a \in Action : key[a] = "live" => cur = a /\ pc \in KeySteps

\* No action gets a second container: not when its job stalls after a crash,
\* is retried by Bull, or is taken by the next process.
StartsOnce == pc \in {"key", "image", "create"} => box[cur] = "none"

\* A running container of the live process that nobody waits for belongs to
\* an action that is FAILED or deleted: the only rows the Janitor reaps.
ZombieIsMarked ==
    \A a \in Action :
        up /\ box[a] = "running" /\ boxGen[a] = gen =>
            cur = a \/ row[a] \in {"FAILED", "DELETED"}

\* The Janitor kills an unexpired container of its own process only when the
\* action is already FAILED or deleted, never under a PROCESSING one.
KillJustified ==
    [][\A a \in Action :
          /\ box[a] = "running" /\ exitCode'[a] = "killed"
          /\ boxGen[a] = gen /\ ~late[a]
          => row[a] \in {"FAILED", "DELETED"}]_vars

(***************************************************************************)
(* Liveness.                                                               *)
(***************************************************************************)
Quiet(a) == job[a] = "none" /\ handler[a] = "none" /\ cur # a

\* Every queued action ends: its row is DONE or FAILED (or was deleted) and
\* no job, handler or execution of it is left.
Settles ==
    \A a \in Action :
        (job[a] = "wait") ~>
            (Quiet(a) /\ row[a] \in {"DONE", "FAILED", "DELETED"})

\* A running container that no live execution waits for is stopped.
ZombieReaped ==
    \A a \in Action :
        (box[a] = "running" /\ cur # a) ~> (box[a] # "running")

(***************************************************************************)
(* The contract that the host keeps: what ActionContract says of verdicts, *)
(* of runs and of keys.                                                    *)
(***************************************************************************)
VerdictOf(r) ==
    CASE r = "DONE"    -> "done"
      [] r = "FAILED"  -> "failed"
      [] r = "DELETED" -> "deleted"
      [] OTHER         -> "open"

OutcomeOf(b, e) ==
    CASE b = "running"              -> "live"
      [] b # "running" /\ e = "zero" -> "zero"
      [] b # "running" /\ e \in {"nonzero", "killed"} -> "bad"
      [] OTHER                      -> "none"

KeyOf(k) ==
    CASE k = "none"     -> "none"
      [] k = "live"     -> "held"
      [] k = "disposed" -> "dropped"
      [] OTHER          -> "leaked"

Verdict == [a \in Action |-> VerdictOf(row[a])]
Outcome == [a \in Action |-> OutcomeOf(box[a], exitCode[a])]
Key     == [a \in Action |-> KeyOf(key[a])]

Contract == INSTANCE ActionContract
                WITH verdict <- Verdict, outcome <- Outcome, key <- Key

\* Whatever the execution, the handlers, the Janitor and crashes do to an
\* action, in any order, is a step of the contract or none at all.
KeepsContract == Contract!Spec
=============================================================================
