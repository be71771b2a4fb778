--------------------------- MODULE ActionDispatch ---------------------------
(***************************************************************************)
(* Scheduling of actions over the workers: ActionDispatcherService         *)
(* (dispatch and the healthCheck cron) with findWorkerForAction and        *)
(* addActionQueue of scheduling-logic.ts, the Bull queue of every worker,  *)
(* the worker table, and of each queueConsumer as much as the scheduling   *)
(* sees: registration, heartbeat, taking a job, the state guard, the end   *)
(* of the execution (ActionRunner refines these), crash and restart.       *)
(*                                                                         *)
(* healthCheck runs by cron in every process that imports                  *)
(* ActionDispatcherModule, and once more inside a dispatch whose first     *)
(* attempt was refused.  Nothing serialises these invocations.  What the   *)
(* workers promise together is stated in ActionSchedule.                   *)
(***************************************************************************)
EXTENDS Naturals, FiniteSets

CONSTANTS
    Action, Worker,
    Process,     \* the processes whose healthCheck cron is modelled
    Backend,     \* the one that dispatches
    NoAction, NoWorker,
    MaxCrashes,  \* bound: workers that crash (each once)
    Lapses,      \* a live worker may miss its heartbeats for five minutes
    Overlap      \* healthChecks may overlap, as nothing in the code prevents

ASSUME DispatchAssumption ==
    /\ Backend \in Process
    /\ Process \cap Action = {}
    /\ NoAction \notin Action /\ NoWorker \notin Worker
    /\ MaxCrashes \in Nat
    /\ Lapses \in BOOLEAN /\ Overlap \in BOOLEAN

VARIABLES
    \* the database
    row,        \* action.state
    owner,      \* action.worker
    reachable,  \* workers with reachable = true
    stale,      \* workers whose lastSeen is more than 5 minutes ago
    \* Redis
    queue,      \* the jobs of action-queue-<worker>
    \* the dispatcher
    known,      \* the keys of actionQueues, per process
    dpc, dto,   \* a dispatch: where it is, the worker it selected
    hpc,        \* an invocation of healthCheck: where it is
    retiring,   \* ... and how far it is with each worker that timed out
    requeue,    \* ... and the jobs it is moving
    \* the workers
    up, crashed, run, step, seen

dispatchVars == <<dpc, dto>>
checkVars    == <<hpc, retiring, requeue>>
workerVars   == <<up, crashed, run, step, seen>>

vars == <<row, owner, reachable, stale, queue, known, dpc, dto, hpc, retiring,
          requeue, up, crashed, run, step, seen>>

\* One healthCheck at a time per cron, one per dispatch.
Check   == Process \cup Action
Home(c) == IF c \in Process THEN c ELSE Backend

Row      == {"none", "PENDING", "STARTING", "DONE", "FAILED", "UNPROCESSABLE"}
Settled  == {"DONE", "FAILED", "UNPROCESSABLE"}
JobState == {"none", "wait", "active"}
Move     == [check : Check, from : Worker, action : Action,
             pc : {"remove", "select", "add"}, to : Worker \cup {NoWorker}]

TypeOK ==
    /\ row \in [Action -> Row]
    /\ owner \in [Action -> Worker \cup {NoWorker}]
    /\ reachable \subseteq Worker /\ stale \subseteq Worker
    /\ queue \in [Worker -> [Action -> JobState]]
    /\ known \in [Process -> SUBSET Worker]
    /\ dpc \in [Action -> {"new", "select", "add", "check", "reselect",
                           "readd", "reject", "accepted", "rejected"}]
    /\ dto \in [Action -> Worker \cup {NoWorker}]
    /\ hpc \in [Check -> {"idle", "retire"}]
    /\ retiring \in [Check -> [Worker -> {"none", "save", "list", "jobs"}]]
    /\ requeue \subseteq Move
    /\ up \subseteq Worker /\ crashed \subseteq Worker
    /\ run \in [Worker -> Action \cup {NoAction}]
    /\ step \in [Worker -> {"idle", "took", "running"}]
    /\ seen \in [Worker -> Row]
    /\ \A w \in Worker : (step[w] = "idle") = (run[w] = NoAction)

Init ==
    /\ row = [a \in Action |-> "none"]
    /\ owner = [a \in Action |-> NoWorker]
    /\ reachable = {} /\ stale = {}
    /\ queue = [w \in Worker |-> [a \in Action |-> "none"]]
    /\ known = [p \in Process |-> {}]
    /\ dpc = [a \in Action |-> "new"] /\ dto = [a \in Action |-> NoWorker]
    /\ hpc = [c \in Check |-> "idle"]
    /\ retiring = [c \in Check |-> [w \in Worker |-> "none"]]
    /\ requeue = {}
    /\ up = {} /\ crashed = {}
    /\ run = [w \in Worker |-> NoAction]
    /\ step = [w \in Worker |-> "idle"]
    /\ seen = [w \in Worker |-> "none"]

-----------------------------------------------------------------------------
(***************************************************************************)
(* addActionQueue.                                                         *)
(***************************************************************************)
Count(w) == Cardinality({a \in Action : queue[w][a] = "wait"})

\* findWorkerForAction: a reachable worker whose queue this process knows,
\* one with the fewest waiting jobs.
Candidates(p) == reachable \cap known[p]
LeastLoaded(p) ==
    {w \in Candidates(p) : \A v \in Candidates(p) : Count(w) \leq Count(v)}

\* Bull ignores a job whose id the queue already holds.  A queue that was
\* forgotten since it was selected makes the add throw: swallowed, no job.
AddJob(p, w, a) ==
    queue' = IF w \in known[p]
             THEN [queue EXCEPT ![w][a] = IF @ = "none" THEN "wait" ELSE @]
             ELSE queue

-----------------------------------------------------------------------------
(***************************************************************************)
(* dispatch.                                                               *)
(***************************************************************************)
DispatchAt(a, from, to) ==
    /\ dpc[a] = from
    /\ dpc' = [dpc EXCEPT ![a] = to]
    /\ UNCHANGED <<reachable, stale, known, checkVars, workerVars>>

Create(a) ==
    /\ DispatchAt(a, "new", "select")
    /\ row' = [row EXCEPT ![a] = "PENDING"]
    /\ UNCHANGED <<owner, queue, dto>>

Selected(a, from, to) ==
    /\ DispatchAt(a, from, to)
    /\ \E w \in LeastLoaded(Backend) :
          /\ dto' = [dto EXCEPT ![a] = w]
          /\ owner' = [owner EXCEPT ![a] = w]
    /\ UNCHANGED <<row, queue>>

\* No worker: addActionQueue itself saves the action as UNPROCESSABLE.
NoneSelected(a, from, to) ==
    /\ DispatchAt(a, from, to)
    /\ Candidates(Backend) = {}
    /\ row' = [row EXCEPT ![a] = "UNPROCESSABLE"]
    /\ UNCHANGED <<owner, queue, dto>>

Select(a) ==
    \/ Selected(a, "select", "add")     \/ NoneSelected(a, "select", "check")
    \/ Selected(a, "reselect", "readd") \/ NoneSelected(a, "reselect", "reject")

Added(a, from, refused) ==
    /\ DispatchAt(a, from, IF dto[a] \in known[Backend]
                           THEN "accepted" ELSE refused)
    /\ AddJob(Backend, dto[a], a)
    /\ UNCHANGED <<row, owner, dto>>

Add(a) == Added(a, "add", "check") \/ Added(a, "readd", "reject")

Reject(a) ==
    /\ DispatchAt(a, "reject", "rejected")
    /\ row' = [row EXCEPT ![a] = "UNPROCESSABLE"]
    /\ UNCHANGED <<owner, queue, dto>>

Dispatch(a) == Create(a) \/ Select(a) \/ Add(a) \/ Reject(a)

-----------------------------------------------------------------------------
(***************************************************************************)
(* healthCheck.                                                            *)
(***************************************************************************)
\* The workers that timed out are read once; their treatment is concurrent.
FindTimedOut(c) ==
    /\ hpc[c] = "idle" /\ (c \in Action => dpc[c] = "check")
    /\ Overlap \/ \A d \in Check : hpc[d] = "idle"
    /\ hpc' = [hpc EXCEPT ![c] = "retire"]
    /\ retiring' = [retiring EXCEPT ![c] =
          [w \in Worker |-> IF w \in reachable \cap stale THEN "save" ELSE "none"]]
    /\ UNCHANGED <<row, owner, reachable, stale, queue, known, dispatchVars,
                   requeue, workerVars>>

\* save(worker) also writes back the old lastSeen.
Retire(c, w) ==
    /\ retiring[c][w] = "save"
    /\ reachable' = reachable \ {w}
    /\ stale' = stale \cup {w}
    /\ retiring' = [retiring EXCEPT
          ![c][w] = IF w \in known[Home(c)] THEN "list" ELSE "none"]
    /\ UNCHANGED <<row, owner, queue, known, dispatchVars, hpc, requeue,
                   workerVars>>

ListJobs(c, w) ==
    /\ retiring[c][w] = "list"
    /\ retiring' = [retiring EXCEPT ![c][w] = "jobs"]
    /\ requeue' = requeue \cup
          {[check |-> c, from |-> w, action |-> a, pc |-> "remove",
            to |-> NoWorker] : a \in {b \in Action : queue[w][b] # "none"}}
    /\ UNCHANGED <<row, owner, reachable, stale, queue, known, dispatchVars,
                   hpc, workerVars>>

\* Each job m of a retired worker is removed and added elsewhere.
Moves(m, next) ==
    /\ requeue' = (requeue \ {m}) \cup next
    /\ UNCHANGED <<reachable, stale, known, dispatchVars, hpc, retiring,
                   workerVars>>

\* Mutant of RemoveJob: the job is added elsewhere, not moved.
CopyJob(m) ==
    /\ m.pc = "remove"
    /\ Moves(m, {[m EXCEPT !.pc = "select"]})
    /\ UNCHANGED <<row, owner, queue>>

\* Mutant of RemoveJob: a locked job is removed too.
RemoveLockedJob(m) ==
    /\ m.pc = "remove"
    /\ Moves(m, {[m EXCEPT !.pc = "select"]})
    /\ queue' = [queue EXCEPT ![m.from][m.action] = "none"]
    /\ UNCHANGED <<row, owner>>

\* Bull removes a job that is gone without complaint, not one that is locked.
RemoveJob(m) ==
    /\ m.pc = "remove"
    /\ IF m.from \in up /\ run[m.from] = m.action
       THEN Moves(m, {}) /\ UNCHANGED queue
       ELSE /\ Moves(m, {[m EXCEPT !.pc = "select"]})
            /\ queue' = [queue EXCEPT ![m.from][m.action] = "none"]
    /\ UNCHANGED <<row, owner>>

Reselect(m) ==
    /\ m.pc = "select"
    /\ \/ \E w \in LeastLoaded(Home(m.check)) :
             /\ Moves(m, {[m EXCEPT !.pc = "add", !.to = w]})
             /\ owner' = [owner EXCEPT ![m.action] = w]
             /\ UNCHANGED row
       \/ /\ Candidates(Home(m.check)) = {}
          /\ Moves(m, {})
          /\ row' = [row EXCEPT ![m.action] = "UNPROCESSABLE"]
          /\ UNCHANGED owner
    /\ UNCHANGED queue

\* Mutant of Readd: the add of a moved job is dropped.
ReaddNothing(m) ==
    /\ m.pc = "add"
    /\ Moves(m, {})
    /\ UNCHANGED <<row, owner, queue>>

\* The result of addActionQueue is not looked at.
Readd(m) ==
    /\ m.pc = "add"
    /\ Moves(m, {})
    /\ AddJob(Home(m.check), m.to, m.action)
    /\ UNCHANGED <<row, owner>>

Forget(c, w) ==
    /\ retiring[c][w] = "jobs"
    /\ \A m \in requeue : ~(m.check = c /\ m.from = w)
    /\ retiring' = [retiring EXCEPT ![c][w] = "none"]
    /\ known' = [known EXCEPT ![Home(c)] = @ \ {w}]
    /\ UNCHANGED <<row, owner, reachable, stale, queue, dispatchVars, hpc,
                   requeue, workerVars>>

\* Queues of the reachable workers; a dispatch goes on to its second attempt.
Refresh(c) ==
    /\ hpc[c] = "retire"
    /\ \A w \in Worker : retiring[c][w] = "none"
    /\ known' = [known EXCEPT ![Home(c)] = @ \cup reachable]
    /\ hpc' = [hpc EXCEPT ![c] = "idle"]
    /\ dpc' = IF c \in Action THEN [dpc EXCEPT ![c] = "reselect"] ELSE dpc
    /\ UNCHANGED <<row, owner, reachable, stale, queue, dto, retiring,
                   requeue, workerVars>>

HealthCheck(c) ==
    \/ FindTimedOut(c) \/ Refresh(c)
    \/ \E w \in Worker : Retire(c, w) \/ ListJobs(c, w) \/ Forget(c, w)
    \/ \E m \in {n \in requeue : n.check = c} :
          RemoveJob(m) \/ Reselect(m) \/ Readd(m)

-----------------------------------------------------------------------------
(***************************************************************************)
(* A worker.                                                               *)
(***************************************************************************)
\* onModuleInit: the worker row is created or made reachable again.
Start(w) ==
    /\ w \notin up
    /\ up' = up \cup {w}
    /\ reachable' = reachable \cup {w} /\ stale' = stale \ {w}
    /\ UNCHANGED <<row, owner, queue, known, dispatchVars, checkVars, crashed,
                   run, step, seen>>

Heartbeat(w) ==
    /\ w \in up
    /\ w \notin reachable \/ w \in stale
    /\ reachable' = reachable \cup {w} /\ stale' = stale \ {w}
    /\ UNCHANGED <<row, owner, queue, known, dispatchVars, checkVars,
                   workerVars>>

\* Five minutes without a heartbeat.
Lapse(w) ==
    /\ w \in reachable \ stale
    /\ w \notin up \/ Lapses
    /\ stale' = stale \cup {w}
    /\ UNCHANGED <<row, owner, reachable, queue, known, dispatchVars,
                   checkVars, workerVars>>

\* Once per worker, so that no job stalls twice (Bull would fail it then).
Crash(w) ==
    /\ w \in up \ crashed /\ Cardinality(crashed) < MaxCrashes
    /\ up' = up \ {w} /\ crashed' = crashed \cup {w}
    /\ run' = [run EXCEPT ![w] = NoAction]
    /\ step' = [step EXCEPT ![w] = "idle"]
    /\ seen' = [seen EXCEPT ![w] = "none"]
    /\ UNCHANGED <<row, owner, reachable, stale, queue, known, dispatchVars,
                   checkVars>>

WorkerStep(w) ==
    UNCHANGED <<reachable, stale, known, dispatchVars, checkVars, up, crashed>>

\* Bull returns an active job without a lock to the waiting ones.
Stalled(w, a) ==
    /\ w \in up /\ queue[w][a] = "active" /\ run[w] # a
    /\ queue' = [queue EXCEPT ![w][a] = "wait"]
    /\ WorkerStep(w)
    /\ UNCHANGED <<row, owner, run, step, seen>>

Take(w, a) ==
    /\ w \in up /\ step[w] = "idle" /\ queue[w][a] = "wait"
    /\ queue' = [queue EXCEPT ![w][a] = "active"]
    /\ run' = [run EXCEPT ![w] = a]
    /\ step' = [step EXCEPT ![w] = "took"]
    /\ seen' = [seen EXCEPT ![w] = row[a]]
    /\ WorkerStep(w)
    /\ UNCHANGED <<row, owner>>

\* Mutant of Begin: the state guard is dropped.
BeginUnguarded(w) ==
    /\ step[w] = "took"
    /\ owner' = [owner EXCEPT ![run[w]] = w]
    /\ row' = [row EXCEPT ![run[w]] = "STARTING"]
    /\ step' = [step EXCEPT ![w] = "running"]
    /\ WorkerStep(w)
    /\ UNCHANGED <<queue, run, seen>>

\* The guard looks at the entity read by Take; the worker column is corrected
\* before it.
Begin(w) ==
    /\ step[w] = "took" /\ seen[w] = "PENDING"
    /\ owner' = [owner EXCEPT ![run[w]] = w]
    /\ row' = [row EXCEPT ![run[w]] = "STARTING"]
    /\ step' = [step EXCEPT ![w] = "running"]
    /\ WorkerStep(w)
    /\ UNCHANGED <<queue, run, seen>>

\* Mutant of Ends: the runner is not freed.
EndsBusy(w, outcomes) ==
    /\ \E s \in outcomes : row' = [row EXCEPT ![run[w]] = s]
    /\ queue' = [queue EXCEPT ![w][run[w]] = "none"]
    /\ step' = [step EXCEPT ![w] = "idle"]
    /\ seen' = [seen EXCEPT ![w] = "none"]
    /\ WorkerStep(w)
    /\ UNCHANGED run

Ends(w, outcomes) ==
    /\ \E s \in outcomes : row' = [row EXCEPT ![run[w]] = s]
    /\ queue' = [queue EXCEPT ![w][run[w]] = "none"]
    /\ run' = [run EXCEPT ![w] = NoAction]
    /\ step' = [step EXCEPT ![w] = "idle"]
    /\ seen' = [seen EXCEPT ![w] = "none"]
    /\ WorkerStep(w)

\* Mutant of Refuse: the failed job is not dropped and is taken again.
RefuseKeepsJob(w) ==
    /\ step[w] = "took" /\ seen[w] # "PENDING"
    /\ row' = [row EXCEPT ![run[w]] = "FAILED"]
    /\ owner' = [owner EXCEPT ![run[w]] = w]
    /\ run' = [run EXCEPT ![w] = NoAction]
    /\ step' = [step EXCEPT ![w] = "idle"]
    /\ seen' = [seen EXCEPT ![w] = "none"]
    /\ WorkerStep(w)
    /\ UNCHANGED queue

\* The failure handler drops the job and saves FAILED.
Refuse(w) ==
    /\ step[w] = "took" /\ seen[w] # "PENDING"
    /\ owner' = [owner EXCEPT ![run[w]] = w]
    /\ Ends(w, {"FAILED"})

Finish(w) ==
    /\ step[w] = "running"
    /\ Ends(w, {"DONE", "FAILED"})
    /\ UNCHANGED owner

Consume(w) ==
    \/ Begin(w) \/ Refuse(w) \/ Finish(w)
    \/ \E a \in Action : Stalled(w, a) \/ Take(w, a)

-----------------------------------------------------------------------------
Next ==
    \/ \E a \in Action : Dispatch(a)
    \/ \E c \in Check : HealthCheck(c)
    \/ \E w \in Worker :
          Start(w) \/ Heartbeat(w) \/ Lapse(w) \/ Crash(w) \/ Consume(w)

Spec == Init /\ [][Next]_vars

(***************************************************************************)
(* Fairness: crons fire and answers arrive, a worker beats every minute    *)
(* and works off its queue, and somebody starts it again after a crash.     *)
(***************************************************************************)
Fairness ==
    /\ \A a \in Action : WF_vars(Dispatch(a) /\ ~Create(a))
    /\ \A c \in Check : WF_vars(HealthCheck(c))
    /\ \A w \in Worker :
          /\ WF_vars(Start(w)) /\ WF_vars(Heartbeat(w)) /\ WF_vars(Consume(w))

FairSpec == Spec /\ Fairness

-----------------------------------------------------------------------------
(***************************************************************************)
(* Safety.                                                                 *)
(***************************************************************************)
\* The jobs of an action never sit in two queues: moving it off a worker that
\* timed out removes it there first (Bull's jobId only guards one queue).
JobInOneQueue ==
    \A a \in Action : \A v, w \in Worker :
        queue[v][a] # "none" /\ queue[w][a] # "none" => v = w

\* At most one worker runs an action.
NoDoubleRun ==
    \A v, w \in Worker :
        step[v] = "running" /\ step[w] = "running" /\ run[v] = run[w] => v = w

\* An action that is still PENDING after its dispatch was accepted has a job,
\* or a healthCheck holds it between remove and add.
NoLostAction ==
    \A a \in Action :
        row[a] = "PENDING" /\ dpc[a] = "accepted" =>
            \/ \E w \in Worker : queue[w][a] # "none"
            \/ \E m \in requeue : m.action = a

\* A running action is attributed to the worker that runs it: the Janitor of
\* that host looks for its container by this column.
OwnerRuns ==
    \A w \in Worker : step[w] = "running" => owner[run[w]] = w

\* The state guard of processAction looks at an entity read before; what it
\* overwrites with STARTING still is PENDING.
StartsFromPending ==
    [][\A w \in Worker :
          step[w] = "took" /\ step'[w] = "running"
          => row[run[w]] = "PENDING"]_vars

(***************************************************************************)
(* Liveness.                                                               *)
(***************************************************************************)
\* Every dispatch is answered, and an accepted action ends.
Answered ==
    \A a \in Action :
        (dpc[a] = "select") ~>
            \/ dpc[a] = "rejected"
            \/ /\ dpc[a] = "accepted" /\ row[a] \in Settled
               /\ \A w \in Worker : queue[w][a] = "none"

(***************************************************************************)
(* The promise of all workers together: what ActionSchedule says of the    *)
(* states of the actions and of the workers that run them.                 *)
(***************************************************************************)
StatusOf(r) ==
    CASE r = "none"     -> "new"
      [] r = "PENDING"  -> "pending"
      [] r = "STARTING" -> "started"
      [] r = "DONE"     -> "done"
      [] OTHER          -> "failed"

Running(w, a) == step[w] = "running" /\ run[w] = a

Status == [a \in Action |-> StatusOf(row[a])]
Hosts  == [a \in Action |-> {w \in Worker : Running(w, a)}]

Schedule == INSTANCE ActionSchedule WITH status <- Status, hosts <- Hosts

\* Whatever dispatches, healthChecks, workers and crashes do to an action, in
\* any order, is a step of the schedule or none at all.
KeepsSchedule == Schedule!Spec
=============================================================================
