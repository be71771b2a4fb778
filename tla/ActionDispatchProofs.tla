------------------------ MODULE ActionDispatchProofs ------------------------
(***************************************************************************)
(* The safety of ActionDispatch when healthChecks do not overlap, for any  *)
(* sets of actions, workers and processes, any number of workers that      *)
(* crash (each once), and with workers that miss their heartbeats.         *)
(*                                                                         *)
(* An action has one place at a time: its dispatch, the queue of one       *)
(* worker, or the healthCheck that moves it.  Whoever writes its row or    *)
(* its worker column has it there.  From this follow the invariants, that  *)
(* no action is lost, and that the workers implement ActionSchedule.       *)
(***************************************************************************)
EXTENDS ActionDispatch, FiniteSetTheorems, TLAPS

\* A job on the way from one queue to another: removed here, not added there.
Held(m) == m.pc \in {"select", "add"}

\* One healthCheck at a time; its workers and its jobs are its own, and a
\* dispatch that runs one waits for it.
OneCheck ==
    \A c, d \in Check : hpc[c] = "retire" /\ hpc[d] = "retire" => c = d
RetiresInCheck ==
    \A c \in Check : \A w \in Worker : retiring[c][w] # "none" => hpc[c] = "retire"
MovesListed ==
    \A m \in requeue : retiring[m.check][m.from] = "jobs"
DispatchWaits ==
    \A a \in Action : hpc[a] = "retire" => dpc[a] = "check"

CheckInv == OneCheck /\ RetiresInCheck /\ MovesListed /\ DispatchWaits

\* The jobs of an action: none before its dispatch is answered, one at most
\* afterwards; one that a healthCheck is to move is where it was found, one
\* that it holds is nowhere else.
JobsAccepted ==
    \A a \in Action : \A w \in Worker : queue[w][a] # "none" => dpc[a] = "accepted"
MovesAccepted ==
    \A m \in requeue : dpc[m.action] = "accepted"
OneMove ==
    \A m, n \in requeue : m.action = n.action => m = n
MoveWhere ==
    \A m \in requeue : \A w \in Worker :
        queue[w][m.action] # "none" => w = m.from /\ ~Held(m)

PlaceInv == JobInOneQueue /\ JobsAccepted /\ MovesAccepted /\ OneMove /\ MoveWhere

\* A worker holds the lock of the job it works on, and what it has read of the
\* action stays true until it starts.
Locked ==
    \A w \in Worker : step[w] # "idle" => w \in up /\ queue[w][run[w]] = "active"
SeenTrue ==
    \A w \in Worker :
        step[w] = "took" /\ seen[w] = "PENDING" => row[run[w]] = "PENDING"

WorkerInv == Locked /\ OwnerRuns /\ SeenTrue

IInv == TypeOK /\ CheckInv /\ PlaceInv /\ WorkerInv

-----------------------------------------------------------------------------
USE DispatchAssumption
USE DEF dispatchVars, checkVars, workerVars

\* Nothing is dispatched, queued or checked yet.
LEMMA InitIInv ==
  ASSUME Init
  PROVE  IInv
<1> USE DEF Init
<1>1. TypeOK
  BY DEF TypeOK, Row, JobState, Move
<1>2. CheckInv
  BY DEF CheckInv, OneCheck, RetiresInCheck, MovesListed, DispatchWaits, Check
<1>3. PlaceInv
  BY DEF PlaceInv, JobInOneQueue, JobsAccepted, MovesAccepted, OneMove, MoveWhere
<1>4. WorkerInv
  BY DEF WorkerInv, Locked, OwnerRuns, SeenTrue
<1> QED  BY <1>1, <1>2, <1>3, <1>4 DEF IInv

\* A job that is added leaves the queues queues.
LEMMA AddJobTypes ==
  ASSUME TypeOK, NEW p \in Process, NEW w, NEW a \in Action, AddJob(p, w, a)
  PROVE  queue' \in [Worker -> [Action -> JobState]]
BY DEF TypeOK, AddJob, JobState

\* Types: the steps of a dispatch.
LEMMA DispatchTypes ==
  ASSUME TypeOK, NEW a \in Action, Dispatch(a)
  PROVE  TypeOK'
<1>1. /\ dpc' \in [Action -> {"new", "select", "add", "check", "reselect",
                             "readd", "reject", "accepted", "rejected"}]
      /\ UNCHANGED <<reachable, stale, known, hpc, retiring, requeue, up, crashed,
                     run, step, seen>>
  <2>1. CASE Create(a) \/ Reject(a)
    BY <2>1 DEF TypeOK, Create, Reject, DispatchAt
  <2>2. CASE Add(a)
    BY <2>2 DEF TypeOK, Add, Added, DispatchAt
  <2>3. CASE Select(a)
    BY <2>3 DEF TypeOK, Select, Selected, NoneSelected, DispatchAt
  <2> QED  BY <2>1, <2>2, <2>3 DEF Dispatch
<1>2. row' \in [Action -> Row]
  <2>1. CASE Create(a) \/ Reject(a) \/ Add(a)
    BY <2>1 DEF TypeOK, Create, Reject, Add, Added, Row
  <2>2. CASE Select(a)
    BY <2>2 DEF TypeOK, Select, Selected, NoneSelected, Row
  <2> QED  BY <2>1, <2>2 DEF Dispatch
<1>3. /\ dto' \in [Action -> Worker \cup {NoWorker}]
      /\ owner' \in [Action -> Worker \cup {NoWorker}]
  <2>1. CASE UNCHANGED <<dto, owner>>
    BY <2>1 DEF TypeOK
  <2>2. CASE \E w \in Worker : /\ dto' = [dto EXCEPT ![a] = w]
                              /\ owner' = [owner EXCEPT ![a] = w]
    BY <2>2 DEF TypeOK
  <2>3. LeastLoaded(Backend) \subseteq Worker
    BY DEF LeastLoaded, Candidates, TypeOK
  <2> QED  BY <2>1, <2>2, <2>3 DEF Dispatch, Create, Select, Selected, NoneSelected,
              Add, Added, Reject
<1>4. queue' \in [Worker -> [Action -> JobState]]
  <2>1. CASE Add(a)
    BY <2>1, AddJobTypes DEF Add, Added
  <2>2. CASE ~Add(a)
    BY <2>2 DEF TypeOK, Dispatch, Create, Select, Selected, NoneSelected, Reject
  <2> QED  BY <2>1, <2>2
<1> QED  BY <1>1, <1>2, <1>3, <1>4 DEF TypeOK

\* Types: the steps of a healthCheck that are not about a job.
LEMMA CheckTypes ==
  ASSUME TypeOK, NEW c \in Check,
         FindTimedOut(c) \/ Refresh(c) \/ \E w \in Worker :
             Retire(c, w) \/ ListJobs(c, w) \/ Forget(c, w)
  PROVE  TypeOK'
<1>1. Home(c) \in Process
  BY DEF Home
<1>2. CASE FindTimedOut(c)
  <2> USE <1>2 DEF FindTimedOut
  <2>1. hpc' \in [Check -> {"idle", "retire"}]
    BY DEF TypeOK
  <2>2. retiring' \in [Check -> [Worker -> {"none", "save", "list", "jobs"}]]
    BY DEF TypeOK
  <2> QED  BY <2>1, <2>2 DEF TypeOK
<1>3. CASE Refresh(c)
  <2> USE <1>3 DEF Refresh
  <2>1. known' \in [Process -> SUBSET Worker]
    BY <1>1 DEF TypeOK
  <2>2. dpc' \in [Action -> {"new", "select", "add", "check", "reselect",
                            "readd", "reject", "accepted", "rejected"}]
    BY DEF TypeOK
  <2>3. hpc' \in [Check -> {"idle", "retire"}]
    BY DEF TypeOK
  <2> QED  BY <2>1, <2>2, <2>3 DEF TypeOK
<1>4. ASSUME NEW w \in Worker, Retire(c, w) PROVE TypeOK'
  <2> USE <1>4 DEF Retire
  <2>1. retiring' \in [Check -> [Worker -> {"none", "save", "list", "jobs"}]]
    BY DEF TypeOK
  <2>2. reachable' \subseteq Worker /\ stale' \subseteq Worker
    BY DEF TypeOK
  <2> QED  BY <2>1, <2>2 DEF TypeOK
<1>5. ASSUME NEW w \in Worker, ListJobs(c, w) PROVE TypeOK'
  <2> USE <1>5 DEF ListJobs
  <2>1. retiring' \in [Check -> [Worker -> {"none", "save", "list", "jobs"}]]
    BY DEF TypeOK
  <2>2. requeue' \subseteq Move
    BY DEF TypeOK, Move
  <2> QED  BY <2>1, <2>2 DEF TypeOK
<1>6. ASSUME NEW w \in Worker, Forget(c, w) PROVE TypeOK'
  <2> USE <1>6 DEF Forget
  <2>1. retiring' \in [Check -> [Worker -> {"none", "save", "list", "jobs"}]]
    BY DEF TypeOK
  <2>2. known' \in [Process -> SUBSET Worker]
    BY <1>1 DEF TypeOK
  <2> QED  BY <2>1, <2>2 DEF TypeOK
<1> QED  BY <1>2, <1>3, <1>4, <1>5, <1>6

\* Types: the steps of a healthCheck about one job.
LEMMA MoveTypes ==
  ASSUME TypeOK, NEW m \in requeue, RemoveJob(m) \/ Reselect(m) \/ Readd(m)
  PROVE  TypeOK'
<1> USE DEF Moves
<1>1. UNCHANGED <<reachable, stale, known, dpc, dto, hpc, retiring, up, crashed, run,
                  step, seen>>
  BY DEF RemoveJob, Reselect, Readd
<1>2. /\ m \in Move /\ m.from \in Worker /\ m.action \in Action /\ m.check \in Check
      /\ Home(m.check) \in Process
  BY DEF TypeOK, Move, Check, Home
<1>3. CASE RemoveJob(m)
  <2> USE <1>3 DEF RemoveJob
  <2>1. requeue' \subseteq Move
    <3>1. [m EXCEPT !.pc = "select"] \in Move
      BY <1>2 DEF Move
    <3>2. \/ requeue' = (requeue \ {m}) \cup {}
          \/ requeue' = (requeue \ {m}) \cup {[m EXCEPT !.pc = "select"]}
      OBVIOUS
    <3> HIDE DEF RemoveJob
    <3> QED  BY <3>1, <3>2 DEF TypeOK
  <2>2. queue' \in [Worker -> [Action -> JobState]]
    <3>1. CASE UNCHANGED queue
      BY <3>1 DEF TypeOK
    <3>2. CASE queue' = [queue EXCEPT ![m.from][m.action] = "none"]
      BY <1>2, <3>2 DEF TypeOK, JobState
    <3> QED  BY <3>1, <3>2
  <2> QED  BY <1>1, <2>1, <2>2 DEF TypeOK
<1>4. CASE Reselect(m)
  <2>1. UNCHANGED queue
    BY <1>4 DEF Reselect
  <2>2. ASSUME NEW w \in LeastLoaded(Home(m.check)),
               requeue' = (requeue \ {m}) \cup {[m EXCEPT !.pc = "add", !.to = w]},
               owner' = [owner EXCEPT ![m.action] = w], UNCHANGED row
        PROVE  TypeOK'
    <3>1. w \in Worker
      BY DEF LeastLoaded, Candidates, TypeOK
    <3>2. [m EXCEPT !.pc = "add", !.to = w] \in Move
      BY <1>2, <3>1 DEF Move
    <3>3. owner' \in [Action -> Worker \cup {NoWorker}] /\ requeue' \subseteq Move
      BY <1>2, <2>2, <3>1, <3>2 DEF TypeOK
    <3> QED  BY <1>1, <2>1, <2>2, <3>3 DEF TypeOK
  <2>3. CASE requeue' = requeue \ {m} /\ UNCHANGED owner
             /\ row' = [row EXCEPT ![m.action] = "UNPROCESSABLE"]
    <3>1. row' \in [Action -> Row] /\ requeue' \subseteq Move
      BY <1>2, <2>3 DEF TypeOK, Row
    <3> QED  BY <1>1, <2>1, <2>3, <3>1 DEF TypeOK
  <2> QED  BY <1>4, <2>2, <2>3 DEF Reselect
<1>5. CASE Readd(m)
  <2>1. queue' \in [Worker -> [Action -> JobState]]
    BY <1>2, <1>5, AddJobTypes DEF Readd
  <2>2. requeue' \subseteq Move /\ UNCHANGED <<row, owner>>
    BY <1>5 DEF Readd, TypeOK
  <2> QED  BY <1>1, <2>1, <2>2 DEF TypeOK
<1> QED  BY <1>3, <1>4, <1>5

\* Types: a worker.
LEMMA WorkerTypes ==
  ASSUME TypeOK, NEW w \in Worker,
         Start(w) \/ Heartbeat(w) \/ Lapse(w) \/ Crash(w) \/ Consume(w)
  PROVE  TypeOK'
<1>1. CASE Start(w) \/ Heartbeat(w) \/ Lapse(w)
  <2>1. reachable' \subseteq Worker /\ stale' \subseteq Worker /\ up' \subseteq Worker
    BY <1>1 DEF TypeOK, Start, Heartbeat, Lapse
  <2>2. UNCHANGED <<row, owner, queue, known, dpc, dto, hpc, retiring, requeue,
                    crashed, run, step, seen>>
    BY <1>1 DEF Start, Heartbeat, Lapse
  <2> QED  BY <2>1, <2>2 DEF TypeOK
<1>2. CASE Crash(w)
  <2> USE <1>2 DEF Crash
  <2>1. up' \subseteq Worker /\ crashed' \subseteq Worker
    BY DEF TypeOK
  <2>2. /\ run' \in [Worker -> Action \cup {NoAction}]
        /\ step' \in [Worker -> {"idle", "took", "running"}]
        /\ seen' \in [Worker -> Row]
        /\ \A v \in Worker : (step'[v] = "idle") = (run'[v] = NoAction)
    BY DEF TypeOK, Row
  <2>3. UNCHANGED <<row, owner, reachable, stale, queue, known, dpc, dto, hpc,
                    retiring, requeue>>
    OBVIOUS
  <2> QED  BY <2>1, <2>2, <2>3 DEF TypeOK
<1>3. CASE Consume(w)
  <2>1. UNCHANGED <<reachable, stale, known, dpc, dto, hpc, retiring, requeue, up,
                    crashed>>
    BY <1>3 DEF Consume, Begin, Refuse, Finish, Ends, Stalled, Take, WorkerStep
  <2>2. step[w] # "idle" => run[w] \in Action
    BY DEF TypeOK
  <2>3. CASE Begin(w)
    <3> USE <2>3 DEF Begin
    <3>1. row' \in [Action -> Row] /\ owner' \in [Action -> Worker \cup {NoWorker}]
      BY <2>2 DEF TypeOK, Row
    <3>2. /\ step' \in [Worker -> {"idle", "took", "running"}]
          /\ \A v \in Worker : (step'[v] = "idle") = (run'[v] = NoAction)
      BY DEF TypeOK
    <3> QED  BY <2>1, <3>1, <3>2 DEF TypeOK
  <2>4. CASE Refuse(w) \/ Finish(w)
    <3>1. step[w] # "idle" /\ run[w] \in Action
      BY <2>2, <2>4 DEF Refuse, Finish
    <3>2. PICK s \in Settled : row' = [row EXCEPT ![run[w]] = s]
      BY <2>4 DEF Refuse, Finish, Ends, Settled
    <3>3. row' \in [Action -> Row]
      BY <3>1, <3>2 DEF TypeOK, Row, Settled
    <3>4. owner' \in [Action -> Worker \cup {NoWorker}]
      <4>1. owner' = owner \/ owner' = [owner EXCEPT ![run[w]] = w]
        BY <2>4 DEF Refuse, Finish
      <4> QED  BY <3>1, <4>1 DEF TypeOK
    <3>5. /\ queue' = [queue EXCEPT ![w][run[w]] = "none"]
          /\ run' = [run EXCEPT ![w] = NoAction]
          /\ step' = [step EXCEPT ![w] = "idle"]
          /\ seen' = [seen EXCEPT ![w] = "none"]
      BY <2>4 DEF Refuse, Finish, Ends
    <3>6. queue' \in [Worker -> [Action -> JobState]]
      BY <3>1, <3>5 DEF TypeOK, JobState
    <3>7. /\ run' \in [Worker -> Action \cup {NoAction}]
          /\ step' \in [Worker -> {"idle", "took", "running"}]
          /\ seen' \in [Worker -> Row]
          /\ \A v \in Worker : (step'[v] = "idle") = (run'[v] = NoAction)
      BY <3>5 DEF TypeOK, Row
    <3> QED  BY <2>1, <3>3, <3>4, <3>6, <3>7 DEF TypeOK
  <2>5. ASSUME NEW a \in Action, Stalled(w, a) PROVE TypeOK'
    <3>1. queue' \in [Worker -> [Action -> JobState]]
      BY <2>5 DEF Stalled, TypeOK, JobState
    <3> QED  BY <2>1, <2>5, <3>1 DEF Stalled, TypeOK
  <2>6. ASSUME NEW a \in Action, Take(w, a) PROVE TypeOK'
    <3> USE <2>6 DEF Take
    <3>1. queue' \in [Worker -> [Action -> JobState]]
      BY DEF TypeOK, JobState
    <3>2. /\ run' \in [Worker -> Action \cup {NoAction}]
          /\ step' \in [Worker -> {"idle", "took", "running"}]
          /\ seen' \in [Worker -> Row]
      BY DEF TypeOK
    <3>3. \A v \in Worker : (step'[v] = "idle") = (run'[v] = NoAction)
      BY DEF TypeOK
    <3> QED  BY <2>1, <3>1, <3>2, <3>3 DEF TypeOK
  <2> QED  BY <1>3, <2>3, <2>4, <2>5, <2>6 DEF Consume
<1> QED  BY <1>1, <1>2, <1>3

\* Types: any step.
LEMMA TypeOKStep ==
  ASSUME TypeOK, [Next]_vars
  PROVE  TypeOK'
<1>1. ASSUME NEW c \in Check, HealthCheck(c) PROVE TypeOK'
  <2>1. ASSUME NEW m \in requeue, RemoveJob(m) \/ Reselect(m) \/ Readd(m)
        PROVE  TypeOK'
    BY <2>1, MoveTypes
  <2> QED  BY <1>1, <2>1, CheckTypes DEF HealthCheck
<1>2. CASE UNCHANGED vars
  BY <1>2 DEF TypeOK, vars
<1> QED  BY <1>1, <1>2, DispatchTypes, WorkerTypes DEF Next

-----------------------------------------------------------------------------
\* What holds for the jobs a healthCheck is moving.
LEMMA MoveFields ==
  ASSUME TypeOK, NEW m \in requeue
  PROVE  /\ m \in Move /\ m.check \in Check /\ m.from \in Worker
         /\ m.action \in Action /\ Home(m.check) \in Process
BY DEF TypeOK, Move, Check, Home

\* An action that is worked on is one whose dispatch was accepted.
LEMMA RunAccepted ==
  ASSUME IInv, NEW w \in Worker, step[w] # "idle"
  PROVE  run[w] \in Action /\ dpc[run[w]] = "accepted"
BY DEF IInv, TypeOK, WorkerInv, Locked, PlaceInv, JobsAccepted

\* Two workers do not work on one action.
LEMMA RunDistinct ==
  ASSUME IInv, NEW v \in Worker, NEW w \in Worker,
         step[v] # "idle", step[w] # "idle", run[v] = run[w]
  PROVE  v = w
BY RunAccepted DEF IInv, WorkerInv, Locked, PlaceInv, JobInOneQueue

\* A step of a dispatch concerns one action that has no job yet.
LEMMA DispatchFrame ==
  ASSUME IInv, NEW a \in Action, Dispatch(a)
  PROVE  /\ UNCHANGED <<checkVars, workerVars>>
         /\ dpc[a] \notin {"accepted", "check"}
         /\ \A b \in Action \ {a} :
               /\ dpc'[b] = dpc[b] /\ row'[b] = row[b] /\ owner'[b] = owner[b]
               /\ \A w \in Worker : queue'[w][b] = queue[w][b]
         /\ \A w \in Worker :
               queue'[w][a] # "none" => w = dto[a] /\ dpc'[a] = "accepted"
<1>1. \A w \in Worker : dpc[a] # "accepted" => queue[w][a] = "none"
  BY DEF IInv, PlaceInv, JobsAccepted
<1>2. CASE Create(a) \/ Reject(a)
  BY <1>1, <1>2 DEF Create, Reject, DispatchAt, IInv, TypeOK
<1>3. CASE Select(a)
  BY <1>1, <1>3 DEF Select, Selected, NoneSelected, DispatchAt, IInv, TypeOK
<1>4. CASE Add(a)
  BY <1>1, <1>4 DEF Add, Added, AddJob, DispatchAt, IInv, TypeOK
<1> QED  BY <1>2, <1>3, <1>4 DEF Dispatch

\* The invariant: the steps of a dispatch.
LEMMA DispatchInv ==
  ASSUME IInv, NEW a \in Action, Dispatch(a)
  PROVE  CheckInv' /\ PlaceInv' /\ WorkerInv'
<1> USE DispatchFrame
<1>1. CheckInv'
  BY DEF IInv, CheckInv, OneCheck, RetiresInCheck, MovesListed, DispatchWaits
<1>2. \A m \in requeue : m.action \in Action \ {a}
  BY MoveFields DEF IInv, PlaceInv, MovesAccepted
<1>3. PlaceInv'
  <2>1. JobInOneQueue' /\ JobsAccepted'
    BY DEF IInv, PlaceInv, JobInOneQueue, JobsAccepted
  <2>2. MovesAccepted' /\ OneMove' /\ MoveWhere'
    BY <1>2 DEF IInv, PlaceInv, MovesAccepted, OneMove, MoveWhere, Held
  <2> QED  BY <2>1, <2>2 DEF PlaceInv
<1>4. \A w \in Worker : step[w] # "idle" => run[w] \in Action \ {a}
  BY RunAccepted
<1>5. WorkerInv'
  BY <1>4 DEF IInv, WorkerInv, Locked, OwnerRuns, SeenTrue
<1> QED  BY <1>1, <1>3, <1>5

\* The invariant: the steps of a healthCheck that are not about a job.
LEMMA CheckStepInv ==
  ASSUME IInv, Overlap = FALSE, NEW c \in Check,
         FindTimedOut(c) \/ Refresh(c) \/ \E w \in Worker :
             Retire(c, w) \/ ListJobs(c, w) \/ Forget(c, w)
  PROVE  CheckInv' /\ PlaceInv' /\ WorkerInv'
<1> USE DEF IInv
<1>1. WorkerInv'
  BY DEF FindTimedOut, Refresh, Retire, ListJobs, Forget, WorkerInv, Locked,
     OwnerRuns, SeenTrue
<1>2. UNCHANGED queue
  BY DEF FindTimedOut, Refresh, Retire, ListJobs, Forget
<1>3. CASE FindTimedOut(c)
  <2>1. \A d \in Check : hpc[d] = "idle"
    BY <1>3 DEF FindTimedOut
  <2>2. requeue = {}
    BY <2>1, MoveFields DEF CheckInv, MovesListed, RetiresInCheck
  <2>3. CheckInv'
    BY <1>3, <2>1, <2>2 DEF FindTimedOut, TypeOK, CheckInv, OneCheck, RetiresInCheck,
       MovesListed, DispatchWaits, Check
  <2>4. PlaceInv'
    BY <1>2, <1>3, <2>2 DEF FindTimedOut, PlaceInv, JobInOneQueue, JobsAccepted,
       MovesAccepted, OneMove, MoveWhere
  <2> QED  BY <1>1, <2>3, <2>4
<1>4. CASE Refresh(c)
  <2> USE <1>4 DEF Refresh
  <2>1. \A a \in Action : a # c => dpc'[a] = dpc[a]
    BY DEF TypeOK
  <2>2. c \in Action => dpc[c] = "check"
    BY DEF CheckInv, DispatchWaits
  <2>3. CheckInv'
    BY <2>1 DEF TypeOK, CheckInv, OneCheck, RetiresInCheck, MovesListed, DispatchWaits,
       Check
  <2>4. JobInOneQueue' /\ JobsAccepted'
    BY <2>1, <2>2 DEF PlaceInv, JobInOneQueue, JobsAccepted
  <2>5. MovesAccepted' /\ OneMove' /\ MoveWhere'
    BY <2>1, <2>2, MoveFields DEF PlaceInv, MovesAccepted, OneMove, MoveWhere, Held
  <2> QED  BY <1>1, <2>3, <2>4, <2>5 DEF PlaceInv
<1>5. ASSUME NEW w \in Worker, Retire(c, w) PROVE CheckInv' /\ PlaceInv'
  <2> USE <1>5 DEF Retire
  <2>1. CheckInv'
    BY DEF TypeOK, CheckInv, OneCheck, RetiresInCheck, MovesListed, DispatchWaits
  <2>2. PlaceInv'
    BY DEF PlaceInv, JobInOneQueue, JobsAccepted, MovesAccepted, OneMove, MoveWhere, Held
  <2> QED  BY <2>1, <2>2
<1>6. ASSUME NEW w \in Worker, ListJobs(c, w) PROVE CheckInv' /\ PlaceInv'
  <2> USE <1>6 DEF ListJobs
  <2> DEFINE found == {[check |-> c, from |-> w, action |-> a, pc |-> "remove",
                        to |-> NoWorker] : a \in {b \in Action : queue[w][b] # "none"}}
  <2>1. \A m \in requeue : hpc[m.check] = "retire" /\ m.check = c
    BY MoveFields DEF CheckInv, MovesListed, RetiresInCheck, OneCheck
  <2>2. \A m \in requeue : m.from # w
    BY <2>1 DEF CheckInv, MovesListed
  <2>3. \A m \in found : /\ m.check = c /\ m.from = w /\ m.pc = "remove"
                         /\ m.action \in Action /\ queue[w][m.action] # "none"
    OBVIOUS
  <2>4. \A m, n \in found : m.action = n.action => m = n
    OBVIOUS
  <2>5. requeue' = requeue \cup found
    OBVIOUS
  <2> HIDE DEF found
  <2>6. CheckInv'
    BY <2>3, <2>5, MoveFields
       DEF TypeOK, CheckInv, OneCheck, RetiresInCheck, MovesListed, DispatchWaits
  <2>7. JobInOneQueue' /\ JobsAccepted'
    BY DEF PlaceInv, JobInOneQueue, JobsAccepted
  <2>8. MovesAccepted'
    BY <2>3, <2>5 DEF PlaceInv, MovesAccepted, JobsAccepted
  <2>9. \A m \in requeue, n \in found : m.action # n.action
    BY <2>2, <2>3 DEF PlaceInv, MoveWhere
  <2>10. OneMove'
    BY <2>4, <2>5, <2>9 DEF PlaceInv, OneMove
  <2>11. MoveWhere'
    BY <2>3, <2>5 DEF PlaceInv, MoveWhere, JobInOneQueue, Held
  <2> QED  BY <2>6, <2>7, <2>8, <2>10, <2>11 DEF PlaceInv
<1>7. ASSUME NEW w \in Worker, Forget(c, w) PROVE CheckInv' /\ PlaceInv'
  <2> USE <1>7 DEF Forget
  <2>1. CheckInv'
    BY MoveFields DEF TypeOK, CheckInv, OneCheck, RetiresInCheck, MovesListed,
       DispatchWaits
  <2>2. PlaceInv'
    BY DEF PlaceInv, JobInOneQueue, JobsAccepted, MovesAccepted, OneMove, MoveWhere, Held
  <2> QED  BY <2>1, <2>2
<1> QED  BY <1>1, <1>3, <1>4, <1>5, <1>6, <1>7

\* The invariant: the steps of a healthCheck about one job.
LEMMA MoveInv ==
  ASSUME IInv, NEW m \in requeue, RemoveJob(m) \/ Reselect(m) \/ Readd(m)
  PROVE  CheckInv' /\ PlaceInv' /\ WorkerInv'
<1> USE MoveFields DEF IInv
<1>1. UNCHANGED <<dpc, hpc, retiring, up, run, step, seen>>
  BY DEF RemoveJob, Reselect, Readd, Moves
<1>2. PICK n : /\ requeue' \subseteq (requeue \ {m}) \cup {n}
               /\ n.check = m.check /\ n.from = m.from /\ n.action = m.action
  <2>1. ASSUME NEW w PROVE LET n == [m EXCEPT !.pc = "add", !.to = w] IN
          n.check = m.check /\ n.from = m.from /\ n.action = m.action
    BY DEF Move
  <2>2. LET n == [m EXCEPT !.pc = "select"] IN
          n.check = m.check /\ n.from = m.from /\ n.action = m.action
    BY DEF Move
  <2>3. \/ requeue' = (requeue \ {m}) \cup {}
        \/ requeue' = (requeue \ {m}) \cup {[m EXCEPT !.pc = "select"]}
        \/ \E w : requeue' = (requeue \ {m}) \cup {[m EXCEPT !.pc = "add", !.to = w]}
    BY DEF RemoveJob, Reselect, Readd, Moves
  <2> QED  BY <2>1, <2>2, <2>3
<1>3. CheckInv'
  BY <1>1, <1>2 DEF CheckInv, OneCheck, RetiresInCheck, MovesListed, DispatchWaits
<1>4. MovesAccepted' /\ OneMove'
  BY <1>1, <1>2 DEF PlaceInv, MovesAccepted, OneMove
<1>5. CASE RemoveJob(m) /\ m.from \in up /\ run[m.from] = m.action
  <2>1. requeue' \subseteq requeue /\ UNCHANGED <<row, owner, queue>>
    BY <1>5 DEF RemoveJob, Moves
  <2> QED
    BY <1>1, <1>3, <1>4, <1>5, <2>1
       DEF PlaceInv, JobInOneQueue, JobsAccepted, MoveWhere, Held, WorkerInv, Locked,
           OwnerRuns, SeenTrue
<1>6. CASE RemoveJob(m) /\ ~(m.from \in up /\ run[m.from] = m.action)
  <2>1. /\ ~(m.from \in up /\ run[m.from] = m.action) /\ UNCHANGED <<row, owner>>
        /\ queue' = [queue EXCEPT ![m.from][m.action] = "none"]
    BY <1>6 DEF RemoveJob
  <2>2. \A w \in Worker : queue'[w][m.action] = "none"
    BY <2>1 DEF PlaceInv, MoveWhere, TypeOK
  <2>3. \A w \in Worker, b \in Action : b # m.action => queue'[w][b] = queue[w][b]
    BY <2>1 DEF TypeOK
  <2>4. JobInOneQueue' /\ JobsAccepted'
    BY <1>1, <2>2, <2>3 DEF PlaceInv, JobInOneQueue, JobsAccepted
  <2>5. MoveWhere'
    BY <1>2, <2>2, <2>3 DEF PlaceInv, MoveWhere, OneMove, Held
  <2>6. \A w \in Worker : step[w] # "idle" => run[w] # m.action
    BY <2>1 DEF WorkerInv, Locked, PlaceInv, MoveWhere
  <2>7. WorkerInv'
    BY <1>1, <2>1, <2>3, <2>6, RunAccepted DEF WorkerInv, Locked, OwnerRuns, SeenTrue
  <2> QED  BY <1>3, <1>4, <2>4, <2>5, <2>7 DEF PlaceInv
<1>7. ASSUME Held(m) PROVE \A w \in Worker : /\ queue[w][m.action] = "none"
                                             /\ step[w] # "idle" => run[w] # m.action
  BY <1>7 DEF PlaceInv, MoveWhere, WorkerInv, Locked
<1>8. CASE Reselect(m)
  <2>1. Held(m) /\ UNCHANGED queue
    BY <1>8 DEF Reselect, Held
  <2>2. \A b \in Action : b # m.action => row'[b] = row[b] /\ owner'[b] = owner[b]
    BY <1>8 DEF Reselect, TypeOK
  <2>3. JobInOneQueue' /\ JobsAccepted'
    BY <1>1, <2>1 DEF PlaceInv, JobInOneQueue, JobsAccepted
  <2>4. MoveWhere'
    BY <1>2, <1>7, <2>1 DEF PlaceInv, MoveWhere, Held
  <2>5. WorkerInv'
    BY <1>1, <1>7, <2>1, <2>2, RunAccepted DEF WorkerInv, Locked, OwnerRuns, SeenTrue
  <2> QED  BY <1>3, <1>4, <2>3, <2>4, <2>5 DEF PlaceInv
<1>9. CASE Readd(m)
  <2>1. /\ Held(m) /\ requeue' = requeue \ {m} /\ UNCHANGED <<row, owner>>
        /\ AddJob(Home(m.check), m.to, m.action)
    BY <1>9 DEF Readd, Moves, Held
  <2>2. /\ \A w \in Worker, b \in Action : b # m.action => queue'[w][b] = queue[w][b]
        /\ \A w \in Worker : queue'[w][m.action] # "none" => w = m.to
    BY <1>7, <2>1 DEF AddJob, TypeOK
  <2>3. JobInOneQueue' /\ JobsAccepted'
    BY <1>1, <2>2 DEF PlaceInv, JobInOneQueue, JobsAccepted, MovesAccepted
  <2>4. MoveWhere'
    BY <2>1, <2>2 DEF PlaceInv, MoveWhere, OneMove, Held
  <2>5. WorkerInv'
    BY <1>1, <1>7, <2>1, <2>2, RunAccepted DEF WorkerInv, Locked, OwnerRuns, SeenTrue
  <2> QED  BY <1>3, <1>4, <2>3, <2>4, <2>5 DEF PlaceInv
<1> QED  BY <1>5, <1>6, <1>8, <1>9

\* The invariant: the steps of a worker.
LEMMA WorkerStepInv ==
  ASSUME IInv, NEW w \in Worker,
         Start(w) \/ Heartbeat(w) \/ Lapse(w) \/ Crash(w) \/ Consume(w)
  PROVE  CheckInv' /\ PlaceInv' /\ WorkerInv'
<1> USE DEF IInv
<1>1. UNCHANGED <<dpc, hpc, retiring, requeue>>
  BY DEF Start, Heartbeat, Lapse, Crash, Consume, Begin, Refuse, Finish, Ends, Stalled,
     Take, WorkerStep
<1>2. CheckInv' /\ MovesAccepted' /\ OneMove'
  BY <1>1 DEF CheckInv, OneCheck, RetiresInCheck, MovesListed, DispatchWaits, PlaceInv,
     MovesAccepted, OneMove
<1>3. ASSUME \A v \in Worker, a \in Action :
               queue'[v][a] # "none" => queue[v][a] # "none"
      PROVE  PlaceInv'
  <2>1. JobInOneQueue' /\ JobsAccepted'
    BY <1>1, <1>3 DEF PlaceInv, JobInOneQueue, JobsAccepted
  <2>2. MoveWhere'
    BY <1>1, <1>3, MoveFields DEF PlaceInv, MoveWhere, Held
  <2> QED  BY <1>2, <2>1, <2>2 DEF PlaceInv
<1>4. CASE Start(w) \/ Heartbeat(w) \/ Lapse(w)
  <2>1. UNCHANGED <<row, owner, queue, run, step, seen>> /\ up \subseteq up'
    BY <1>4 DEF Start, Heartbeat, Lapse
  <2>2. WorkerInv'
    BY <2>1 DEF WorkerInv, Locked, OwnerRuns, SeenTrue
  <2> QED  BY <1>2, <1>3, <2>1, <2>2
<1>5. CASE Crash(w)
  <2> USE <1>5 DEF Crash
  <2>1. WorkerInv'
    BY DEF TypeOK, WorkerInv, Locked, OwnerRuns, SeenTrue
  <2> QED  BY <1>2, <1>3, <2>1
<1>6. ASSUME NEW a \in Action, Stalled(w, a) PROVE PlaceInv' /\ WorkerInv'
  <2>1. \A v \in Worker, b \in Action :
           /\ queue'[v][b] # "none" => queue[v][b] # "none"
           /\ ~(v = w /\ b = a) => queue'[v][b] = queue[v][b]
    BY <1>6 DEF Stalled, TypeOK
  <2>2. UNCHANGED <<row, owner, run, step, seen, up>> /\ run[w] # a
    BY <1>6 DEF Stalled, WorkerStep
  <2>3. WorkerInv'
    BY <2>1, <2>2, RunAccepted DEF WorkerInv, Locked, OwnerRuns, SeenTrue
  <2> QED  BY <1>3, <2>1, <2>3
<1>7. ASSUME NEW a \in Action, Take(w, a) PROVE PlaceInv' /\ WorkerInv'
  <2> USE <1>7 DEF Take, WorkerStep
  <2>1. \A v \in Worker, b \in Action :
           /\ queue'[v][b] # "none" => queue[v][b] # "none"
           /\ ~(v = w /\ b = a) => queue'[v][b] = queue[v][b]
    BY DEF TypeOK
  <2>2. /\ step'[w] = "took" /\ run'[w] = a /\ seen'[w] = row[a]
        /\ queue'[w][a] = "active" /\ w \in up
        /\ \A v \in Worker : v # w =>
              step'[v] = step[v] /\ run'[v] = run[v] /\ seen'[v] = seen[v]
        /\ UNCHANGED <<row, owner, up>>
    BY DEF TypeOK
  <2> HIDE <1>7 DEF Take
  <2>3. WorkerInv'
    BY <2>1, <2>2, RunAccepted DEF WorkerInv, Locked, OwnerRuns, SeenTrue
  <2> QED  BY <1>3, <2>1, <2>3
<1>8. ASSUME Begin(w) \/ Refuse(w) \/ Finish(w) PROVE PlaceInv' /\ WorkerInv'
  <2>1. step[w] # "idle" /\ run[w] \in Action /\ w \in up
    BY <1>8, RunAccepted DEF Begin, Refuse, Finish, WorkerInv, Locked
  <2>2. \A b \in Action : b # run[w] => row'[b] = row[b] /\ owner'[b] = owner[b]
    BY <1>8, <2>1 DEF Begin, Refuse, Finish, Ends, TypeOK
  <2>3. \A v \in Worker : v # w /\ step[v] # "idle" => run[v] \in Action \ {run[w]}
    BY <2>1, RunDistinct, RunAccepted
  <2>4. /\ UNCHANGED up
        /\ \A v \in Worker : v # w =>
              step'[v] = step[v] /\ run'[v] = run[v] /\ seen'[v] = seen[v]
    BY <1>8 DEF Begin, Refuse, Finish, Ends, WorkerStep, TypeOK
  <2>5. CASE Begin(w)
    <3>1. /\ step'[w] = "running" /\ owner'[run[w]] = w
          /\ UNCHANGED <<queue, run>>
      BY <2>1, <2>5 DEF Begin, TypeOK
    <3>2. WorkerInv'
      BY <2>1, <2>2, <2>3, <2>4, <3>1 DEF WorkerInv, Locked, OwnerRuns, SeenTrue
    <3> QED  BY <1>3, <3>1, <3>2
  <2>6. CASE Refuse(w) \/ Finish(w)
    <3>1. /\ step' = [step EXCEPT ![w] = "idle"]
          /\ queue' = [queue EXCEPT ![w][run[w]] = "none"]
      BY <2>6 DEF Refuse, Finish, Ends
    <3>2. /\ step'[w] = "idle"
          /\ \A v \in Worker, b \in Action :
               /\ queue'[v][b] # "none" => queue[v][b] # "none"
               /\ b # run[w] => queue'[v][b] = queue[v][b]
      BY <2>1, <3>1 DEF TypeOK
    <3>3. WorkerInv'
      BY <2>2, <2>3, <2>4, <3>2 DEF WorkerInv, Locked, OwnerRuns, SeenTrue
    <3> QED  BY <1>3, <3>2, <3>3
  <2> QED  BY <1>8, <2>5, <2>6
<1> QED  BY <1>2, <1>4, <1>5, <1>6, <1>7, <1>8 DEF Consume

\* The invariant: any step.
LEMMA IInvStep ==
  ASSUME IInv, Overlap = FALSE, [Next]_vars
  PROVE  IInv'
<1>1. TypeOK'
  BY TypeOKStep DEF IInv
<1>2. ASSUME NEW c \in Check, HealthCheck(c) PROVE CheckInv' /\ PlaceInv' /\ WorkerInv'
  BY <1>2, CheckStepInv, MoveInv DEF HealthCheck
<1>3. CASE UNCHANGED vars
  BY <1>1, <1>3 DEF vars, IInv, CheckInv, OneCheck, RetiresInCheck, MovesListed, DispatchWaits,
     PlaceInv, JobInOneQueue, JobsAccepted, MovesAccepted, OneMove, MoveWhere, Held,
     WorkerInv, Locked, OwnerRuns, SeenTrue
<1> QED  BY <1>1, <1>2, <1>3, DispatchInv, WorkerStepInv DEF Next, IInv

-----------------------------------------------------------------------------
\* The variables keep their types, whether healthChecks overlap or not.
THEOREM TypeCorrect == Spec => []TypeOK
<1>1. Init => TypeOK
  BY InitIInv DEF IInv
<1>2. TypeOK /\ [Next]_vars => TypeOK'
  BY TypeOKStep
<1> QED  BY <1>1, <1>2, PTL DEF Spec

\* When healthChecks do not overlap, the invariant holds.
LEMMA Inductive ==
  ASSUME Overlap = FALSE
  PROVE  Spec => []IInv
<1>1. Init => IInv
  BY InitIInv
<1>2. IInv /\ [Next]_vars => IInv'
  BY IInvStep
<1> QED  BY <1>1, <1>2, PTL DEF Spec

\* When healthChecks do not overlap, the jobs of an action never sit in two
\* queues: moving a job off a worker that timed out removes it there first.
THEOREM OneQueue ==
  ASSUME Overlap = FALSE
  PROVE  Spec => []JobInOneQueue
<1>1. IInv => JobInOneQueue
  BY DEF IInv, PlaceInv
<1> QED  BY <1>1, Inductive, PTL

\* When healthChecks do not overlap, at most one worker runs an action, also
\* when a live worker missed its heartbeats and its jobs were moved.
THEOREM OneRun ==
  ASSUME Overlap = FALSE
  PROVE  Spec => []NoDoubleRun
<1>1. IInv => NoDoubleRun
  BY RunDistinct DEF NoDoubleRun
<1> QED  BY <1>1, Inductive, PTL

\* When healthChecks do not overlap, a running action is attributed to the
\* worker that runs it.
THEOREM OwnedByRunner ==
  ASSUME Overlap = FALSE
  PROVE  Spec => []OwnerRuns
<1>1. IInv => OwnerRuns
  BY DEF IInv, WorkerInv
<1> QED  BY <1>1, Inductive, PTL

\* When healthChecks do not overlap, what the state guard of processAction read
\* is still true when the action is set to STARTING.
THEOREM GuardHolds ==
  ASSUME Overlap = FALSE
  PROVE  Spec => StartsFromPending
<1> DEFINE Starts == \A w \in Worker :
             step[w] = "took" /\ step'[w] = "running" => row[run[w]] = "PENDING"
<1>1. ASSUME IInv, Next PROVE Starts
  <2> SUFFICES ASSUME NEW w \in Worker, step[w] = "took", step'[w] = "running"
               PROVE  row[run[w]] = "PENDING"
    OBVIOUS
  <2>1. seen[w] = "PENDING"
    <3>1. ASSUME NEW a \in Action, Dispatch(a) PROVE FALSE
      BY <1>1, <3>1, DispatchFrame
    <3>2. ASSUME NEW c \in Check, HealthCheck(c) PROVE FALSE
      BY <3>2 DEF HealthCheck, FindTimedOut, Refresh, Retire, ListJobs, Forget,
         RemoveJob, Reselect, Readd, Moves
    <3>3. ASSUME NEW v \in Worker, Start(v) \/ Heartbeat(v) \/ Lapse(v) \/ Crash(v)
          PROVE  FALSE
      BY <1>1, <3>3 DEF Start, Heartbeat, Lapse, Crash, IInv, TypeOK
    <3>4. ASSUME NEW v \in Worker, Consume(v) PROVE v = w /\ Begin(w)
      BY <1>1, <3>4 DEF Consume, Begin, Refuse, Finish, Ends, Stalled, Take, IInv, TypeOK
    <3> QED  BY <1>1, <3>1, <3>2, <3>3, <3>4 DEF Next, Begin
  <2> QED  BY <1>1, <2>1 DEF IInv, WorkerInv, SeenTrue
<1>2. IInv /\ [Next]_vars => [Starts]_vars
  BY <1>1
<1> QED  BY <1>2, Inductive, PTL DEF Spec, StartsFromPending

-----------------------------------------------------------------------------
(***************************************************************************)
(* No action is lost, unless two workers are taken for dead: the second    *)
(* may be the one that the jobs of the first are moved to, and its queue   *)
(* forgotten before they arrive.                                           *)
(***************************************************************************)
\* A worker that missed its heartbeats has crashed, and only one has.
OneTimesOut ==
    /\ crashed = {} \/ \E w \in Worker : crashed = {w}
    /\ stale \subseteq crashed
    /\ reachable \ up \subseteq crashed
    /\ \A c \in Check : \A w \in Worker : retiring[c][w] # "none" => w \in crashed

\* The queue that a moved job is added to is still known when it is added.
MoveArrives ==
    \A m \in requeue : m.pc = "add" => m.to \in known[Home(m.check)]

KeepInv == OneTimesOut /\ MoveArrives /\ NoLostAction

\* Workers that are taken for dead: the steps of a healthCheck.
LEMMA TimesOutCheck ==
  ASSUME IInv, OneTimesOut, NEW c \in Check, HealthCheck(c)
  PROVE  OneTimesOut'
<1> USE DEF IInv, TypeOK, OneTimesOut
<1>1. CASE FindTimedOut(c)
  BY <1>1 DEF FindTimedOut
<1>2. CASE Refresh(c)
  BY <1>2 DEF Refresh
<1>3. ASSUME NEW w \in Worker, Retire(c, w) PROVE OneTimesOut'
  BY <1>3 DEF Retire
<1>4. ASSUME NEW w \in Worker, ListJobs(c, w) PROVE OneTimesOut'
  BY <1>4 DEF ListJobs
<1>5. ASSUME NEW w \in Worker, Forget(c, w) PROVE OneTimesOut'
  BY <1>5 DEF Forget
<1>6. ASSUME NEW m \in requeue, RemoveJob(m) \/ Reselect(m) \/ Readd(m)
      PROVE  OneTimesOut'
  BY <1>6 DEF RemoveJob, Reselect, Readd, Moves
<1> QED  BY <1>1, <1>2, <1>3, <1>4, <1>5, <1>6 DEF HealthCheck

\* Workers that are taken for dead: any step.
LEMMA TimesOutStep ==
  ASSUME IInv, OneTimesOut, Lapses = FALSE, MaxCrashes \in {0, 1}, [Next]_vars
  PROVE  OneTimesOut'
<1> USE DEF OneTimesOut
<1>1. ASSUME NEW a \in Action, Dispatch(a) PROVE OneTimesOut'
  BY <1>1 DEF Dispatch, Create, Select, Selected, NoneSelected, Add, Added, Reject,
     DispatchAt
<1>2. ASSUME NEW c \in Check, HealthCheck(c) PROVE OneTimesOut'
  BY <1>2, TimesOutCheck
<1>3. ASSUME NEW w \in Worker, Start(w) \/ Heartbeat(w) \/ Lapse(w) PROVE OneTimesOut'
  BY <1>3 DEF Start, Heartbeat, Lapse
<1>4. ASSUME NEW w \in Worker, Crash(w) PROVE OneTimesOut'
  <2>1. crashed = {}
    <3>1. ASSUME NEW v, crashed = {v} PROVE FALSE
      <4>1. Cardinality({v}) = 1
        BY FS_Singleton
      <4> QED  BY <1>4, <3>1, <4>1 DEF Crash
    <3> QED  BY <3>1
  <2> QED  BY <1>4, <2>1 DEF Crash
<1>5. ASSUME NEW w \in Worker, Consume(w) PROVE OneTimesOut'
  BY <1>5 DEF Consume, Begin, Refuse, Finish, Ends, Stalled, Take, WorkerStep
<1>6. CASE UNCHANGED vars
  BY <1>6 DEF vars
<1> QED  BY <1>1, <1>2, <1>3, <1>4, <1>5, <1>6 DEF Next

\* Moved jobs arrive, since the only queue to be forgotten is the one that
\* they are moved from, and it is forgotten last.
LEMMA ArrivesStep ==
  ASSUME IInv, OneTimesOut, MoveArrives, [Next]_vars
  PROVE  MoveArrives'
<1> USE DEF MoveArrives
<1>1. ASSUME NEW a \in Action, Dispatch(a) PROVE MoveArrives'
  BY <1>1 DEF Dispatch, Create, Select, Selected, NoneSelected, Add, Added, Reject,
     DispatchAt
<1>2. ASSUME NEW c \in Check, HealthCheck(c) PROVE MoveArrives'
  <2>1. Home(c) \in Process
    BY DEF Home
  <2>2. CASE FindTimedOut(c)
    BY <2>2 DEF FindTimedOut
  <2>3. CASE Refresh(c)
    <3>1. UNCHANGED requeue /\ \A p \in Process : known[p] \subseteq known'[p]
      BY <2>1, <2>3 DEF Refresh, IInv, TypeOK
    <3> QED  BY <3>1, MoveFields DEF IInv
  <2>4. ASSUME NEW w \in Worker, Retire(c, w) PROVE MoveArrives'
    BY <2>4 DEF Retire
  <2>5. ASSUME NEW w \in Worker, ListJobs(c, w) PROVE MoveArrives'
    BY <2>5 DEF ListJobs
  <2>6. ASSUME NEW w \in Worker, Forget(c, w) PROVE MoveArrives'
    <3>1. ASSUME NEW m \in requeue PROVE FALSE
      <4>1. retiring[m.check][m.from] = "jobs" /\ m.check \in Check /\ m.from \in Worker
        BY MoveFields DEF IInv, CheckInv, MovesListed
      <4>2. m.check = c
        BY <2>6, <4>1 DEF Forget, IInv, CheckInv, RetiresInCheck, OneCheck
      <4>3. m.from = w
        BY <2>6, <4>1 DEF Forget, OneTimesOut
      <4> QED  BY <2>6, <4>2, <4>3 DEF Forget
    <3> QED  BY <2>6, <3>1 DEF Forget
  <2>7. ASSUME NEW m \in requeue, RemoveJob(m) \/ Readd(m) PROVE MoveArrives'
    <3>1. ASSUME NEW n \in requeue', n.pc = "add" PROVE n \in requeue
      BY <2>7, <3>1, MoveFields DEF RemoveJob, Readd, Moves, IInv, Move
    <3>2. UNCHANGED known
      BY <2>7 DEF RemoveJob, Readd, Moves
    <3> QED  BY <3>1, <3>2
  <2>8. ASSUME NEW m \in requeue, Reselect(m) PROVE MoveArrives'
    <3>1. UNCHANGED known
      BY <2>8 DEF Reselect, Moves
    <3>2. CASE requeue' = requeue \ {m}
      BY <3>1, <3>2
    <3>3. ASSUME NEW w \in LeastLoaded(Home(m.check)),
                 requeue' = (requeue \ {m}) \cup {[m EXCEPT !.pc = "add", !.to = w]}
          PROVE  MoveArrives'
      <4>1. w \in known[Home(m.check)]
        BY DEF LeastLoaded, Candidates
      <4>2. [m EXCEPT !.pc = "add", !.to = w].to = w
            /\ [m EXCEPT !.pc = "add", !.to = w].check = m.check
        BY MoveFields DEF IInv, Move
      <4> QED  BY <3>1, <3>3, <4>1, <4>2
    <3> QED  BY <2>8, <3>2, <3>3 DEF Reselect, Moves
  <2> QED  BY <1>2, <2>2, <2>3, <2>4, <2>5, <2>6, <2>7, <2>8 DEF HealthCheck
<1>3. ASSUME NEW w \in Worker,
             Start(w) \/ Heartbeat(w) \/ Lapse(w) \/ Crash(w) \/ Consume(w)
      PROVE  MoveArrives'
  BY <1>3 DEF Start, Heartbeat, Lapse, Crash, Consume, Begin, Refuse, Finish, Ends,
     Stalled, Take, WorkerStep
<1>4. CASE UNCHANGED vars
  BY <1>4 DEF vars
<1> QED  BY <1>1, <1>2, <1>3, <1>4 DEF Next

\* Where an action is, or will be: in a queue or on its way to one.
Kept(a) ==
    \/ \E w \in Worker : queue[w][a] # "none"
    \/ \E m \in requeue : m.action = a

\* An action stays pending and kept through the steps of a healthCheck.
LEMMA KeptCheck ==
  ASSUME IInv, MoveArrives, NoLostAction, NEW c \in Check, HealthCheck(c)
  PROVE  NoLostAction'
<1> USE DEF Kept
<1> SUFFICES ASSUME NEW a \in Action, row'[a] = "PENDING", dpc'[a] = "accepted"
             PROVE  Kept(a)'
  BY DEF NoLostAction
<1>1. row[a] = "PENDING" /\ dpc[a] = "accepted"
  <2>1. dpc' = dpc \/ dpc' = [dpc EXCEPT ![c] = "reselect"]
    BY DEF HealthCheck, FindTimedOut, Refresh, Retire, ListJobs, Forget, RemoveJob,
       Reselect, Readd, Moves
  <2>2. row' = row \/ \E m \in requeue : row' = [row EXCEPT ![m.action] = "UNPROCESSABLE"]
    BY DEF HealthCheck, FindTimedOut, Refresh, Retire, ListJobs, Forget, RemoveJob,
       Reselect, Readd
  <2> QED  BY <2>1, <2>2, MoveFields DEF IInv, TypeOK
<1>2. Kept(a)
  BY <1>1 DEF NoLostAction
<1>3. CASE FindTimedOut(c) \/ Refresh(c)
  BY <1>2, <1>3 DEF FindTimedOut, Refresh
<1>4. ASSUME NEW w \in Worker, Retire(c, w) \/ ListJobs(c, w) \/ Forget(c, w)
      PROVE  Kept(a)'
  BY <1>2, <1>4 DEF Retire, ListJobs, Forget
<1>5. ASSUME NEW m \in requeue, RemoveJob(m) \/ Reselect(m) \/ Readd(m)
      PROVE  Kept(a)'
  <2>1. m \in Move /\ m.from \in Worker /\ m.action \in Action /\ Home(m.check) \in Process
    BY MoveFields DEF IInv
  <2>2. CASE m.action # a
    <3>1. \A w \in Worker : queue'[w][a] = queue[w][a]
      <4>1. CASE RemoveJob(m) \/ Reselect(m)
        <5>1. queue' = queue \/ queue' = [queue EXCEPT ![m.from][m.action] = "none"]
          BY <4>1 DEF RemoveJob, Reselect
        <5>2. queue \in [Worker -> [Action -> JobState]]
          BY DEF IInv, TypeOK
        <5>3. CASE queue' = [queue EXCEPT ![m.from][m.action] = "none"]
          BY <2>1, <2>2, <5>2, <5>3
        <5> QED  BY <5>1, <5>3
      <4>2. CASE Readd(m)
        <5>1. AddJob(Home(m.check), m.to, m.action)
          BY <4>2 DEF Readd
        <5> QED  BY <2>1, <2>2, <5>1 DEF AddJob, IInv, TypeOK
      <4> QED  BY <1>5, <4>1, <4>2
    <3>2. \A n \in requeue : n.action = a => n \in requeue'
      BY <1>5, <2>2 DEF RemoveJob, Reselect, Readd, Moves
    <3> QED  BY <1>2, <3>1, <3>2
  <2>3. CASE m.action = a /\ RemoveJob(m)
    <3>1. CASE m.from \in up /\ run[m.from] = m.action
      <4>1. step[m.from] # "idle"
        BY <2>1, <3>1 DEF IInv, TypeOK
      <4>2. queue[m.from][a] = "active" /\ UNCHANGED queue
        BY <2>1, <2>3, <3>1, <4>1 DEF RemoveJob, IInv, WorkerInv, Locked
      <4> QED  BY <2>1, <4>2
    <3>2. CASE ~(m.from \in up /\ run[m.from] = m.action)
      <4>1. [m EXCEPT !.pc = "select"].action = a
        BY <2>1, <2>3 DEF Move
      <4> QED  BY <2>3, <3>2, <4>1 DEF RemoveJob, Moves
    <3> QED  BY <3>1, <3>2
  <2>4. CASE m.action = a /\ Reselect(m)
    <3>1. ~(row' = [row EXCEPT ![m.action] = "UNPROCESSABLE"])
      BY <2>1, <2>4 DEF IInv, TypeOK
    <3>2. PICK w : [m EXCEPT !.pc = "add", !.to = w] \in requeue'
      BY <2>4, <3>1 DEF Reselect, Moves
    <3>3. [m EXCEPT !.pc = "add", !.to = w].action = a
      BY <2>1, <2>4 DEF Move
    <3> QED  BY <3>2, <3>3
  <2>5. CASE m.action = a /\ Readd(m)
    <3>1. m.to \in known[Home(m.check)] /\ m.to \in Worker
      BY <2>1, <2>5 DEF Readd, MoveArrives, IInv, TypeOK
    <3>2. queue'[m.to][a] # "none"
      BY <2>1, <2>5, <3>1 DEF Readd, AddJob, IInv, TypeOK
    <3> QED  BY <3>1, <3>2
  <2> QED  BY <1>5, <2>2, <2>3, <2>4, <2>5
<1> QED  BY <1>3, <1>4, <1>5 DEF HealthCheck

\* An action stays pending and kept through any step.
LEMMA KeptStep ==
  ASSUME IInv, MoveArrives, NoLostAction, [Next]_vars
  PROVE  NoLostAction'
<1> USE DEF NoLostAction
<1>1. ASSUME NEW b \in Action, Dispatch(b) PROVE NoLostAction'
  <2> SUFFICES ASSUME NEW a \in Action, row'[a] = "PENDING", dpc'[a] = "accepted"
               PROVE  Kept(a)'
    BY DEF Kept
  <2>1. CASE a # b
    <3>1. Kept(a)
      BY <1>1, <2>1, DispatchFrame DEF Kept
    <3> QED  BY <1>1, <2>1, <3>1, DispatchFrame DEF Kept
  <2>2. CASE a = b
    <3>1. ~(Create(b) \/ Select(b) \/ Reject(b))
      BY <2>2 DEF Create, Select, Selected, NoneSelected, Reject, DispatchAt, IInv, TypeOK
    <3>2. Add(b)
      BY <1>1, <3>1 DEF Dispatch
    <3>3. dto[b] \in known[Backend] /\ AddJob(Backend, dto[b], b)
      BY <2>2, <3>2 DEF Add, Added, DispatchAt, IInv, TypeOK
    <3>4. dto[b] \in Worker /\ queue'[dto[b]][b] # "none"
      BY <3>3 DEF AddJob, IInv, TypeOK
    <3> QED  BY <2>2, <3>4 DEF Kept
  <2> QED  BY <2>1, <2>2
<1>2. ASSUME NEW c \in Check, HealthCheck(c) PROVE NoLostAction'
  BY <1>2, KeptCheck
<1>3. ASSUME NEW w \in Worker, Start(w) \/ Heartbeat(w) \/ Lapse(w) \/ Crash(w)
      PROVE  NoLostAction'
  BY <1>3 DEF Start, Heartbeat, Lapse, Crash
<1>4. ASSUME NEW w \in Worker, Consume(w) PROVE NoLostAction'
  <2>1. UNCHANGED <<dpc, requeue>>
    BY <1>4 DEF Consume, Begin, Refuse, Finish, Ends, Stalled, Take, WorkerStep
  <2>2. ASSUME NEW a \in Action, Stalled(w, a) \/ Take(w, a) PROVE NoLostAction'
    <3>1. \A v \in Worker, b \in Action : queue[v][b] # "none" => queue'[v][b] # "none"
      <4>1. PICK s \in {"wait", "active"} : queue' = [queue EXCEPT ![w][a] = s]
        BY <2>2 DEF Stalled, Take
      <4> QED  BY <4>1 DEF IInv, TypeOK
    <3> QED  BY <2>1, <2>2, <3>1 DEF Stalled, Take
  <2>3. CASE Begin(w) \/ Refuse(w) \/ Finish(w)
    <3>1. run[w] \in Action
      BY <2>3, RunAccepted DEF Begin, Refuse, Finish
    <3>2. /\ row'[run[w]] # "PENDING"
          /\ \A a \in Action \ {run[w]} :
                row'[a] = row[a] /\ \A v \in Worker : queue'[v][a] = queue[v][a]
      <4>1. CASE Begin(w)
        BY <3>1, <4>1 DEF Begin, IInv, TypeOK
      <4>2. CASE Refuse(w) \/ Finish(w)
        <5>1. PICK s \in Settled : row' = [row EXCEPT ![run[w]] = s]
          BY <4>2 DEF Refuse, Finish, Ends, Settled
        <5>2. queue' = [queue EXCEPT ![w][run[w]] = "none"]
          BY <4>2 DEF Refuse, Finish, Ends
        <5> QED  BY <3>1, <5>1, <5>2 DEF Settled, IInv, TypeOK
      <4> QED  BY <2>3, <4>1, <4>2
    <3> QED  BY <2>1, <3>2
  <2> QED  BY <1>4, <2>2, <2>3 DEF Consume
<1>5. CASE UNCHANGED vars
  BY <1>5 DEF vars
<1> QED  BY <1>1, <1>2, <1>3, <1>4, <1>5 DEF Next

\* When healthChecks do not overlap, live workers send their heartbeats in time
\* and at most one worker crashes, an accepted action that is still PENDING has
\* a job, or a healthCheck has it in hand.
THEOREM NoneLost ==
  ASSUME Overlap = FALSE, Lapses = FALSE, MaxCrashes \in {0, 1}
  PROVE  Spec => []NoLostAction
<1>1. Init => KeepInv
  BY DEF Init, KeepInv, OneTimesOut, MoveArrives, NoLostAction
<1>2. IInv /\ KeepInv /\ [Next]_vars => KeepInv'
  BY TimesOutStep, ArrivesStep, KeptStep DEF KeepInv
<1>3. KeepInv => NoLostAction
  BY DEF KeepInv
<1> QED  BY <1>1, <1>2, <1>3, Inductive, PTL DEF Spec

-----------------------------------------------------------------------------
(***************************************************************************)
(* The workers together implement ActionSchedule.                          *)
(***************************************************************************)
\* A row is there from the beginning of the dispatch, and stays STARTING while a
\* worker runs the action.
StateInv ==
    /\ \A a \in Action : (dpc[a] = "new") = (row[a] = "none")
    /\ \A w \in Worker : step[w] = "running" => row[run[w]] = "STARTING"

\* Who runs what is the same when no worker changed its step or its action.
LEMMA SameHosts ==
  ASSUME \A w \in Worker, a \in Action : Running(w, a)' = Running(w, a)
  PROVE  Hosts' = Hosts
BY DEF Hosts

\* Only the workers that run one action changed.
LEMMA HostsBut ==
  ASSUME NEW a \in Action, NEW S \in SUBSET Worker,
         \A v \in Worker : (step'[v] = "running" /\ run'[v] = a) = (v \in S),
         \A v \in Worker, b \in Action \ {a} :
            (step'[v] = "running" /\ run'[v] = b) = (step[v] = "running" /\ run[v] = b)
  PROVE  Hosts' = [Hosts EXCEPT ![a] = S]
<1>1. {v \in Worker : step'[v] = "running" /\ run'[v] = a} = S
  OBVIOUS
<1>2. ASSUME NEW b \in Action \ {a}
      PROVE  {v \in Worker : step'[v] = "running" /\ run'[v] = b}
             = {v \in Worker : step[v] = "running" /\ run[v] = b}
  BY <1>2
<1>3. DOMAIN Hosts = Action /\ DOMAIN Hosts' = Action
  BY DEF Hosts
<1>4. \A b \in Action :
         /\ Hosts'[b] = {v \in Worker : step'[v] = "running" /\ run'[v] = b}
         /\ Hosts[b] = {v \in Worker : step[v] = "running" /\ run[v] = b}
  BY DEF Hosts, Running
<1>5. Hosts'[a] = S /\ \A b \in Action \ {a} : Hosts'[b] = Hosts[b]
  BY <1>1, <1>2, <1>4
<1>6. Hosts' = [b \in Action |-> Hosts'[b]]
  BY DEF Hosts
<1> QED  BY <1>3, <1>5, <1>6

\* The schedule shows rows and running workers only.
LEMMA Hidden ==
  ASSUME row' = row, Hosts' = Hosts
  PROVE  UNCHANGED Schedule!vars
BY DEF Schedule!vars, Status

\* An action that nobody runs is given up, whoever writes its row.
LEMMA GivesUp ==
  ASSUME TypeOK, NEW a \in Action, row[a] # "none", Hosts' = Hosts,
         \A w \in Worker : ~Running(w, a),
         \E s \in {"FAILED", "UNPROCESSABLE"} : row' = [row EXCEPT ![a] = s]
  PROVE  Schedule!GiveUp(a)
<1>1. Hosts[a] = {}
  BY DEF Hosts
<1>2. Status[a] # "new"
  BY DEF Status, StatusOf
<1>3. Status' = [Status EXCEPT ![a] = "failed"]
  BY DEF Status, StatusOf, TypeOK
<1> QED  BY <1>1, <1>2, <1>3 DEF Schedule!GiveUp

\* A dispatch creates the row, gives it up, or shows nothing.
LEMMA DispatchKeeps ==
  ASSUME IInv, StateInv, NEW a \in Action, Dispatch(a)
  PROVE  /\ StateInv'
         /\ Schedule!Create(a) \/ Schedule!GiveUp(a) \/ UNCHANGED Schedule!vars
<1>1. /\ \A w \in Worker : step[w] # "idle" => run[w] \in Action \ {a}
      /\ UNCHANGED <<step, run>> /\ dpc[a] \notin {"accepted", "check"}
  BY RunAccepted, DispatchFrame DEF workerVars
<1>2. Hosts' = Hosts /\ \A w \in Worker : ~Running(w, a)
  BY <1>1, SameHosts DEF Running
<1>3. CASE Create(a)
  <2>1. dpc[a] = "new" /\ row[a] = "none" /\ row' = [row EXCEPT ![a] = "PENDING"]
        /\ dpc' = [dpc EXCEPT ![a] = "select"]
    BY <1>3 DEF Create, DispatchAt, StateInv
  <2>2. Status' = [Status EXCEPT ![a] = "pending"] /\ Status[a] = "new"
    BY <2>1 DEF Status, StatusOf, IInv, TypeOK
  <2>3. StateInv'
    BY <1>1, <2>1 DEF StateInv, IInv, TypeOK
  <2> QED  BY <1>2, <2>2, <2>3 DEF Schedule!Create
<1>4. ASSUME \E s \in {"FAILED", "UNPROCESSABLE"} : row' = [row EXCEPT ![a] = s],
             dpc[a] # "new", dpc'[a] # "new",
             \A b \in Action \ {a} : dpc'[b] = dpc[b]
      PROVE  StateInv' /\ Schedule!GiveUp(a)
  <2>1. row[a] # "none"
    BY <1>4 DEF StateInv
  <2>2. StateInv'
    BY <1>1, <1>4 DEF StateInv, IInv, TypeOK
  <2> QED  BY <1>2, <1>4, <2>1, <2>2, GivesUp DEF IInv
<1>5. CASE Reject(a)
  BY <1>4, <1>5 DEF Reject, DispatchAt, IInv, TypeOK
<1>6. CASE NoneSelected(a, "select", "check") \/ NoneSelected(a, "reselect", "reject")
  BY <1>4, <1>6 DEF NoneSelected, DispatchAt, IInv, TypeOK
<1>7. CASE Add(a) \/ Selected(a, "select", "add") \/ Selected(a, "reselect", "readd")
  <2>1. row' = row /\ dpc[a] # "new" /\ dpc'[a] # "new"
        /\ \A b \in Action \ {a} : dpc'[b] = dpc[b]
    BY <1>7 DEF Add, Added, Selected, DispatchAt, IInv, TypeOK
  <2> QED  BY <1>1, <1>2, <2>1, Hidden DEF StateInv
<1> QED  BY <1>3, <1>5, <1>6, <1>7 DEF Dispatch, Select

\* A healthCheck gives up an action that it holds, or shows nothing.
LEMMA CheckKeeps ==
  ASSUME IInv, StateInv, NEW c \in Check, HealthCheck(c)
  PROVE  /\ StateInv'
         /\ \/ \E a \in Action : Schedule!GiveUp(a)
            \/ UNCHANGED Schedule!vars
<1>1. UNCHANGED <<step, run>> /\ Hosts' = Hosts
  <2>1. UNCHANGED <<step, run>>
    BY DEF HealthCheck, FindTimedOut, Refresh, Retire, ListJobs, Forget, RemoveJob,
       Reselect, Readd, Moves
  <2> QED  BY <2>1, SameHosts DEF Running
<1>2. \A a \in Action : (dpc'[a] = "new") = (dpc[a] = "new")
  <2>1. CASE Refresh(c)
    <3>1. c \in Action => dpc[c] = "check"
      BY <2>1 DEF Refresh, IInv, CheckInv, DispatchWaits
    <3> QED  BY <2>1, <3>1 DEF Refresh, IInv, TypeOK
  <2>2. CASE dpc' = dpc
    BY <2>2
  <2> QED
    BY <2>1, <2>2 DEF HealthCheck, FindTimedOut, Retire, ListJobs, Forget, RemoveJob,
       Reselect, Readd, Moves
<1>3. CASE row' = row
  BY <1>1, <1>2, <1>3, Hidden DEF StateInv
<1>4. CASE row' # row
  <2>1. PICK m \in requeue : Reselect(m)
    BY <1>4 DEF HealthCheck, FindTimedOut, Refresh, Retire, ListJobs, Forget, RemoveJob,
       Readd
  <2>2. m.action \in Action /\ row' = [row EXCEPT ![m.action] = "UNPROCESSABLE"]
    BY <1>4, <2>1, MoveFields DEF Reselect, IInv
  <2>3. \A w \in Worker : step[w] # "idle" => run[w] # m.action
    BY <2>1 DEF Reselect, Held, IInv, PlaceInv, MoveWhere, WorkerInv, Locked
  <2>4. row[m.action] # "none"
    BY <2>2 DEF StateInv, IInv, PlaceInv, MovesAccepted
  <2>5. StateInv'
    BY <1>1, <1>2, <2>2, <2>3, <2>4 DEF StateInv, IInv, TypeOK
  <2> QED  BY <1>1, <2>2, <2>3, <2>4, <2>5, GivesUp DEF Running, IInv
<1> QED  BY <1>3, <1>4

\* A worker starts, ends, loses or refuses its action, or shows nothing.
LEMMA WorkerKeeps ==
  ASSUME IInv, StateInv, NEW w \in Worker,
         Start(w) \/ Heartbeat(w) \/ Lapse(w) \/ Crash(w) \/ Consume(w)
  PROVE  /\ StateInv'
         /\ \/ \E a \in Action :
                 \/ Schedule!Start(a, w) \/ Schedule!Finish(a, w)
                 \/ Schedule!Lose(a, w) \/ Schedule!GiveUp(a)
            \/ UNCHANGED Schedule!vars
<1>0. dpc' = dpc
  BY DEF Start, Heartbeat, Lapse, Crash, Consume, Begin, Refuse, Finish, Ends, Stalled,
     Take, WorkerStep
<1>1. CASE UNCHANGED <<row, step, run>>
  BY <1>0, <1>1, SameHosts, Hidden DEF StateInv, Running
<1>2. CASE Start(w) \/ Heartbeat(w) \/ Lapse(w) \/ \E a \in Action : Stalled(w, a)
  BY <1>1, <1>2 DEF Start, Heartbeat, Lapse, Stalled
<1>3. \A v \in Worker, a \in Action : Running(v, a) /\ v # w /\ step[w] # "idle" => a # run[w]
  BY RunDistinct DEF Running
<1>4. \A v \in Worker : step[v] = "running" => row[run[v]] = "STARTING" /\ run[v] \in Action
  BY RunAccepted DEF StateInv
<1>5. CASE Crash(w)
  <2>1. /\ row' = row /\ run'[w] = NoAction /\ step'[w] = "idle"
        /\ \A v \in Worker \ {w} : step'[v] = step[v] /\ run'[v] = run[v]
    BY <1>5 DEF Crash, IInv, TypeOK
  <2>2. StateInv'
    BY <1>0, <2>1 DEF StateInv
  <2>3. CASE step[w] # "running"
    <3>1. Hosts' = Hosts
      BY <2>1, <2>3, SameHosts DEF Running
    <3> QED  BY <2>1, <2>2, <3>1, Hidden
  <2>4. CASE step[w] = "running"
    <3>1. run[w] \in Action /\ Status[run[w]] = "started" /\ Status' = Status
      BY <1>4, <2>1, <2>4 DEF Status, StatusOf
    <3>2. Hosts[run[w]] = {w}
      BY <1>3, <2>4, <3>1 DEF Hosts, Running
    <3>3. \A v \in Worker : ~(step'[v] = "running" /\ run'[v] = run[w])
      BY <1>3, <2>1, <2>4, <3>1 DEF Running
    <3>4. \A v \in Worker, b \in Action \ {run[w]} :
            (step'[v] = "running" /\ run'[v] = b) = (step[v] = "running" /\ run[v] = b)
      BY <2>1, <3>1 DEF Running
    <3>5. PICK a \in Action : a = run[w]
      BY <3>1
    <3>6. Hosts' = [Hosts EXCEPT ![a] = {}]
      <4>1. \A v \in Worker : (step'[v] = "running" /\ run'[v] = a) = (v \in {})
        BY <3>3, <3>5
      <4> QED  BY <3>4, <3>5, <4>1, HostsBut
    <3> QED  BY <2>2, <3>1, <3>2, <3>5, <3>6 DEF Schedule!Lose
  <2> QED  BY <2>3, <2>4
<1>6. ASSUME NEW a \in Action, Take(w, a)
      PROVE  StateInv' /\ UNCHANGED Schedule!vars
  <2>1. /\ row' = row /\ step[w] = "idle" /\ step'[w] = "took"
        /\ \A v \in Worker \ {w} : step'[v] = step[v] /\ run'[v] = run[v]
    BY <1>6 DEF Take, IInv, TypeOK
  <2>2. Hosts' = Hosts
    BY <2>1, SameHosts DEF Running
  <2> QED  BY <1>0, <2>1, <2>2, Hidden DEF StateInv
<1>7. ASSUME Begin(w) \/ Refuse(w) \/ Finish(w)
      PROVE  /\ run[w] \in Action /\ step[w] # "idle" /\ row[run[w]] # "none"
             /\ \A v \in Worker \ {w} : step'[v] = step[v] /\ run'[v] = run[v]
  <2>1. step[w] # "idle"
    BY <1>7 DEF Begin, Refuse, Finish
  <2>2. run[w] \in Action /\ dpc[run[w]] = "accepted"
    BY <2>1, RunAccepted
  <2>3. row[run[w]] # "none"
    BY <2>2 DEF StateInv
  <2>4. \A v \in Worker \ {w} : step'[v] = step[v] /\ run'[v] = run[v]
    <3>1. CASE Begin(w)
      BY <3>1 DEF Begin, IInv, TypeOK
    <3>2. CASE Refuse(w) \/ Finish(w)
      <4>1. step' = [step EXCEPT ![w] = "idle"] /\ run' = [run EXCEPT ![w] = NoAction]
        BY <3>2 DEF Refuse, Finish, Ends
      <4> QED  BY <4>1 DEF IInv, TypeOK
    <3> QED  BY <1>7, <3>1, <3>2
  <2> QED  BY <2>1, <2>2, <2>3, <2>4
<1>8. CASE Begin(w)
  <2>1. /\ step[w] = "took" /\ step'[w] = "running" /\ run' = run
        /\ row[run[w]] = "PENDING" /\ row' = [row EXCEPT ![run[w]] = "STARTING"]
    BY <1>8 DEF Begin, IInv, TypeOK, WorkerInv, SeenTrue
  <2>2. Status[run[w]] = "pending" /\ Status' = [Status EXCEPT ![run[w]] = "started"]
    BY <1>7, <1>8, <2>1 DEF Status, StatusOf, IInv, TypeOK
  <2>3. Hosts[run[w]] = {}
    BY <1>3, <1>7, <1>8, <2>1 DEF Hosts, Running
  <2>4. Hosts' = [Hosts EXCEPT ![run[w]] = {w}]
    <3>1. \A v \in Worker : (step'[v] = "running" /\ run'[v] = run[w]) = (v \in {w})
      BY <1>3, <1>7, <1>8, <2>1 DEF Running
    <3>2. \A v \in Worker, b \in Action \ {run[w]} :
            (step'[v] = "running" /\ run'[v] = b) = (step[v] = "running" /\ run[v] = b)
      BY <1>7, <1>8, <2>1 DEF Running
    <3>3. PICK a \in Action : a = run[w]
      BY <1>7, <1>8
    <3>4. Hosts' = [Hosts EXCEPT ![a] = {w}]
      BY <3>1, <3>2, <3>3, HostsBut
    <3> QED  BY <3>3, <3>4
  <2>5. StateInv'
    BY <1>0, <1>4, <1>7, <1>8, <2>1 DEF StateInv, IInv, TypeOK
  <2> QED  BY <1>7, <1>8, <2>2, <2>3, <2>4, <2>5 DEF Schedule!Start
<1>9. ASSUME Refuse(w) \/ Finish(w),
             NEW s \in Settled, row' = [row EXCEPT ![run[w]] = s]
      PROVE  StateInv' /\ step'[w] = "idle"
  <2>1. step'[w] = "idle"
    BY <1>9 DEF Refuse, Finish, Ends, IInv, TypeOK
  <2>2. \A a \in Action : (row'[a] = "none") = (row[a] = "none")
    BY <1>7, <1>9 DEF IInv, TypeOK, Settled
  <2>3. ASSUME NEW v \in Worker, step'[v] = "running"
        PROVE  row'[run'[v]] = "STARTING"
    <3>1. v # w /\ step[v] = "running" /\ run'[v] = run[v]
      BY <1>7, <1>9, <2>1, <2>3
    <3>2. run[v] \in Action \ {run[w]}
      BY <1>3, <1>4, <1>7, <1>9, <3>1 DEF Running
    <3> QED  BY <1>4, <1>9, <3>1, <3>2 DEF IInv, TypeOK
  <2> QED  BY <1>0, <2>1, <2>2, <2>3 DEF StateInv
<1>10. CASE Refuse(w)
  <2>1. step[w] = "took" /\ row' = [row EXCEPT ![run[w]] = "FAILED"]
    BY <1>10 DEF Refuse, Ends
  <2>2. StateInv' /\ step'[w] = "idle"
    BY <1>9, <1>10, <2>1 DEF Settled
  <2>3. Hosts' = Hosts /\ \A v \in Worker : ~Running(v, run[w])
    BY <1>3, <1>7, <1>10, <2>1, <2>2, SameHosts DEF Running
  <2> QED  BY <1>7, <1>10, <2>1, <2>2, <2>3, GivesUp DEF IInv
<1>11. CASE Finish(w)
  <2>1. step[w] = "running"
    BY <1>11 DEF Finish
  <2>2. PICK s \in {"DONE", "FAILED"} : row' = [row EXCEPT ![run[w]] = s]
    BY <1>11 DEF Finish, Ends
  <2>3. StateInv' /\ step'[w] = "idle"
    BY <1>9, <1>11, <2>2 DEF Settled
  <2>4. /\ Status[run[w]] = "started"
        /\ \E t \in {"done", "failed"} : Status' = [Status EXCEPT ![run[w]] = t]
    <3>1. Status[run[w]] = "started"
      BY <1>4, <1>7, <1>11, <2>1 DEF Status, StatusOf
    <3>2. Status' = [Status EXCEPT ![run[w]] = StatusOf(s)]
      BY <1>7, <1>11, <2>2 DEF Status, IInv, TypeOK
    <3>3. StatusOf(s) \in {"done", "failed"}
      BY DEF StatusOf
    <3> QED  BY <3>1, <3>2, <3>3
  <2>5. Hosts[run[w]] = {w}
    BY <1>3, <1>7, <1>11, <2>1 DEF Hosts, Running
  <2>6. Hosts' = [Hosts EXCEPT ![run[w]] = {}]
    <3>1. \A v \in Worker : ~(step'[v] = "running" /\ run'[v] = run[w])
      BY <1>3, <1>7, <1>11, <2>1, <2>3 DEF Running
    <3>2. \A v \in Worker, b \in Action \ {run[w]} :
            (step'[v] = "running" /\ run'[v] = b) = (step[v] = "running" /\ run[v] = b)
      BY <1>7, <1>11, <2>1, <2>3 DEF Running
    <3>3. PICK a \in Action : a = run[w]
      BY <1>7, <1>11
    <3>4. Hosts' = [Hosts EXCEPT ![a] = {}]
      <4>1. \A v \in Worker : (step'[v] = "running" /\ run'[v] = a) = (v \in {})
        BY <3>1, <3>3
      <4> QED  BY <3>2, <3>3, <4>1, HostsBut
    <3> QED  BY <3>3, <3>4
  <2> QED  BY <1>7, <1>11, <2>3, <2>4, <2>5, <2>6 DEF Schedule!Finish
<1> QED  BY <1>2, <1>5, <1>6, <1>8, <1>10, <1>11 DEF Consume

\* Any step of ActionDispatch is one of the schedule or none of its business.
LEMMA StepKeepsSchedule ==
  ASSUME IInv, StateInv, [Next]_vars
  PROVE  StateInv' /\ [Schedule!Next]_Schedule!vars
<1>1. CASE \E a \in Action : Dispatch(a)
  BY <1>1, DispatchKeeps DEF Schedule!Next
<1>2. CASE \E c \in Check : HealthCheck(c)
  BY <1>2, CheckKeeps DEF Schedule!Next
<1>3. CASE \E w \in Worker :
             Start(w) \/ Heartbeat(w) \/ Lapse(w) \/ Crash(w) \/ Consume(w)
  BY <1>3, WorkerKeeps DEF Schedule!Next
<1>4. CASE UNCHANGED vars
  BY <1>4, SameHosts, Hidden DEF vars, StateInv, Running
<1> QED  BY <1>1, <1>2, <1>3, <1>4 DEF Next

\* When healthChecks do not overlap, the workers together keep the schedule,
\* however many of them there are, crash, or are taken for dead while they run:
\* an action starts at most once and is settled by the worker that runs it.
THEOREM WorkersKeepSchedule ==
  ASSUME Overlap = FALSE
  PROVE  Spec => KeepsSchedule
<1>1. Init => Schedule!Init /\ StateInv
  BY DEF Init, Schedule!Init, Status, StatusOf, Hosts, Running, StateInv
<1>2. IInv /\ StateInv /\ [Next]_vars => StateInv' /\ [Schedule!Next]_Schedule!vars
  BY StepKeepsSchedule
<1> QED  BY <1>1, <1>2, Inductive, PTL DEF Spec, KeepsSchedule, Schedule!Spec
=============================================================================
