------------------------------ MODULE Triggers ------------------------------
(***************************************************************************)
(* Action triggers: TriggerService of the backend, which checks the clock  *)
(* every minute and announces changes of files on a Bull queue, and the    *)
(* TriggerQueueProcessorProvider of the queueConsumer, which dispatches an *)
(* action for every trigger that matches.                                  *)
(*                                                                         *)
(* Time is counted in ticks, Phases of them to a minute; minute m begins   *)
(* at tick m * Phases.  A dispatch leaves an action row or is refused; see *)
(* ActionDispatch for what follows.                                        *)
(***************************************************************************)
EXTENDS Naturals, FiniteSets

CONSTANTS
    Backend,      \* instances of the backend
    Trigger,
    Mission, Name,
    Change,       \* changes of the file that are announced, one event each
    Hook,         \* calls of a webhook
    Patch,        \* updates of triggers
    Phases,       \* ticks of a minute
    LastTick,     \* bound: the clock stops there
    Setting,      \* types and configurations that requests ask for
    Attempts,     \* of a cron check: 3
    MaxRequests,  \* bound: requests of users
    MaxFaults     \* bound: crashes of the consumer, reads and dispatches that fail

Minute == 0..(LastTick \div Phases)
Job    == Minute \cup Change      \* Bull's ids: one per minute, one per event
Id     == Job \cup Hook
Event  == {"UPLOAD", "RENAME", "MOVE"}
Type   == {"TIME", "FILE", "WEBHOOK"}

ASSUME TriggerAssumption ==
    /\ Phases \in Nat \ {0} /\ LastTick \in Nat
    /\ Attempts \in Nat \ {0} /\ MaxRequests \in Nat /\ MaxFaults \in Nat
    /\ Minute \cap (Change \cup Hook) = {} /\ Change \cap Hook = {}
    /\ Setting \subseteq [type : Type, cron : SUBSET Minute, names : SUBSET Name,
                          events : SUBSET Event]

VARIABLES
    now, next,     \* the clock; the minute of a backend's next check
    row,           \* the rows of action_trigger
    file,          \* the row of a file
    cpc, event,    \* a change: its progress and its event
    ppc, patched,  \* a patch: its trigger, and the row it will save
    \* Bull
    job, at, tries, stalled,
    \* an execution of a job, or a webhook call
    ipc, todo, seen,
    faults, requests,
    runs, denied   \* history: the action rows, and the dispatches refused

vars == <<now, next, row, file, cpc, event, ppc, patched, job, at, tries, stalled,
          ipc, todo, seen, faults, requests, runs, denied>>
clock   == <<now, next>>
changes == <<file, cpc, event>>
patches == <<ppc, patched>>
queue   == <<job, at, tries, stalled>>
exec    == <<ipc, todo, seen>>
bounds  == <<faults, requests>>
history == <<runs, denied>>

NoRow == [type |-> "none"]      \* before the trigger is created
Gone  == [type |-> "deleted"]
Row   == [type : Type, cron : SUBSET Minute, names : SUBSET Name,
          events : SUBSET Event, mission : Mission]
Exists(t) == row[t] \notin {NoRow, Gone}

NoFile == [live |-> FALSE]
File   == [live : {TRUE}, mission : Mission, name : Name]

TypeOK ==
    /\ now \in 0..LastTick
    /\ next \in [Backend -> 0..(LastTick \div Phases + 1)]
    /\ row \in [Trigger -> Row \cup {NoRow, Gone}]
    /\ file \in File \cup {NoFile}
    /\ cpc \in [Change -> {"new", "add", "done"}]
    /\ event \in [Change -> Event]
    /\ ppc \in [Patch -> {"new", "save", "done"}]
    /\ patched \in [Patch -> (Trigger \X Row) \cup {<<>>}]
    /\ job \in [Job -> {"none", "wait", "active", "ended", "failed"}]
    /\ at \in [Minute -> Nat]
    /\ tries \in [Job -> 0..Attempts]
    /\ \A j \in Job : job[j] = "wait" => tries[j] < Attempts
    /\ stalled \subseteq Job
    /\ ipc \in [Id -> {"idle", "file", "list", "loop", "done"}]
    /\ todo \in [Id -> SUBSET Trigger]
    /\ seen \in [Change -> File \cup {NoFile}]
    /\ faults \in 0..MaxFaults /\ requests \in 0..MaxRequests
    /\ runs \in [Trigger \X Id -> 0..(1 + MaxFaults)]
    /\ denied \subseteq Trigger \X Id

\* validateConfig
Valid(s) ==
    /\ s.type = "TIME" => s.cron # {}
    /\ s.type = "FILE" => s.names # {}

Init ==
    /\ now = 0 /\ next = [b \in Backend |-> 0]
    /\ row = [t \in Trigger |-> NoRow]
    /\ file \in File \cup {NoFile}
    /\ cpc = [e \in Change |-> "new"] /\ event = [e \in Change |-> "UPLOAD"]
    /\ ppc = [p \in Patch |-> "new"]
    /\ patched = [p \in Patch |-> <<>>]
    /\ job = [j \in Job |-> "none"] /\ at = [m \in Minute |-> 0]
    /\ tries = [j \in Job |-> 0] /\ stalled = {}
    /\ ipc = [i \in Id |-> "idle"] /\ todo = [i \in Id |-> {}]
    /\ seen = [e \in Change |-> NoFile]
    /\ faults = 0 /\ requests = 0
    /\ runs = [r \in Trigger \X Id |-> 0] /\ denied = {}

-----------------------------------------------------------------------------
(***************************************************************************)
(* Requests about triggers.                                                *)
(***************************************************************************)
\* A request, one of the first MaxRequests.
Request == requests < MaxRequests /\ requests' = requests + 1

RowOf(s, m) ==
    [type |-> s.type, cron |-> s.cron, names |-> s.names, events |-> s.events,
     mission |-> m]

Create(t) ==
    /\ Request
    /\ row[t] = NoRow
    /\ \E s \in Setting, m \in Mission :
          Valid(s) /\ row' = [row EXCEPT ![t] = RowOf(s, m)]
    /\ UNCHANGED <<clock, changes, patches, queue, exec, faults, history>>

\* update: what the request carries replaces what was read.
ReadTrigger(p, t) ==
    /\ Request
    /\ ppc[p] = "new" /\ Exists(t)
    /\ \E s \in Setting, m \in Mission :
          Valid(s) /\ patched' = [patched EXCEPT ![p] = <<t, RowOf(s, m)>>]
    /\ ppc' = [ppc EXCEPT ![p] = "save"]
    /\ UNCHANGED <<clock, row, changes, queue, exec, faults, history>>

\* save leaves every column as it is in the entity, and inserts the row again
\* if it is gone.
SaveTrigger(p) ==
    /\ ppc[p] = "save"
    /\ ppc' = [ppc EXCEPT ![p] = "done"]
    /\ row' = [row EXCEPT ![patched[p][1]] = patched[p][2]]
    /\ patched' = [patched EXCEPT ![p] = <<>>]
    /\ UNCHANGED <<clock, changes, queue, exec, bounds, history>>

Delete(t) ==
    /\ Request
    /\ Exists(t)
    /\ row' = [row EXCEPT ![t] = Gone]
    /\ UNCHANGED <<clock, changes, patches, queue, exec, faults, history>>

-----------------------------------------------------------------------------
(***************************************************************************)
(* What is added to the queue.                                             *)
(***************************************************************************)
Tick ==
    /\ now < LastTick
    /\ now' = now + 1
    /\ UNCHANGED <<next, row, changes, patches, queue, exec, bounds, history>>

\* Mutant of NewId: jobs that ended were removed (removeOnComplete: true).
NewOrEnded(m) == job[m] \in {"none", "ended"}

\* A job is added unless its id is known; the last 100 that ended are kept.
NewId(m) == job[m] = "none"

\* addCronCheck, on each backend, as soon as the minute began or later.
AddCronCheck(b) ==
    /\ now >= next[b] * Phases
    /\ next' = [next EXCEPT ![b] = now \div Phases + 1]
    /\ LET m == now \div Phases
       IN  IF NewId(m)
           THEN job' = [job EXCEPT ![m] = "wait"] /\ at' = [at EXCEPT ![m] = now]
           ELSE UNCHANGED <<job, at>>
    /\ UNCHANGED <<now, row, changes, patches, tries, stalled, exec, bounds, history>>

\* confirmUpload, update and moveFiles write the row, and announce the change
\* afterwards.
ChangeFile(e) ==
    /\ Request
    /\ cpc[e] = "new"
    /\ cpc' = [cpc EXCEPT ![e] = "add"]
    /\ \/ /\ ~file.live /\ file' \in File
          /\ event' = [event EXCEPT ![e] = "UPLOAD"]
       \/ /\ file.live
          /\ \E n \in Name \ {file.name} : file' = [file EXCEPT !.name = n]
          /\ event' = [event EXCEPT ![e] = "RENAME"]
       \/ /\ file.live
          /\ \E m \in Mission \ {file.mission} : file' = [file EXCEPT !.mission = m]
          /\ event' = [event EXCEPT ![e] = "MOVE"]
    /\ UNCHANGED <<clock, row, patches, queue, exec, faults, history>>

AddFileEvent(e) ==
    /\ cpc[e] = "add"
    /\ cpc' = [cpc EXCEPT ![e] = "done"]
    /\ job' = [job EXCEPT ![e] = "wait"]
    /\ UNCHANGED <<clock, row, file, event, patches, at, tries, stalled, exec,
                   bounds, history>>

-----------------------------------------------------------------------------
(***************************************************************************)
(* The processor.                                                          *)
(***************************************************************************)
\* Mutant of Fires: the window is a tick shorter than a minute.
FiresSoon(cron, t) == \E p \in cron : p * Phases < t /\ p * Phases + Phases - 1 > t

\* handleCronCheck: the last scheduled time before t is less than a minute ago.
\* CronExpressionParser's prev lies strictly before the time it is given.
Fires(cron, t) == \E p \in cron : p * Phases < t /\ p * Phases + Phases > t

\* handleFileEvent, for the file f.
Matches(t, e, f) ==
    /\ row[t].mission = f.mission
    /\ event[e] \in row[t].events
    /\ row[t].names = {} \/ f.name \in row[t].names

OfType(y) == {t \in Trigger : row[t].type = y}

Listed(j) ==
    IF j \in Minute THEN {t \in OfType("TIME") : Fires(row[t].cron, at[j])}
    ELSE {t \in OfType("FILE") : Matches(t, j, seen[j])}

\* A fault, one of the first MaxFaults.
Fault == faults < MaxFaults /\ faults' = faults + 1

ExecAt(i, from, to) ==
    /\ ipc[i] = from
    /\ ipc' = [ipc EXCEPT ![i] = to]
    /\ UNCHANGED <<clock, row, changes, patches, requests>>

\* What an execution has read is gone with it.
Forget(S) == seen' = [e \in Change |-> IF e \in S THEN NoFile ELSE seen[e]]

Take(j) ==
    /\ job[j] = "wait"
    /\ job' = [job EXCEPT ![j] = "active"]
    /\ ExecAt(j, "idle", IF j \in Change THEN "file" ELSE "list")
    /\ UNCHANGED <<at, tries, stalled, todo, seen, faults, history>>

ReadFile(e) ==
    /\ ExecAt(e, "file", "list")
    /\ seen' = [seen EXCEPT ![e] = file]
    /\ UNCHANGED <<queue, todo, faults, history>>

\* A file that is gone has no mission: nothing is listed.
List(j) ==
    /\ ExecAt(j, "list", "loop")
    /\ todo' = [todo EXCEPT ![j] =
                  IF j \in Change /\ ~seen[j].live THEN {} ELSE Listed(j)]
    /\ UNCHANGED <<queue, seen, faults, history>>

\* Mutant of Retried: one attempt more.
RetriedOnceMore(j) == j \in Minute /\ tries[j] < Attempts

Retried(j) == j \in Minute /\ tries[j] + 1 < Attempts

\* A read fails, and with it the attempt.
ReadFails(j) ==
    /\ Fault /\ ipc[j] \in {"file", "list"}
    /\ ExecAt(j, ipc[j], "idle") /\ Forget({j})
    /\ tries' = [tries EXCEPT ![j] = @ + 1]
    /\ job' = [job EXCEPT ![j] = IF Retried(j) THEN "wait" ELSE "failed"]
    /\ UNCHANGED <<at, stalled, todo, history>>

\* dispatchAction: the row of the action refers to the trigger's, which must
\* still be there; a refusal is caught.
Dispatch(i) ==
    /\ \E t \in todo[i] :
          /\ todo' = [todo EXCEPT ![i] = @ \ {t}]
          /\ \/ /\ Exists(t)
                /\ runs' = [runs EXCEPT ![<<t, i>>] = @ + 1]
                /\ UNCHANGED <<denied, faults>>
             \/ /\ (~Exists(t) /\ UNCHANGED faults) \/ Fault
                /\ denied' = denied \cup {<<t, i>>}
                /\ UNCHANGED runs
    /\ ExecAt(i, "loop", "loop")
    /\ UNCHANGED <<queue, seen>>

End(j) ==
    /\ todo[j] = {}
    /\ job' = [job EXCEPT ![j] = "ended"]
    /\ ExecAt(j, "loop", "idle") /\ Forget({j})
    /\ UNCHANGED <<at, tries, stalled, todo, faults, history>>

\* triggerWebhook
CallHook(h, t) ==
    /\ row[t].type = "WEBHOOK"
    /\ Request
    /\ ipc[h] = "idle" /\ ipc' = [ipc EXCEPT ![h] = "loop"]
    /\ todo' = [todo EXCEPT ![h] = {t}]
    /\ UNCHANGED <<clock, row, changes, patches, queue, seen, faults, history>>

HookEnds(h) ==
    /\ todo[h] = {}
    /\ ExecAt(h, "loop", "done")
    /\ UNCHANGED <<queue, todo, seen, faults, history>>

Process(j) == Take(j) \/ List(j) \/ ReadFails(j) \/ End(j)

\* The consumer dies; Bull gives its jobs back once.
Crash ==
    /\ Fault
    /\ \E S \in SUBSET {j \in Job : ipc[j] # "idle"} :
          /\ S # {}
          /\ ipc' = [i \in Id |-> IF i \in S THEN "idle" ELSE ipc[i]]
          /\ todo' = [i \in Id |-> IF i \in S THEN {} ELSE todo[i]]
          /\ Forget(S)
    /\ UNCHANGED <<clock, row, changes, patches, queue, requests, history>>

Stalled(j) ==
    /\ job[j] = "active" /\ ipc[j] = "idle"
    /\ job' = [job EXCEPT ![j] = IF j \in stalled THEN "failed" ELSE "wait"]
    /\ stalled' = stalled \cup {j}
    /\ UNCHANGED <<clock, row, changes, patches, at, tries, exec, bounds, history>>

-----------------------------------------------------------------------------
Next ==
    \/ Tick \/ Crash
    \/ \E b \in Backend : AddCronCheck(b)
    \/ \E t \in Trigger : Create(t) \/ Delete(t)
    \/ \E p \in Patch : SaveTrigger(p) \/ \E t \in Trigger : ReadTrigger(p, t)
    \/ \E e \in Change : ChangeFile(e) \/ AddFileEvent(e) \/ ReadFile(e)
    \/ \E j \in Job : Process(j) \/ Stalled(j)
    \/ \E i \in Id : Dispatch(i)
    \/ \E h \in Hook : HookEnds(h) \/ \E t \in Trigger : CallHook(h, t)

Spec == Init /\ [][Next]_vars

\* Bull hands out its jobs and the executions go on; nothing is expected of the
\* clock, the backends, users and faults.
FairSpec ==
    /\ Spec
    /\ \A j \in Job : WF_vars(Process(j) \/ Dispatch(j)) /\ WF_vars(Stalled(j))
    /\ \A e \in Change : WF_vars(ReadFile(e))

-----------------------------------------------------------------------------
\* trigger.service.ts:264 "to ensure that if multiple backend instances are
\* running, they don't produce duplicate jobs": a trigger runs once for a minute
\* and once for a change, whatever the instances add and however often the
\* attempts fail; twice only if the consumer died in between.
RunsOnce ==
    \A r \in Trigger \X Id : runs[r] <= IF r[2] \in stalled THEN 2 ELSE 1

\* The trigger is to run for a job: a minute of its schedule, unless the check
\* was made at its very first tick, or a change of its mission's file.
Due(t, j) ==
    IF j \in Minute
    THEN row[t].type = "TIME" /\ j \in row[t].cron /\ at[j] > j * Phases
    ELSE row[t].type = "FILE" /\ file.live /\ Matches(t, j, file)

\* Once the job is queued every trigger that is due is dispatched, or the
\* dispatch is refused, or something changed in between: one that fails does
\* not take the others with it.
DueIsDispatched ==
    \A t \in Trigger, j \in Job :
        job[j] = "wait" /\ Due(t, j) ~>
            runs[<<t, j>>] > 0 \/ <<t, j>> \in denied \/ ~Due(t, j)
            \/ job[j] = "failed"
=============================================================================
