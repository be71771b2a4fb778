--------------------------- MODULE TriggersProofs ---------------------------
(***************************************************************************)
(* That a trigger runs once for a job, for any sets of backends, triggers, *)
(* missions and requests, any number of ticks, faults and attempts.        *)
(***************************************************************************)
EXTENDS Triggers, TLAPS

\* An execution of a job holds it; a change has no job before it is announced.
JobHeld == \A j \in Job : ipc[j] # "idle" => job[j] = "active"
NotAnnounced == \A e \in Change : cpc[e] # "done" => job[e] = "none"

\* The attempts of a job that has not ended are not used up.
AttemptsLeft ==
    \A j \in Job : job[j] \in {"none", "wait", "active"} => tries[j] < Attempts

\* A patch that is to be saved has read its trigger.
PatchRead == \A p \in Patch : ppc[p] = "save" => patched[p] # <<>>

\* A job has lost its execution, or had, only if the consumer died.
LostByFault ==
    \A j \in Job : j \in stalled \/ (job[j] = "active" /\ ipc[j] = "idle") => faults > 0

JobInv == JobHeld /\ NotAnnounced /\ AttemptsLeft /\ PatchRead /\ LostByFault

\* An execution of i may dispatch t: it goes on to do so, or it is to come.
ToRun(t, i) ==
    \/ i \in Job /\ job[i] \in {"none", "wait"}
    \/ i \in Hook /\ ipc[i] = "idle"
    \/ ipc[i] \in {"file", "list"}
    \/ ipc[i] = "loop" /\ t \in todo[i]

\* The runs of a job whose first execution was lost.
Lost(i) == IF i \in stalled THEN 1 ELSE 0

\* Nothing was run yet that an execution may run, but by the one that was lost.
RunInv ==
    \A t \in Trigger, i \in Id :
        /\ runs[<<t, i>>] <= Lost(i) + 1
        /\ ToRun(t, i) => runs[<<t, i>>] <= Lost(i)

IInv == TypeOK /\ JobInv /\ RunInv

-----------------------------------------------------------------------------
USE TriggerAssumption
USE DEF clock, changes, patches, queue, exec, bounds, history

\* Division by a positive number is monotonic.
LEMMA DivMonotonic ==
  ASSUME NEW a \in Nat, NEW b \in Nat, NEW d \in Nat \ {0}, a <= b
  PROVE  /\ a \div d \in Nat /\ b \div d \in Nat
         /\ a \div d <= b \div d
<1>1. a \div d \in Nat /\ b \div d \in Nat
  OBVIOUS
<1>2. d * (a \div d) <= a /\ b < d * (b \div d) + d
  OBVIOUS
<1>3. ASSUME NEW x \in Nat, NEW y \in Nat, y < x PROVE d * y + d <= d * x
  <2>1. d * (y + 1) <= d * x
    BY <1>3
  <2> QED
    BY <2>1
<1> QED
  BY <1>1, <1>2, <1>3

\* The ids of jobs and hooks differ, and so do those of minutes and changes.
LEMMA Ids ==
  /\ Minute \subseteq Job /\ Change \subseteq Job /\ Job \subseteq Id /\ Hook \subseteq Id
  /\ Job \cap Hook = {} /\ Minute \cap Change = {} /\ Id = Job \cup Hook
BY DEF Job, Id

\* There is a last minute.
LEMMA LastMinute == LastTick \div Phases \in Nat
OBVIOUS

\* The minute of a tick is one of the minutes.
LEMMA MinuteOf ==
  ASSUME NEW n \in 0..LastTick
  PROVE  n \div Phases \in Minute /\ n \div Phases + 1 \in 0..(LastTick \div Phases + 1)
<1>1. n \div Phases <= LastTick \div Phases /\ n \div Phases \in Nat
      /\ LastTick \div Phases \in Nat
  BY DivMonotonic
<1> QED
  BY <1>1 DEF Minute

\* A request's configuration is one of a trigger.
LEMMA SettingRows ==
  ASSUME NEW s \in Setting, NEW m \in Mission
  PROVE  RowOf(s, m) \in Row
<1>1. s \in [type : Type, cron : SUBSET Minute, names : SUBSET Name, events : SUBSET Event]
  OBVIOUS
<1> QED
  BY <1>1 DEF RowOf, Row

\* Nothing was created, queued or run yet.
LEMMA InitIInv ==
  ASSUME Init
  PROVE  IInv
<1> USE DEF Init
<1>2. /\ file \in File \cup {NoFile} /\ event \in [Change -> Event]
      /\ at \in [Minute -> Nat] /\ runs \in [Trigger \X Id -> 0..(1 + MaxFaults)]
  BY DEF Event
<1>3. TypeOK
  BY LastMinute, <1>2, Ids DEF TypeOK
<1>4. JobInv
  BY Ids DEF JobInv, JobHeld, NotAnnounced, AttemptsLeft, PatchRead, LostByFault
<1>5. RunInv
  BY Ids DEF RunInv, ToRun, Lost
<1> QED
  BY <1>3, <1>4, <1>5 DEF IInv

\* The clock goes on.
LEMMA TickStep ==
  ASSUME IInv, Tick
  PROVE  IInv'
<1> USE DEF Tick
<1>1. TypeOK'
  BY Ids DEF IInv, TypeOK
<1>2. JobInv'
  BY Ids
  DEF IInv, TypeOK, JobInv, JobHeld, NotAnnounced, AttemptsLeft, PatchRead,
      LostByFault
<1>3. RunInv'
  BY Ids DEF IInv, TypeOK, JobInv, JobHeld, RunInv, ToRun, Lost
<1> QED
  BY <1>1, <1>2, <1>3 DEF IInv

\* A trigger is created.
LEMMA CreateStep ==
  ASSUME IInv, NEW t \in Trigger, Create(t)
  PROVE  IInv'
<1> USE DEF Create, Request, RowOf
<1>1. TypeOK'
  <2>1. PICK s \in Setting, m \in Mission : row' = [row EXCEPT ![t] = RowOf(s, m)]
    OBVIOUS
  <2>2. RowOf(s, m) \in Row
    BY SettingRows
  <2> HIDE DEF RowOf
  <2> QED
    BY <2>1, <2>2 DEF IInv, TypeOK
<1>2. JobInv'
  BY Ids
  DEF IInv, TypeOK, JobInv, JobHeld, NotAnnounced, AttemptsLeft, PatchRead,
      LostByFault
<1>3. RunInv'
  BY Ids DEF IInv, TypeOK, JobInv, JobHeld, RunInv, ToRun, Lost
<1> QED
  BY <1>1, <1>2, <1>3 DEF IInv

\* A trigger is deleted.
LEMMA DeleteStep ==
  ASSUME IInv, NEW t \in Trigger, Delete(t)
  PROVE  IInv'
<1> USE DEF Delete, Request, Exists
<1>1. TypeOK'
  BY Ids DEF IInv, TypeOK
<1>2. JobInv'
  BY Ids
  DEF IInv, TypeOK, JobInv, JobHeld, NotAnnounced, AttemptsLeft, PatchRead,
      LostByFault
<1>3. RunInv'
  BY Ids DEF IInv, TypeOK, JobInv, JobHeld, RunInv, ToRun, Lost
<1> QED
  BY <1>1, <1>2, <1>3 DEF IInv

\* An update reads its trigger.
LEMMA ReadTriggerStep ==
  ASSUME IInv, NEW p \in Patch, NEW t \in Trigger, ReadTrigger(p, t)
  PROVE  IInv'
<1> USE DEF ReadTrigger, Request, RowOf
<1>1. TypeOK'
  <2>1. PICK s \in Setting, m \in Mission : patched' = [patched EXCEPT ![p] = <<t, RowOf(s, m)>>]
    OBVIOUS
  <2>2. <<t, RowOf(s, m)>> \in Trigger \X Row
    BY SettingRows
  <2> HIDE DEF RowOf
  <2> QED
    BY <2>1, <2>2 DEF IInv, TypeOK
<1>2. JobInv'
  <2>1. PICK s \in Setting, m \in Mission : patched' = [patched EXCEPT ![p] = <<t, RowOf(s, m)>>]
    OBVIOUS
  <2>2. PatchRead'
    BY <2>1 DEF IInv, TypeOK, JobInv, PatchRead
  <2> QED
    BY <2>2 DEF IInv, JobInv, JobHeld, NotAnnounced, AttemptsLeft, LostByFault
<1>3. RunInv'
  BY Ids DEF IInv, TypeOK, JobInv, JobHeld, RunInv, ToRun, Lost
<1> QED
  BY <1>1, <1>2, <1>3 DEF IInv

\* It saves what it has read.
LEMMA SaveTriggerStep ==
  ASSUME IInv, NEW p \in Patch, SaveTrigger(p)
  PROVE  IInv'
<1> USE DEF SaveTrigger
<1>1. TypeOK'
  <2>1. patched[p] \in Trigger \X Row
    BY DEF IInv, TypeOK, JobInv, PatchRead
  <2>2. patched[p][1] \in Trigger /\ patched[p][2] \in Row
    BY <2>1
  <2> QED
    BY <2>2 DEF IInv, TypeOK
<1>2. JobInv'
  BY Ids
  DEF IInv, TypeOK, JobInv, JobHeld, NotAnnounced, AttemptsLeft, PatchRead,
      LostByFault
<1>3. RunInv'
  BY Ids DEF IInv, TypeOK, JobInv, JobHeld, RunInv, ToRun, Lost
<1> QED
  BY <1>1, <1>2, <1>3 DEF IInv

\* A backend adds the job of a minute, if there is none yet.
LEMMA AddCronCheckStep ==
  ASSUME IInv, NEW b \in Backend, AddCronCheck(b)
  PROVE  IInv'
<1> USE DEF AddCronCheck, NewId
<1> DEFINE m == now \div Phases
<1>0. /\ m \in Job /\ m \in Minute /\ m + 1 \in 0..(LastTick \div Phases + 1)
      /\ now \in Nat
  <2>1. now \in 0..LastTick /\ now \in Nat
    BY DEF IInv, TypeOK
  <2> QED
    BY <2>1, MinuteOf, Ids
<1>a. \/ /\ job[m] = "none"
         /\ job' = [job EXCEPT ![m] = "wait"] /\ at' = [at EXCEPT ![m] = now]
      \/ UNCHANGED <<job, at>>
  OBVIOUS
<1>b. /\ next' = [next EXCEPT ![b] = m + 1]
      /\ UNCHANGED <<now, row, changes, patches, tries, stalled, exec, bounds, history>>
  OBVIOUS
<1> HIDE DEF m, AddCronCheck
<1>1. TypeOK'
  <2>1. next' \in [Backend -> 0..(LastTick \div Phases + 1)]
    BY <1>0, <1>b DEF IInv, TypeOK
  <2>2. /\ job' \in [Job -> {"none", "wait", "active", "ended", "failed"}]
        /\ at' \in [Minute -> Nat]
        /\ \A j \in Job : job'[j] = "wait" => tries[j] < Attempts
    <3>1. tries[m] < Attempts \/ job' = job
      BY <1>0, <1>a DEF IInv, JobInv, AttemptsLeft
    <3>2. ASSUME NEW j \in Job, job'[j] = "wait" PROVE tries[j] < Attempts
      BY <1>0, <1>a, <3>1, <3>2 DEF IInv, TypeOK
    <3>3. job' \in [Job -> {"none", "wait", "active", "ended", "failed"}]
      BY <1>0, <1>a DEF IInv, TypeOK
    <3>4. at' \in [Minute -> Nat]
      BY <1>0, <1>a DEF IInv, TypeOK
    <3> QED
      BY <3>2, <3>3, <3>4
  <2> QED
    BY <1>b, <2>1, <2>2 DEF IInv, TypeOK
<1>2. JobInv'
  BY <1>0, <1>a, <1>b, Ids
  DEF IInv, TypeOK, JobInv, JobHeld, NotAnnounced, AttemptsLeft, PatchRead,
      LostByFault
<1>3. RunInv'
  <2>1. ASSUME NEW t \in Trigger, NEW i \in Id, ToRun(t, i)'
        PROVE  ToRun(t, i)
    BY <1>0, <1>a, <1>b, <2>1, Ids DEF IInv, TypeOK, ToRun
  <2> QED
    BY <1>b, <2>1 DEF IInv, RunInv, Lost
<1> QED
  BY <1>1, <1>2, <1>3 DEF IInv

\* The file changes.
LEMMA ChangeFileStep ==
  ASSUME IInv, NEW e \in Change, ChangeFile(e)
  PROVE  IInv'
<1> USE DEF ChangeFile, Request
<1>1. TypeOK'
  <2>1. file' \in File
    <3>1. CASE file' \in File
      BY <3>1
    <3>2. CASE file.live /\ ~(file' \in File)
      <4>1. file \in File
        BY <3>2 DEF IInv, TypeOK, NoFile
      <4> QED
        BY <3>2, <4>1 DEF File
    <3> QED
      BY <3>1, <3>2
  <2>2. event' \in [Change -> Event]
    BY DEF IInv, TypeOK, Event
  <2>3. cpc' \in [Change -> {"new", "add", "done"}]
    BY DEF IInv, TypeOK
  <2>4. UNCHANGED <<clock, row, patches, queue, exec, faults, history>>
    OBVIOUS
  <2>5. requests' \in 0..MaxRequests
    BY DEF IInv, TypeOK
  <2> HIDE DEF ChangeFile
  <2> QED
    BY <2>1, <2>2, <2>3, <2>4, <2>5 DEF IInv, TypeOK
<1>2. JobInv'
  BY Ids
  DEF IInv, TypeOK, JobInv, JobHeld, NotAnnounced, AttemptsLeft, PatchRead,
      LostByFault
<1>3. RunInv'
  BY Ids DEF IInv, TypeOK, JobInv, JobHeld, RunInv, ToRun, Lost
<1> QED
  BY <1>1, <1>2, <1>3 DEF IInv

\* The change is announced; it has no job yet.
LEMMA AddFileEventStep ==
  ASSUME IInv, NEW e \in Change, AddFileEvent(e)
  PROVE  IInv'
<1> USE DEF AddFileEvent
<1>1. TypeOK'
  <2>1. e \in Job /\ job[e] = "none" /\ tries[e] < Attempts
    BY Ids DEF IInv, TypeOK, JobInv, NotAnnounced, AttemptsLeft
  <2> QED
    BY <2>1 DEF IInv, TypeOK
<1>2. JobInv'
  <2>1. e \in Job /\ job[e] = "none" /\ tries[e] < Attempts /\ ipc[e] = "idle"
    BY Ids DEF IInv, TypeOK, JobInv, JobHeld, NotAnnounced, AttemptsLeft
  <2> QED
    BY <2>1, Ids
    DEF IInv, TypeOK, JobInv, JobHeld, NotAnnounced, AttemptsLeft, PatchRead,
        LostByFault
<1>3. RunInv'
  <2>1. e \in Job /\ job[e] = "none"
    BY Ids DEF IInv, JobInv, NotAnnounced
  <2>2. ASSUME NEW t \in Trigger, NEW i \in Id, ToRun(t, i)'
        PROVE  ToRun(t, i)
    BY <2>1, <2>2, Ids DEF IInv, TypeOK, ToRun
  <2> QED
    BY <2>2 DEF IInv, RunInv, Lost
<1> QED
  BY <1>1, <1>2, <1>3 DEF IInv

\* The processor takes a job.
LEMMA TakeStep ==
  ASSUME IInv, NEW j \in Job, Take(j)
  PROVE  IInv'
<1> USE DEF Take, ExecAt
<1>1. TypeOK'
  BY Ids DEF IInv, TypeOK
<1>2. JobInv'
  BY Ids
  DEF IInv, TypeOK, JobInv, JobHeld, NotAnnounced, AttemptsLeft, PatchRead,
      LostByFault
<1>3. RunInv'
  <2>1. ASSUME NEW t \in Trigger, NEW i \in Id, ToRun(t, i)'
        PROVE  ToRun(t, i)
    BY <2>1, Ids DEF IInv, TypeOK, ToRun
  <2> QED
    BY <2>1 DEF IInv, RunInv, Lost
<1> QED
  BY <1>1, <1>2, <1>3 DEF IInv

\* It reads the file of the event.
LEMMA ReadFileStep ==
  ASSUME IInv, NEW e \in Change, ReadFile(e)
  PROVE  IInv'
<1> USE DEF ReadFile, ExecAt
<1>1. TypeOK'
  BY Ids DEF IInv, TypeOK
<1>2. JobInv'
  BY Ids
  DEF IInv, TypeOK, JobInv, JobHeld, NotAnnounced, AttemptsLeft, PatchRead,
      LostByFault
<1>3. RunInv'
  BY Ids DEF IInv, TypeOK, JobInv, JobHeld, RunInv, ToRun, Lost
<1> QED
  BY <1>1, <1>2, <1>3 DEF IInv

\* It lists the triggers that match.
LEMMA ListStep ==
  ASSUME IInv, NEW j \in Job, List(j)
  PROVE  IInv'
<1> USE DEF List, ExecAt
<1>1. TypeOK'
  <2>1. Listed(j) \subseteq Trigger
    BY DEF Listed, OfType
  <2> HIDE DEF Listed
  <2> QED
    BY <2>1, Ids DEF IInv, TypeOK
<1>2. JobInv'
  BY Ids
  DEF IInv, TypeOK, JobInv, JobHeld, NotAnnounced, AttemptsLeft, PatchRead,
      LostByFault
<1>3. RunInv'
  BY Ids DEF IInv, TypeOK, JobInv, JobHeld, RunInv, ToRun, Lost
<1> QED
  BY <1>1, <1>2, <1>3 DEF IInv

\* A read fails, before anything was dispatched.
LEMMA ReadFailsStep ==
  ASSUME IInv, NEW j \in Job, ReadFails(j)
  PROVE  IInv'
<1> USE DEF ReadFails, ExecAt, Fault, Forget, Retried
<1>0. j \in Id /\ job[j] = "active" /\ tries[j] \in Nat /\ tries[j] + 1 \in 0..Attempts
      /\ (j \in Minute /\ tries[j] + 1 < Attempts => tries[j] + 1 < Attempts)
  BY Ids DEF IInv, TypeOK, JobInv, JobHeld, AttemptsLeft
<1>1. TypeOK'
  <2>1. faults' \in 0..MaxFaults
    BY DEF IInv, TypeOK
  <2>2. /\ ipc' \in [Id -> {"idle", "file", "list", "loop", "done"}]
        /\ seen' \in [Change -> File \cup {NoFile}]
    BY DEF IInv, TypeOK
  <2>3. /\ tries' \in [Job -> 0..Attempts]
        /\ job' \in [Job -> {"none", "wait", "active", "ended", "failed"}]
    BY <1>0 DEF IInv, TypeOK
  <2>4. ASSUME NEW k \in Job, job'[k] = "wait" PROVE tries'[k] < Attempts
    BY <1>0, <2>4 DEF IInv, TypeOK
  <2> QED
    BY <2>1, <2>2, <2>3, <2>4 DEF IInv, TypeOK
<1>2. JobInv'
  <2>1. JobHeld' /\ NotAnnounced'
    BY <1>0, Ids DEF IInv, TypeOK, JobInv, JobHeld, NotAnnounced
  <2>2. ASSUME NEW k \in Job, job'[k] \in {"none", "wait", "active"}
        PROVE  tries'[k] < Attempts
    BY <1>0, <2>2 DEF IInv, TypeOK, JobInv, AttemptsLeft
  <2>3. PatchRead' /\ LostByFault'
    BY <1>0, Ids DEF IInv, TypeOK, JobInv, PatchRead, LostByFault
  <2> QED
    BY <2>1, <2>2, <2>3 DEF JobInv, AttemptsLeft
<1>3. RunInv'
  <2>1. ASSUME NEW t \in Trigger, NEW i \in Id, ToRun(t, i)'
        PROVE  ToRun(t, i)
    BY <1>0, <2>1, Ids DEF IInv, TypeOK, ToRun
  <2> QED
    BY <2>1 DEF IInv, RunInv, Lost
<1> QED
  BY <1>1, <1>2, <1>3 DEF IInv

\* A trigger is dispatched: it was to run, and will not run again.
LEMMA DispatchStep ==
  ASSUME IInv, NEW i \in Id, Dispatch(i)
  PROVE  IInv'
<1> USE DEF Dispatch, ExecAt, Fault
<1>0. PICK t \in todo[i] :
          /\ todo' = [todo EXCEPT ![i] = @ \ {t}]
          /\ \/ /\ runs' = [runs EXCEPT ![<<t, i>>] = @ + 1]
                /\ UNCHANGED <<denied, faults>>
             \/ /\ UNCHANGED faults \/ (faults < MaxFaults /\ faults' = faults + 1)
                /\ denied' = denied \cup {<<t, i>>}
                /\ UNCHANGED runs
  OBVIOUS
<1>a. /\ t \in Trigger /\ <<t, i>> \in Trigger \X Id /\ ToRun(t, i)
      /\ ipc[i] = "loop" /\ ipc' = ipc
      /\ UNCHANGED <<clock, row, changes, patches, requests, queue, seen>>
  BY DEF IInv, TypeOK, ToRun
<1>b. /\ runs[<<t, i>>] \in Nat /\ runs[<<t, i>>] <= Lost(i)
      /\ faults \in 0..MaxFaults /\ (i \in stalled => faults > 0)
  BY <1>a, Ids DEF IInv, TypeOK, RunInv, JobInv, LostByFault
<1> HIDE DEF Dispatch
<1>1. TypeOK'
  <2>1. todo' \in [Id -> SUBSET Trigger] /\ faults' \in 0..MaxFaults
        /\ denied' \subseteq Trigger \X Id
    BY <1>0, <1>a DEF IInv, TypeOK
  <2>2. runs[<<t, i>>] + 1 \in 0..(1 + MaxFaults)
    BY <1>b DEF Lost
  <2>3. runs' \in [Trigger \X Id -> 0..(1 + MaxFaults)]
    BY <1>0, <1>a, <2>2 DEF IInv, TypeOK
  <2> QED
    BY <1>a, <2>1, <2>3 DEF IInv, TypeOK
<1>2. JobInv'
  <2>1. faults \in Nat /\ (faults > 0 => faults' > 0)
    BY <1>0, <1>b
  <2>2. LostByFault'
    BY <1>a, <2>1 DEF IInv, JobInv, LostByFault
  <2> QED
    BY <1>a, <2>2 DEF IInv, JobInv, JobHeld, NotAnnounced, AttemptsLeft, PatchRead
<1>3. RunInv'
  <2> SUFFICES ASSUME NEW u \in Trigger, NEW k \in Id
               PROVE  /\ runs'[<<u, k>>] <= Lost(k) + 1
                      /\ ToRun(u, k)' => runs'[<<u, k>>] <= Lost(k)
    BY <1>a DEF RunInv, Lost
  <2>1. /\ <<u, k>> \in Trigger \X Id
        /\ runs[<<u, k>>] <= Lost(k) + 1
        /\ ToRun(u, k) => runs[<<u, k>>] <= Lost(k)
    BY DEF IInv, RunInv
  <2>2. ToRun(u, k)' => ToRun(u, k)
    BY <1>0, <1>a DEF IInv, TypeOK, ToRun
  <2>3. CASE <<u, k>> # <<t, i>>
    <3>1. runs'[<<u, k>>] = runs[<<u, k>>]
      BY <1>0, <1>a, <2>1, <2>3 DEF IInv, TypeOK
    <3> QED
      BY <2>1, <2>2, <3>1
  <2>4. CASE u = t /\ k = i
    <3>1. ~ToRun(u, k)'
      BY <2>4, <1>0, <1>a, Ids DEF IInv, TypeOK, ToRun, JobInv, JobHeld
    <3>2. runs'[<<t, i>>] \in {runs[<<t, i>>], runs[<<t, i>>] + 1}
      BY <1>0, <1>a DEF IInv, TypeOK
    <3>3. runs'[<<t, i>>] <= Lost(i) + 1
      BY <1>b, <3>2 DEF Lost
    <3> QED
      BY <2>4, <3>1, <3>3
  <2> QED
    BY <2>3, <2>4
<1> QED
  BY <1>1, <1>2, <1>3 DEF IInv

\* An execution ends.
LEMMA EndStep ==
  ASSUME IInv, NEW j \in Job, End(j)
  PROVE  IInv'
<1> USE DEF End, ExecAt, Forget
<1>1. TypeOK'
  <2>1. seen' \in [Change -> File \cup {NoFile}]
    BY DEF IInv, TypeOK
  <2> QED
    BY <2>1, Ids DEF IInv, TypeOK
<1>2. JobInv'
  <2>1. j \in Id /\ (j \in Change => cpc[j] = "done")
    BY Ids DEF IInv, JobInv, JobHeld, NotAnnounced
  <2> QED
    BY <2>1, Ids
    DEF IInv, TypeOK, JobInv, JobHeld, NotAnnounced, AttemptsLeft, PatchRead,
        LostByFault
<1>3. RunInv'
  <2>1. ASSUME NEW t \in Trigger, NEW i \in Id, ToRun(t, i)'
        PROVE  ToRun(t, i)
    BY <2>1, Ids DEF IInv, TypeOK, ToRun
  <2> QED
    BY <2>1 DEF IInv, RunInv, Lost
<1> QED
  BY <1>1, <1>2, <1>3 DEF IInv

\* A webhook is called.
LEMMA CallHookStep ==
  ASSUME IInv, NEW h \in Hook, NEW t \in Trigger, CallHook(h, t)
  PROVE  IInv'
<1> USE DEF CallHook, Request
<1>1. TypeOK'
  BY Ids DEF IInv, TypeOK
<1>2. JobInv'
  BY Ids
  DEF IInv, TypeOK, JobInv, JobHeld, NotAnnounced, AttemptsLeft, PatchRead,
      LostByFault
<1>3. RunInv'
  <2>1. ASSUME NEW u \in Trigger, NEW i \in Id, ToRun(u, i)'
        PROVE  ToRun(u, i)
    BY <2>1, Ids DEF IInv, TypeOK, ToRun
  <2> QED
    BY <2>1 DEF IInv, RunInv, Lost
<1> QED
  BY <1>1, <1>2, <1>3 DEF IInv

\* The call ends.
LEMMA HookEndsStep ==
  ASSUME IInv, NEW h \in Hook, HookEnds(h)
  PROVE  IInv'
<1> USE DEF HookEnds, ExecAt
<1>1. TypeOK'
  BY Ids DEF IInv, TypeOK
<1>2. JobInv'
  BY Ids
  DEF IInv, TypeOK, JobInv, JobHeld, NotAnnounced, AttemptsLeft, PatchRead,
      LostByFault
<1>3. RunInv'
  BY Ids DEF IInv, TypeOK, JobInv, JobHeld, RunInv, ToRun, Lost
<1> QED
  BY <1>1, <1>2, <1>3 DEF IInv

\* The consumer dies, and its executions with it.
LEMMA CrashStep ==
  ASSUME IInv, Crash
  PROVE  IInv'
<1> USE DEF Crash, Fault, Forget
<1>0. PICK S \in SUBSET {j \in Job : ipc[j] # "idle"} :
          /\ ipc' = [i \in Id |-> IF i \in S THEN "idle" ELSE ipc[i]]
          /\ todo' = [i \in Id |-> IF i \in S THEN {} ELSE todo[i]]
          /\ seen' = [e \in Change |-> IF e \in S THEN NoFile ELSE seen[e]]
  OBVIOUS
<1>a. /\ S \subseteq Job /\ \A j \in S : job[j] = "active"
      /\ faults' \in 0..MaxFaults /\ faults' > 0
      /\ UNCHANGED <<clock, row, changes, patches, queue, requests, history>>
  BY <1>0 DEF IInv, TypeOK, JobInv, JobHeld
<1> HIDE DEF Crash
<1>1. TypeOK'
  <2>1. /\ ipc' \in [Id -> {"idle", "file", "list", "loop", "done"}]
        /\ todo' \in [Id -> SUBSET Trigger]
        /\ seen' \in [Change -> File \cup {NoFile}]
    BY <1>0 DEF IInv, TypeOK
  <2> QED
    BY <1>a, <2>1 DEF IInv, TypeOK
<1>2. JobInv'
  BY <1>0, <1>a, Ids
  DEF IInv, TypeOK, JobInv, JobHeld, NotAnnounced, AttemptsLeft, PatchRead,
      LostByFault
<1>3. RunInv'
  <2>1. ASSUME NEW t \in Trigger, NEW i \in Id, ToRun(t, i)'
        PROVE  ToRun(t, i)
    BY <1>0, <1>a, <2>1, Ids DEF IInv, TypeOK, ToRun
  <2> QED
    BY <1>a, <2>1 DEF IInv, RunInv, Lost
<1> QED
  BY <1>1, <1>2, <1>3 DEF IInv

\* A job whose execution is lost is given back once: it may run once more.
LEMMA StalledStep ==
  ASSUME IInv, NEW j \in Job, Stalled(j)
  PROVE  IInv'
<1> USE DEF Stalled
<1>1. TypeOK'
  <2>1. tries[j] < Attempts
    BY DEF IInv, JobInv, AttemptsLeft
  <2> QED
    BY <2>1 DEF IInv, TypeOK
<1>2. JobInv'
  <2>1. faults > 0 /\ tries[j] < Attempts
    BY DEF IInv, JobInv, AttemptsLeft, LostByFault
  <2> QED
    BY <2>1, Ids
    DEF IInv, TypeOK, JobInv, JobHeld, NotAnnounced, AttemptsLeft, PatchRead,
        LostByFault
<1>3. RunInv'
  <2>1. ASSUME NEW t \in Trigger, NEW i \in Id
        PROVE  /\ Lost(i) <= Lost(i)'
               /\ i # j => (ToRun(t, i)' => ToRun(t, i))
    BY Ids DEF IInv, TypeOK, ToRun, Lost
  <2>2. CASE j \in stalled
    <3>1. ASSUME NEW t \in Trigger, NEW i \in Id, ToRun(t, i)'
          PROVE  ToRun(t, i)
      BY <2>2, <3>1, Ids DEF IInv, TypeOK, ToRun
    <3>2. stalled' = stalled
      BY <2>2
    <3> QED
      BY <3>1, <3>2 DEF IInv, RunInv, Lost
  <2>3. CASE j \notin stalled
    <3> SUFFICES ASSUME NEW t \in Trigger, NEW i \in Id
                 PROVE  /\ runs[<<t, i>>] <= Lost(i)' + 1
                        /\ ToRun(t, i)' => runs[<<t, i>>] <= Lost(i)'
      BY DEF RunInv
    <3>1. /\ runs[<<t, i>>] <= Lost(i) + 1
          /\ ToRun(t, i) => runs[<<t, i>>] <= Lost(i)
          /\ runs[<<t, i>>] \in Nat
      BY DEF IInv, TypeOK, RunInv
    <3>2. Lost(i) \in {0, 1} /\ Lost(i)' \in {0, 1}
      BY DEF Lost
    <3>3. CASE i = j
      <4>1. Lost(i) = 0 /\ Lost(i)' = 1
        BY <2>3, <3>3 DEF Lost
      <4> QED
        BY <3>1, <4>1
    <3>4. CASE i # j
      <4>1. Lost(i)' = Lost(i)
        BY <3>4 DEF Lost
      <4> QED
        BY <2>1, <3>1, <3>4, <4>1
    <3> QED
      BY <3>3, <3>4
  <2> QED
    BY <2>2, <2>3
<1> QED
  BY <1>1, <1>2, <1>3 DEF IInv

-----------------------------------------------------------------------------
\* Every step keeps the invariant.
LEMMA StepIInv ==
  ASSUME IInv, [Next]_vars
  PROVE  IInv'
<1>1. CASE Tick
  BY <1>1, TickStep
<1>2. CASE Crash
  BY <1>2, CrashStep
<1>3. CASE \E b \in Backend : AddCronCheck(b)
  BY <1>3, AddCronCheckStep
<1>4. CASE \E t \in Trigger : Create(t) \/ Delete(t)
  BY <1>4, CreateStep, DeleteStep
<1>5. CASE \E p \in Patch : SaveTrigger(p) \/ \E t \in Trigger : ReadTrigger(p, t)
  BY <1>5, SaveTriggerStep, ReadTriggerStep
<1>6. CASE \E e \in Change : ChangeFile(e) \/ AddFileEvent(e) \/ ReadFile(e)
  BY <1>6, ChangeFileStep, AddFileEventStep, ReadFileStep
<1>7. CASE \E j \in Job : Process(j) \/ Stalled(j)
  BY <1>7, TakeStep, ListStep, ReadFailsStep, EndStep, StalledStep DEF Process
<1>8. CASE \E i \in Id : Dispatch(i)
  BY <1>8, DispatchStep
<1>9. CASE \E h \in Hook : HookEnds(h) \/ \E t \in Trigger : CallHook(h, t)
  BY <1>9, HookEndsStep, CallHookStep
<1>10. CASE UNCHANGED vars
  BY <1>10 DEF vars, IInv, TypeOK, JobInv, JobHeld, NotAnnounced, AttemptsLeft,
               PatchRead, LostByFault, RunInv, ToRun, Lost
<1> QED
  BY <1>1, <1>2, <1>3, <1>4, <1>5, <1>6, <1>7, <1>8, <1>9, <1>10 DEF Next

\* The invariant bounds the runs of every trigger for every job and hook.
LEMMA RunsBounded ==
  ASSUME IInv
  PROVE  RunsOnce
<1> SUFFICES ASSUME NEW r \in Trigger \X Id
             PROVE  runs[r] <= IF r[2] \in stalled THEN 2 ELSE 1
  BY DEF RunsOnce
<1>1. PICK t \in Trigger, i \in Id : r = <<t, i>>
  OBVIOUS
<1>2. runs[<<t, i>>] <= Lost(i) + 1
  BY DEF IInv, RunInv
<1> QED
  BY <1>1, <1>2 DEF Lost

\* TriggerService, TriggerQueueProcessorProvider: whatever is requested, added,
\* read, dispatched or lost, every part of the state is what the code expects.
THEOREM TypeCorrect == Spec => []TypeOK
<1>1. IInv /\ [Next]_vars => IInv'
  BY StepIInv
<1>2. IInv => TypeOK
  BY DEF IInv
<1> QED
  BY InitIInv, <1>1, <1>2, PTL DEF Spec

\* trigger.service.ts:264: for any number of backends, triggers, jobs, failing
\* reads and crashes, a trigger runs once for a job, or twice if the consumer
\* died while it had the job.
THEOREM OneRun == Spec => []RunsOnce
<1>1. IInv /\ [Next]_vars => IInv'
  BY StepIInv
<1>2. IInv => RunsOnce
  BY RunsBounded
<1> QED
  BY InitIInv, <1>1, <1>2, PTL DEF Spec

=============================================================================
