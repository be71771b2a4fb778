-------------------------- MODULE ActionRunnerProofs --------------------------
(***************************************************************************)
(* The safety properties of ActionRunner, for any set of actions, any      *)
(* number of crashes and restarts, with and without faults.                *)
(*                                                                         *)
(* None of the properties is inductive: each writer of a row relies on     *)
(* what the container, the job and the handlers can be at that point.      *)
(* IInv spells that out, one named part per relation.                      *)
(***************************************************************************)
EXTENDS ActionRunner, TLAPS

\* A row that is still PENDING has no container, and neither has an action
\* between its state guard and createContainer.
FreshInv ==
    /\ \A a \in Action : row[a] = "PENDING" => box[a] = "none"
    /\ pc = "check" /\ seen = "PENDING" => box[cur] = "none"
    /\ pc \in {"key", "image", "create"} => row[cur] # "PENDING"

\* The job of the executed action is active; once a handler runs, the job
\* cannot be taken again.
JobInv ==
    /\ pc # "idle" => job[cur] = "active" /\ handler[cur] = "none"
    /\ \A a \in Action :
          /\ handler[a] = "failed" => job[a] \in {"delayed", "failed"}
          /\ handler[a] \notin {"none", "failed"} => job[a] = "none"

\* A container has an exit code only after it ended and is removed only if it
\* was there; the execution is past the wait only when it ended.
BoxInv ==
    /\ \A a \in Action :
          /\ exitCode[a] # "none" => box[a] \in {"exited", "gone"}
          /\ removing[a] => box[a] # "none"
          /\ boxGen[a] \leq gen
    /\ pc = "launch" => box[cur] \in {"created", "gone"}
    /\ pc \in {"stop", "inspect", "upload", "dispose", "complete"}
          => box[cur] \in {"exited", "gone"}

\* After setActionState, until the completion handler has saved: exit code 0,
\* or a row that can only be FAILED or deleted.
OutcomeInv ==
    /\ pc \in {"upload", "dispose", "complete"} =>
          exitCode[cur] = "zero" \/ row[cur] \in {"FAILED", "DELETED"}
    /\ \A a \in Action :
          /\ handler[a] = "saveDone" => exitCode[a] = "zero"
          /\ handler[a] = "completed" =>
                exitCode[a] = "zero" \/ row[a] \in {"FAILED", "DELETED"}

\* A running container of the live process is awaited or its row is marked.
OwnedInv ==
    \A a \in Action :
        up /\ box[a] = "running" /\ boxGen[a] = gen =>
            \/ cur = a /\ pc \in {"info", "wait", "caught"}
            \/ row[a] \in {"FAILED", "DELETED"}

\* What the Janitor remembers stays true: the containers it listed exist, the
\* doomed ones are expired or foreign, the one it reaps is marked.
JanitorInv ==
    /\ ~up => /\ jpc = "idle" /\ jseen = {} /\ jdoomed = {} /\ jzombie = {}
              /\ pc = "idle"
    /\ \A a \in jseen \cup jdoomed \cup jzombie : box[a] # "none"
    /\ \A a \in jdoomed : late[a] \/ boxGen[a] # gen
    /\ jpc = "reap" =>
          /\ box[jcur] # "none"
          /\ box[jcur] \in {"created", "running"} =>
                row[jcur] \in {"FAILED", "DELETED"}

IInv ==
    /\ TypeOK
    /\ KeyScoped
    /\ StartsOnce
    /\ FreshInv
    /\ JobInv
    /\ BoxInv
    /\ OutcomeInv
    /\ DoneMeansExitZero
    /\ OwnedInv
    /\ JanitorInv

-----------------------------------------------------------------------------
\* What every leaf below expands: the tuples of the frame conditions and the
\* operators the actions are built from.
USE RunnerAssumption
USE DEF dbVars, queueVars, boxVars, procVars, runVars, janitorVars, Update,
        UpdateArtifacts, KillAndRemove, Goto, RunEnds, Handle, Listed, Die,
        NotFound

(***************************************************************************)
(* The initial states.                                                     *)
(***************************************************************************)
\* The runner starts with pending actions, waiting jobs and no container.
LEMMA InitIInv == Init => IInv
  BY DEF Init, IInv, TypeOK, KeyScoped, StartsOnce, FreshInv, JobInv, BoxInv,
     OutcomeInv, DoneMeansExitZero, OwnedInv, JanitorInv, Pc, Row,
     ActionState, Artifacts, KeyState, JobState, BoxState, ExitCode,
     HandlerState, KeySteps, TrySteps

(***************************************************************************)
(* Every step preserves every part: one lemma per part, one step per group *)
(* of actions (per action where the part needs it).                        *)
(***************************************************************************)
\* A dying process leaves its memory empty.
LEMMA DieTypes ==
  ASSUME TypeOK, Die, crashes' \in Nat
  PROVE  TypeOK'
<1> USE DEF TypeOK
<1>1. key' \in [Action -> KeyState] /\ handler' \in [Action -> HandlerState]
  BY DEF KeyState, HandlerState
<1>2. /\ row' = row /\ artifacts' = artifacts /\ job' = job
      /\ stalls' = stalls /\ box' = box /\ boxGen' = boxGen
      /\ exitCode' = exitCode /\ late' = late /\ removing' = removing
      /\ gen' = gen /\ inactive' = inactive
  OBVIOUS
<1>3. /\ up' \in BOOLEAN /\ cur' = NoAction /\ pc' = "idle"
      /\ seen' \in Row /\ pc' \in Pc
  BY DEF Row, ActionState, Pc
<1>4. /\ jpc' = "idle" /\ jcur' = NoAction
      /\ jseen' = {} /\ jdoomed' = {} /\ jzombie' = {} /\ jcrash' = {}
  OBVIOUS
<1> HIDE DEF Die
<1> QED  BY <1>1, <1>2, <1>3, <1>4

\* Types, one action at a time.
LEMMA TypeOKStep ==
  ASSUME TypeOK, [Next]_vars
  PROVE  TypeOK'
<1> USE DEF Pc, Row, ActionState, Artifacts, KeyState,
            JobState, BoxState, ExitCode,
            HandlerState, KeySteps, TrySteps
<1>1. CASE Execution
  <2>1. CASE Check
    BY <2>1 DEF Check, TypeOK
  <2>2. CASE CreateKey
    BY <2>2 DEF CreateKey, TypeOK
  <2>3. CASE OnProcessing
    BY <2>3 DEF OnProcessing, TypeOK
  <2>4. CASE CreateContainer
    BY <2>4 DEF CreateContainer, TypeOK
  <2>5. CASE StartContainer
    BY <2>5 DEF StartContainer, TypeOK
  <2>6. CASE ContainerInfo
    BY <2>6 DEF ContainerInfo, TypeOK
  <2>7. CASE WaitReturns
    BY <2>7 DEF WaitReturns, TypeOK
  <2>8. CASE Stop
    BY <2>8 DEF Stop, TypeOK
  <2>9. CASE SetActionState
    BY <2>9 DEF SetActionState, TypeOK
  <2>10. CASE UploadArtifacts
    BY <2>10 DEF UploadArtifacts, TypeOK
  <2>11. CASE TryThrows
    BY <2>11 DEF TryThrows, TypeOK
  <2>12. CASE Catch
    BY <2>12 DEF Catch, TypeOK
  <2>13. CASE DisposeKey
    BY <2>13 DEF DisposeKey, TypeOK
  <2>14. CASE Complete
    BY <2>14 DEF Complete, TypeOK
  <2>15. CASE Throw
    BY <2>15 DEF Throw, TypeOK
  <2> QED  BY <1>1, <2>1, <2>2, <2>3, <2>4, <2>5, <2>6, <2>7, <2>8, <2>9,
     <2>10, <2>11, <2>12, <2>13, <2>14, <2>15 DEF Execution
<1>2. CASE Janitor
  <2>1. CASE JList
    BY <2>1 DEF JList, TypeOK
  <2>2. CASE JSnapshot
    BY <2>2 DEF JSnapshot, TypeOK
  <2>3. CASE JMark
    BY <2>3 DEF JMark, TypeOK
  <2>4. CASE JReap
    BY <2>4 DEF JReap, TypeOK
  <2>5. CASE JCrashScan
    BY <2>5 DEF JCrashScan, TypeOK
  <2>6. CASE JEnd
    BY <2>6 DEF JEnd, TypeOK
  <2>7. ASSUME NEW a \in Action, JKill(a) PROVE TypeOK'
    BY <2>7 DEF JKill, TypeOK
  <2>8. ASSUME NEW a \in Action, JZombie(a) PROVE TypeOK'
    BY <2>8 DEF JZombie, TypeOK
  <2>9. ASSUME NEW a \in Action, JCrashMark(a) PROVE TypeOK'
    BY <2>9 DEF JCrashMark, TypeOK
  <2> QED  BY <1>2, <2>1, <2>2, <2>3, <2>4, <2>5, <2>6, <2>7, <2>8, <2>9 DEF
     Janitor
<1>3. CASE Process
  <2>1. CASE Crash
    <3>1. Die /\ crashes' \in Nat
      BY <2>1 DEF Crash, TypeOK
    <3> QED  BY <3>1, DieTypes
  <2>2. CASE Restart
    BY <2>2 DEF Restart, TypeOK
  <2>3. ASSUME NEW a \in Action, CompletedMissing(a) PROVE TypeOK'
    <3>1. Die /\ crashes' \in Nat
      BY <2>3 DEF CompletedMissing, TypeOK
    <3> QED  BY <3>1, DieTypes
  <2>4. ASSUME NEW g \in 0 .. gen, GoInactive(g) PROVE TypeOK'
    BY <2>4 DEF GoInactive, TypeOK
  <2> QED  BY <1>3, <2>1, <2>2, <2>3, <2>4 DEF Process
<1>4. ASSUME NEW a \in Action, Handlers(a) PROVE TypeOK'
  <2>1. CASE ReadCompleted(a)
    BY <2>1 DEF ReadCompleted, TypeOK
  <2>2. CASE SaveCompleted(a)
    <3>0. UNCHANGED <<artifacts, job>>
      BY <2>2 DEF SaveCompleted
    <3>1. CASE /\ Handle(a, "saveDone", "none")
               /\ row' = [row EXCEPT ![a] = "DONE"]
      BY <3>0, <3>1 DEF TypeOK
    <3>2. CASE /\ Handle(a, "saveFailed", "none")
               /\ row' = [row EXCEPT ![a] = "FAILED"]
      BY <3>0, <3>2 DEF TypeOK
    <3> QED  BY <2>2, <3>1, <3>2 DEF SaveCompleted
  <2>3. CASE RemoveJob(a)
    BY <2>3 DEF RemoveJob, TypeOK
  <2>4. CASE ReadFailed(a)
    BY <2>4 DEF ReadFailed, TypeOK
  <2>5. CASE SaveFailed(a)
    BY <2>5 DEF SaveFailed, TypeOK
  <2> QED  BY <1>4, <2>1, <2>2, <2>3, <2>4, <2>5 DEF Handlers
<1>5. ASSUME NEW a \in Action, Bull(a) PROVE TypeOK'
  <2>1. CASE Take(a)
    BY <2>1 DEF Take, TypeOK
  <2>2. CASE Stalled(a)
    BY <2>2 DEF Stalled, TypeOK
  <2>3. CASE Promote(a)
    BY <2>3 DEF Promote, TypeOK
  <2> QED  BY <1>5, <2>1, <2>2, <2>3 DEF Bull
<1>6. ASSUME NEW a \in Action, World(a) PROVE TypeOK'
  <2>1. CASE ContainerExits(a)
    BY <2>1 DEF ContainerExits, TypeOK
  <2>2. CASE Removed(a)
    BY <2>2 DEF Removed, TypeOK
  <2>3. CASE Expire(a)
    BY <2>3 DEF Expire, TypeOK
  <2>4. CASE Delete(a)
    BY <2>4 DEF Delete, TypeOK
  <2> QED  BY <1>6, <2>1, <2>2, <2>3, <2>4 DEF World
<1>7. CASE UNCHANGED vars
  BY <1>7 DEF vars, TypeOK
<1> QED  BY <1>1, <1>2, <1>3, <1>4, <1>5, <1>6, <1>7 DEF Next

\* The API key: only the execution and its process touch it.
LEMMA KeyScopedStep ==
  ASSUME TypeOK, KeyScoped, [Next]_vars
  PROVE  KeyScoped'
<1>1. CASE Execution
    BY <1>1 DEF Execution, Check, CreateKey, OnProcessing, CreateContainer,
       StartContainer, ContainerInfo, WaitReturns, Stop, SetActionState,
       UploadArtifacts, TryThrows, Catch, DisposeKey, Complete, Throw,
       KeyScoped, TypeOK, KeySteps, TrySteps
<1>2. CASE Janitor
    BY <1>2 DEF Janitor, JList, JSnapshot, JMark, JReap, JCrashScan, JEnd, JKill,
       JZombie, JCrashMark, KeyScoped
<1>3. CASE Process
    BY <1>3 DEF Process, Crash, Restart, CompletedMissing, GoInactive, KeyScoped
<1>4. ASSUME NEW a \in Action, Handlers(a) PROVE KeyScoped'
    BY <1>4 DEF Handlers, ReadCompleted, SaveCompleted, RemoveJob, ReadFailed,
       SaveFailed, KeyScoped
<1>5. ASSUME NEW a \in Action, Bull(a) PROVE KeyScoped'
    BY <1>5 DEF Bull, Take, Stalled, Promote, KeyScoped, TypeOK
<1>6. ASSUME NEW a \in Action, World(a) PROVE KeyScoped'
    BY <1>6 DEF World, ContainerExits, Removed, Expire, Delete, KeyScoped
<1>7. CASE UNCHANGED vars
  BY <1>7 DEF vars, KeyScoped
<1> QED  BY <1>1, <1>2, <1>3, <1>4, <1>5, <1>6, <1>7 DEF Next

\* No second container: FreshInv gives it to the state guard.
LEMMA StartsOnceStep ==
  ASSUME TypeOK, FreshInv, BoxInv, StartsOnce, [Next]_vars
  PROVE  StartsOnce'
<1>1. CASE Execution
    BY <1>1 DEF Execution, Check, CreateKey, OnProcessing, CreateContainer,
       StartContainer, ContainerInfo, WaitReturns, Stop, SetActionState,
       UploadArtifacts, TryThrows, Catch, DisposeKey, Complete, Throw,
       StartsOnce, FreshInv
<1>2. CASE Janitor
    BY <1>2 DEF Janitor, JList, JSnapshot, JMark, JReap, JCrashScan, JEnd, JKill,
       JZombie, JCrashMark, StartsOnce, TypeOK
<1>3. CASE Process
    BY <1>3 DEF Process, Crash, Restart, CompletedMissing, GoInactive, StartsOnce
<1>4. ASSUME NEW a \in Action, Handlers(a) PROVE StartsOnce'
    BY <1>4 DEF Handlers, ReadCompleted, SaveCompleted, RemoveJob, ReadFailed,
       SaveFailed, StartsOnce
<1>5. ASSUME NEW a \in Action, Bull(a) PROVE StartsOnce'
    BY <1>5 DEF Bull, Take, Stalled, Promote, StartsOnce
<1>6. ASSUME NEW a \in Action, World(a) PROVE StartsOnce'
  <2>1. CASE ContainerExits(a)
      BY <2>1 DEF ContainerExits, StartsOnce
  <2>2. CASE Removed(a)
      BY <2>2 DEF Removed, StartsOnce, TypeOK, BoxInv
  <2>3. CASE Expire(a)
      BY <2>3 DEF Expire, StartsOnce
  <2>4. CASE Delete(a)
      BY <2>4 DEF Delete, StartsOnce
  <2> QED  BY <1>6, <2>1, <2>2, <2>3, <2>4 DEF World
<1>7. CASE UNCHANGED vars
  BY <1>7 DEF vars, StartsOnce
<1> QED  BY <1>1, <1>2, <1>3, <1>4, <1>5, <1>6, <1>7 DEF Next

\* A PENDING row has no container: only Check lets one be created.
LEMMA FreshInvStep ==
  ASSUME TypeOK, BoxInv, FreshInv, [Next]_vars
  PROVE  FreshInv'
<1>1. CASE Execution
    BY <1>1 DEF Execution, Check, CreateKey, OnProcessing, CreateContainer,
       StartContainer, ContainerInfo, WaitReturns, Stop, SetActionState,
       UploadArtifacts, TryThrows, Catch, DisposeKey, Complete, Throw,
       FreshInv, TypeOK
<1>2. CASE Janitor
    BY <1>2 DEF Janitor, JList, JSnapshot, JMark, JReap, JCrashScan, JEnd, JKill,
       JZombie, JCrashMark, FreshInv, TypeOK
<1>3. CASE Process
    BY <1>3 DEF Process, Crash, Restart, CompletedMissing, GoInactive, FreshInv
<1>4. ASSUME NEW a \in Action, Handlers(a) PROVE FreshInv'
    BY <1>4 DEF Handlers, ReadCompleted, SaveCompleted, RemoveJob, ReadFailed,
       SaveFailed, FreshInv, TypeOK
<1>5. ASSUME NEW a \in Action, Bull(a) PROVE FreshInv'
    BY <1>5 DEF Bull, Take, Stalled, Promote, FreshInv
<1>6. ASSUME NEW a \in Action, World(a) PROVE FreshInv'
  <2>1. CASE ContainerExits(a)
      BY <2>1 DEF ContainerExits, FreshInv
  <2>2. CASE Removed(a)
      BY <2>2 DEF Removed, FreshInv, TypeOK, BoxInv
  <2>3. CASE Expire(a)
      BY <2>3 DEF Expire, FreshInv
  <2>4. CASE Delete(a)
      BY <2>4 DEF Delete, FreshInv
  <2> QED  BY <1>6, <2>1, <2>2, <2>3, <2>4 DEF World
<1>7. CASE UNCHANGED vars
  BY <1>7 DEF vars, FreshInv
<1> QED  BY <1>1, <1>2, <1>3, <1>4, <1>5, <1>6, <1>7 DEF Next

\* The executed job is active and its handlers are done.
LEMMA JobInvStep ==
  ASSUME TypeOK, JobInv, [Next]_vars
  PROVE  JobInv'
<1>1. CASE Execution
    BY <1>1 DEF Execution, Check, CreateKey, OnProcessing, CreateContainer,
       StartContainer, ContainerInfo, WaitReturns, Stop, SetActionState,
       UploadArtifacts, TryThrows, Catch, DisposeKey, Complete, Throw,
       JobInv, TypeOK, TrySteps
<1>2. CASE Janitor
    BY <1>2 DEF Janitor, JList, JSnapshot, JMark, JReap, JCrashScan, JEnd, JKill,
       JZombie, JCrashMark, JobInv
<1>3. CASE Process
    BY <1>3 DEF Process, Crash, Restart, CompletedMissing, GoInactive, JobInv
<1>4. ASSUME NEW a \in Action, Handlers(a) PROVE JobInv'
    BY <1>4 DEF Handlers, ReadCompleted, SaveCompleted, RemoveJob, ReadFailed,
       SaveFailed, JobInv, TypeOK
<1>5. ASSUME NEW a \in Action, Bull(a) PROVE JobInv'
    BY <1>5 DEF Bull, Take, Stalled, Promote, JobInv, TypeOK
<1>6. ASSUME NEW a \in Action, World(a) PROVE JobInv'
    BY <1>6 DEF World, ContainerExits, Removed, Expire, Delete, JobInv
<1>7. CASE UNCHANGED vars
  BY <1>7 DEF vars, JobInv
<1> QED  BY <1>1, <1>2, <1>3, <1>4, <1>5, <1>6, <1>7 DEF Next

\* Containers: an exit code, a removal, a label of an earlier process.
LEMMA BoxInvStep ==
  ASSUME TypeOK, BoxInv, [Next]_vars
  PROVE  BoxInv'
<1>1. CASE Execution
    BY <1>1 DEF Execution, Check, CreateKey, OnProcessing, CreateContainer,
       StartContainer, ContainerInfo, WaitReturns, Stop, SetActionState,
       UploadArtifacts, TryThrows, Catch, DisposeKey, Complete, Throw,
       BoxInv, TypeOK
<1>2. CASE Janitor
    BY <1>2 DEF Janitor, JList, JSnapshot, JMark, JReap, JCrashScan, JEnd, JKill,
       JZombie, JCrashMark, BoxInv, TypeOK
<1>3. CASE Process
    BY <1>3 DEF Process, Crash, Restart, CompletedMissing, GoInactive, BoxInv,
       TypeOK
<1>4. ASSUME NEW a \in Action, Handlers(a) PROVE BoxInv'
    BY <1>4 DEF Handlers, ReadCompleted, SaveCompleted, RemoveJob, ReadFailed,
       SaveFailed, BoxInv
<1>5. ASSUME NEW a \in Action, Bull(a) PROVE BoxInv'
    BY <1>5 DEF Bull, Take, Stalled, Promote, BoxInv
<1>6. ASSUME NEW a \in Action, World(a) PROVE BoxInv'
    BY <1>6 DEF World, ContainerExits, Removed, Expire, Delete, BoxInv, TypeOK
<1>7. CASE UNCHANGED vars
  BY <1>7 DEF vars, BoxInv
<1> QED  BY <1>1, <1>2, <1>3, <1>4, <1>5, <1>6, <1>7 DEF Next

\* What setActionState and the completion handler rely on.
LEMMA OutcomeInvStep ==
  ASSUME TypeOK, JobInv, BoxInv, OutcomeInv, [Next]_vars
  PROVE  OutcomeInv'
<1>1. CASE Execution
    BY <1>1 DEF Execution, Check, CreateKey, OnProcessing, CreateContainer,
       StartContainer, ContainerInfo, WaitReturns, Stop, SetActionState,
       UploadArtifacts, TryThrows, Catch, DisposeKey, Complete, Throw,
       OutcomeInv, TypeOK, JobInv
<1>2. CASE Janitor
    BY <1>2 DEF Janitor, JList, JSnapshot, JMark, JReap, JCrashScan, JEnd, JKill,
       JZombie, JCrashMark, OutcomeInv, TypeOK, BoxInv
<1>3. CASE Process
    BY <1>3 DEF Process, Crash, Restart, CompletedMissing, GoInactive, OutcomeInv
<1>4. ASSUME NEW a \in Action, Handlers(a) PROVE OutcomeInv'
    BY <1>4 DEF Handlers, ReadCompleted, SaveCompleted, RemoveJob, ReadFailed,
       SaveFailed, OutcomeInv, TypeOK
<1>5. ASSUME NEW a \in Action, Bull(a) PROVE OutcomeInv'
    BY <1>5 DEF Bull, Take, Stalled, Promote, OutcomeInv, TypeOK
<1>6. ASSUME NEW a \in Action, World(a) PROVE OutcomeInv'
    BY <1>6 DEF World, ContainerExits, Removed, Expire, Delete, OutcomeInv,
       TypeOK, BoxInv
<1>7. CASE UNCHANGED vars
  BY <1>7 DEF vars, OutcomeInv
<1> QED  BY <1>1, <1>2, <1>3, <1>4, <1>5, <1>6, <1>7 DEF Next

\* DONE: the two writers of it have seen exit code 0.
LEMMA DoneMeansExitZeroStep ==
  ASSUME TypeOK, StartsOnce, BoxInv, OutcomeInv, DoneMeansExitZero, [Next]_vars
  PROVE  DoneMeansExitZero'
<1>1. CASE Execution
    BY <1>1 DEF Execution, Check, CreateKey, OnProcessing, CreateContainer,
       StartContainer, ContainerInfo, WaitReturns, Stop, SetActionState,
       UploadArtifacts, TryThrows, Catch, DisposeKey, Complete, Throw,
       DoneMeansExitZero, TypeOK, StartsOnce, BoxInv
<1>2. CASE Janitor
    BY <1>2 DEF Janitor, JList, JSnapshot, JMark, JReap, JCrashScan, JEnd, JKill,
       JZombie, JCrashMark, DoneMeansExitZero, TypeOK, BoxInv
<1>3. CASE Process
    BY <1>3 DEF Process, Crash, Restart, CompletedMissing, GoInactive,
       DoneMeansExitZero
<1>4. ASSUME NEW a \in Action, Handlers(a) PROVE DoneMeansExitZero'
    BY <1>4 DEF Handlers, ReadCompleted, SaveCompleted, RemoveJob, ReadFailed,
       SaveFailed, DoneMeansExitZero, TypeOK, OutcomeInv
<1>5. ASSUME NEW a \in Action, Bull(a) PROVE DoneMeansExitZero'
    BY <1>5 DEF Bull, Take, Stalled, Promote, DoneMeansExitZero
<1>6. ASSUME NEW a \in Action, World(a) PROVE DoneMeansExitZero'
    BY <1>6 DEF World, ContainerExits, Removed, Expire, Delete,
       DoneMeansExitZero, TypeOK, BoxInv
<1>7. CASE UNCHANGED vars
  BY <1>7 DEF vars, DoneMeansExitZero
<1> QED  BY <1>1, <1>2, <1>3, <1>4, <1>5, <1>6, <1>7 DEF Next

\* Who stops waiting for a running container has marked its row.
LEMMA OwnedInvStep ==
  ASSUME TypeOK, StartsOnce, FreshInv, BoxInv, OutcomeInv, OwnedInv, [Next]_vars
  PROVE  OwnedInv'
<1>1. CASE Execution
  <2>1. CASE Check
    BY <2>1 DEF Check, OwnedInv, TypeOK, FreshInv
  <2>2. CASE CreateKey
    BY <2>2 DEF CreateKey, OwnedInv
  <2>3. CASE OnProcessing
    BY <2>3 DEF OnProcessing, OwnedInv, StartsOnce
  <2>4. CASE CreateContainer
    BY <2>4 DEF CreateContainer, OwnedInv, StartsOnce
  <2>5. CASE StartContainer
    BY <2>5 DEF StartContainer, OwnedInv
  <2>6. CASE ContainerInfo
    BY <2>6 DEF ContainerInfo, OwnedInv
  <2>7. CASE WaitReturns
    BY <2>7 DEF WaitReturns, OwnedInv
  <2>8. CASE Stop
    BY <2>8 DEF Stop, OwnedInv, BoxInv
  <2>9. CASE SetActionState
    BY <2>9 DEF SetActionState, OwnedInv, BoxInv
  <2>10. CASE UploadArtifacts
    BY <2>10 DEF UploadArtifacts, OwnedInv
  <2>11. CASE TryThrows
    BY <2>11 DEF TryThrows, OwnedInv
  <2>12. CASE Catch
    BY <2>12 DEF Catch, OwnedInv, TypeOK
  <2>13. CASE DisposeKey
    BY <2>13 DEF DisposeKey, OwnedInv
  <2>14. CASE Complete
    BY <2>14 DEF Complete, OwnedInv
  <2>15. CASE Throw
    BY <2>15 DEF Throw, OwnedInv
  <2> QED  BY <1>1, <2>1, <2>2, <2>3, <2>4, <2>5, <2>6, <2>7, <2>8, <2>9,
     <2>10, <2>11, <2>12, <2>13, <2>14, <2>15 DEF Execution
<1>2. CASE Janitor
  <2>1. CASE JList
    BY <2>1 DEF JList, OwnedInv
  <2>2. CASE JSnapshot
    BY <2>2 DEF JSnapshot, OwnedInv
  <2>3. CASE JMark
    BY <2>3 DEF JMark, OwnedInv
  <2>4. CASE JReap
    BY <2>4 DEF JReap, OwnedInv
  <2>5. CASE JCrashScan
    BY <2>5 DEF JCrashScan, OwnedInv
  <2>6. CASE JEnd
    BY <2>6 DEF JEnd, OwnedInv
  <2>7. ASSUME NEW a \in Action, JKill(a) PROVE OwnedInv'
    BY <2>7 DEF JKill, OwnedInv
  <2>8. ASSUME NEW a \in Action, JZombie(a) PROVE OwnedInv'
    BY <2>8 DEF JZombie, OwnedInv, TypeOK
  <2>9. ASSUME NEW a \in Action, JCrashMark(a) PROVE OwnedInv'
    BY <2>9 DEF JCrashMark, OwnedInv
  <2> QED  BY <1>2, <2>1, <2>2, <2>3, <2>4, <2>5, <2>6, <2>7, <2>8, <2>9 DEF
     Janitor
<1>3. CASE Process
  <2>1. CASE Crash
    BY <2>1 DEF Crash, OwnedInv
  <2>2. CASE Restart
    BY <2>2 DEF Restart, OwnedInv, TypeOK, BoxInv
  <2>3. ASSUME NEW a \in Action, CompletedMissing(a) PROVE OwnedInv'
    BY <2>3 DEF CompletedMissing, OwnedInv
  <2>4. ASSUME NEW g \in 0 .. gen, GoInactive(g) PROVE OwnedInv'
    BY <2>4 DEF GoInactive, OwnedInv
  <2> QED  BY <1>3, <2>1, <2>2, <2>3, <2>4 DEF Process
<1>4. ASSUME NEW a \in Action, Handlers(a) PROVE OwnedInv'
  <2>1. CASE ReadCompleted(a)
    BY <2>1 DEF ReadCompleted, OwnedInv
  <2>2. CASE SaveCompleted(a)
    <3>0. UNCHANGED <<artifacts, job>>
      BY <2>2 DEF SaveCompleted
    <3>1. CASE /\ Handle(a, "saveDone", "none")
               /\ row' = [row EXCEPT ![a] = "DONE"]
      BY <3>0, <3>1 DEF OwnedInv, TypeOK, BoxInv, OutcomeInv
    <3>2. CASE /\ Handle(a, "saveFailed", "none")
               /\ row' = [row EXCEPT ![a] = "FAILED"]
      BY <3>0, <3>2 DEF OwnedInv, TypeOK, BoxInv, OutcomeInv
    <3> QED  BY <2>2, <3>1, <3>2 DEF SaveCompleted
  <2>3. CASE RemoveJob(a)
    BY <2>3 DEF RemoveJob, OwnedInv
  <2>4. CASE ReadFailed(a)
    BY <2>4 DEF ReadFailed, OwnedInv
  <2>5. CASE SaveFailed(a)
    BY <2>5 DEF SaveFailed, OwnedInv
  <2> QED  BY <1>4, <2>1, <2>2, <2>3, <2>4, <2>5 DEF Handlers
<1>5. ASSUME NEW a \in Action, Bull(a) PROVE OwnedInv'
  <2>1. CASE Take(a)
    BY <2>1 DEF Take, OwnedInv
  <2>2. CASE Stalled(a)
    BY <2>2 DEF Stalled, OwnedInv
  <2>3. CASE Promote(a)
    BY <2>3 DEF Promote, OwnedInv
  <2> QED  BY <1>5, <2>1, <2>2, <2>3 DEF Bull
<1>6. ASSUME NEW a \in Action, World(a) PROVE OwnedInv'
  <2>1. CASE ContainerExits(a)
    BY <2>1 DEF ContainerExits, OwnedInv
  <2>2. CASE Removed(a)
    BY <2>2 DEF Removed, OwnedInv
  <2>3. CASE Expire(a)
    BY <2>3 DEF Expire, OwnedInv
  <2>4. CASE Delete(a)
    BY <2>4 DEF Delete, OwnedInv
  <2> QED  BY <1>6, <2>1, <2>2, <2>3, <2>4 DEF World
<1>7. CASE UNCHANGED vars
  BY <1>7 DEF vars, OwnedInv
<1> QED  BY <1>1, <1>2, <1>3, <1>4, <1>5, <1>6, <1>7 DEF Next

\* The memory of the Janitor.
LEMMA JanitorInvStep ==
  ASSUME TypeOK, StartsOnce, FreshInv, BoxInv, OutcomeInv, JanitorInv, [Next]_vars
  PROVE  JanitorInv'
<1>1. CASE Execution
    BY <1>1 DEF Execution, Check, CreateKey, OnProcessing, CreateContainer,
       StartContainer, ContainerInfo, WaitReturns, Stop, SetActionState,
       UploadArtifacts, TryThrows, Catch, DisposeKey, Complete, Throw,
       JanitorInv, TypeOK, StartsOnce, FreshInv, BoxInv, TrySteps
<1>2. CASE Janitor
    BY <1>2 DEF Janitor, JList, JSnapshot, JMark, JReap, JCrashScan, JEnd, JKill,
       JZombie, JCrashMark, JanitorInv, TypeOK
<1>3. CASE Process
    BY <1>3 DEF Process, Crash, Restart, CompletedMissing, GoInactive, JanitorInv
<1>4. ASSUME NEW a \in Action, Handlers(a) PROVE JanitorInv'
    BY <1>4 DEF Handlers, ReadCompleted, SaveCompleted, RemoveJob, ReadFailed,
       SaveFailed, JanitorInv, TypeOK, BoxInv, OutcomeInv
<1>5. ASSUME NEW a \in Action, Bull(a) PROVE JanitorInv'
    BY <1>5 DEF Bull, Take, Stalled, Promote, JanitorInv
<1>6. ASSUME NEW a \in Action, World(a) PROVE JanitorInv'
    BY <1>6 DEF World, ContainerExits, Removed, Expire, Delete, JanitorInv,
       TypeOK
<1>7. CASE UNCHANGED vars
  BY <1>7 DEF vars, JanitorInv
<1> QED  BY <1>1, <1>2, <1>3, <1>4, <1>5, <1>6, <1>7 DEF Next

-----------------------------------------------------------------------------
(***************************************************************************)
(* The inductive invariant.                                                *)
(***************************************************************************)
\* No step of the execution, the handlers, the Janitor or the environment
\* breaks it.
LEMMA NextIInv == IInv /\ [Next]_vars => IInv'
<1> SUFFICES ASSUME IInv, [Next]_vars PROVE IInv'
  OBVIOUS
<1> USE DEF IInv
<1>1. TypeOK' /\ KeyScoped' /\ StartsOnce' /\ FreshInv' /\ JobInv'
  BY TypeOKStep, KeyScopedStep, StartsOnceStep, FreshInvStep, JobInvStep
<1>2. BoxInv' /\ OutcomeInv' /\ DoneMeansExitZero'
  BY BoxInvStep, OutcomeInvStep, DoneMeansExitZeroStep
<1>3. OwnedInv' /\ JanitorInv'
  BY OwnedInvStep, JanitorInvStep
<1> QED  BY <1>1, <1>2, <1>3

\* The inductive invariant holds in every reachable state of the host.
THEOREM Invariance == Spec => []IInv
  BY InitIInv, NextIInv, PTL DEF Spec

-----------------------------------------------------------------------------
(***************************************************************************)
(* What follows.                                                           *)
(***************************************************************************)
\* Every variable keeps its type; the runner is idle exactly when it has no
\* action, and the Janitor works on a container exactly in its two marks.
THEOREM TypeCorrect == Spec => []TypeOK
  BY Invariance, PTL DEF IInv

\* A DONE action ended by itself with exit code 0.
THEOREM DoneIsEarned == Spec => []DoneMeansExitZero
  BY Invariance, PTL DEF IInv

\* A live API key belongs to the action in execution.
THEOREM KeysAreScoped == Spec => []KeyScoped
  BY Invariance, PTL DEF IInv

\* No action gets a second container, over any number of restarts.
THEOREM ContainersStartOnce == Spec => []StartsOnce
  BY Invariance, PTL DEF IInv

\* A container nobody waits for is one the Janitor will find.
THEOREM ZombiesAreMarked == Spec => []ZombieIsMarked
<1>1. IInv => ZombieIsMarked
  BY DEF IInv, OwnedInv, ZombieIsMarked
<1> QED  BY <1>1, Invariance, PTL

\* Only JKill and JReap kill, and what they know of the container still holds.
KillStep ==
    \A a \in Action :
        /\ box[a] = "running" /\ exitCode'[a] = "killed"
        /\ boxGen[a] = gen /\ ~late[a]
        => row[a] \in {"FAILED", "DELETED"}

\* JKill needs an overdue or foreign container, JReap a row marked before.
LEMMA KillStepHolds == IInv /\ [Next]_vars => KillStep
<1> SUFFICES ASSUME IInv, [Next]_vars, NEW c \in Action,
                    box[c] = "running", exitCode'[c] = "killed",
                    boxGen[c] = gen, ~late[c]
             PROVE  row[c] \in {"FAILED", "DELETED"}
  BY DEF KillStep
<1> USE DEF IInv, TypeOK, BoxInv, JanitorInv, BoxState
<1>1. CASE Execution
  BY <1>1 DEF Execution, Check, CreateKey, OnProcessing, CreateContainer,
     StartContainer, ContainerInfo, WaitReturns, Stop, SetActionState,
     UploadArtifacts, TryThrows, Catch, DisposeKey, Complete, Throw,
     StartsOnce
<1>2. CASE Janitor
  <2>1. ASSUME NEW a \in Action, JKill(a) PROVE row[c] \in {"FAILED", "DELETED"}
    BY <2>1 DEF JKill
  <2>2. CASE JReap
    BY <2>2 DEF JReap
  <2>3. CASE JList \/ JSnapshot \/ JMark \/ JCrashScan \/ JEnd
    BY <2>3 DEF JList, JSnapshot, JMark, JCrashScan, JEnd
  <2>4. ASSUME NEW a \in Action, JZombie(a) \/ JCrashMark(a)
        PROVE  row[c] \in {"FAILED", "DELETED"}
    BY <2>4 DEF JZombie, JCrashMark
  <2> QED  BY <1>2, <2>1, <2>2, <2>3, <2>4 DEF Janitor
<1>3. CASE Process
  BY <1>3 DEF Process, Crash, Restart, CompletedMissing, GoInactive
<1>4. ASSUME NEW a \in Action, Handlers(a) \/ Bull(a)
      PROVE  row[c] \in {"FAILED", "DELETED"}
  BY <1>4 DEF Handlers, ReadCompleted, SaveCompleted, RemoveJob, ReadFailed,
     SaveFailed, Bull, Take, Stalled, Promote
<1>5. ASSUME NEW a \in Action, World(a)
      PROVE  row[c] \in {"FAILED", "DELETED"}
  BY <1>5 DEF World, ContainerExits, Removed, Expire, Delete
<1>6. CASE UNCHANGED vars
  BY <1>6 DEF vars
<1> QED  BY <1>1, <1>2, <1>3, <1>4, <1>5, <1>6 DEF Next

\* The Janitor never kills a container under a live PROCESSING action.
THEOREM KillsAreJustified == Spec => KillJustified
<1>1. IInv /\ [Next]_vars => [KillStep]_vars
  BY KillStepHolds
<1> QED  BY <1>1, Invariance, PTL DEF Spec, KillJustified, KillStep

-----------------------------------------------------------------------------
(***************************************************************************)
(* A host keeps the contract of ActionContract: ActionRunner implements it *)
(* under the refinement mapping Verdict, Outcome, Key.  Two parts are      *)
(* added to the invariant: when a key exists, and that an action in        *)
(* execution is not DONE yet.                                              *)
(***************************************************************************)
\* A pending action has no key, and the executed one has none until it is
\* created and a live one until it is disposed of.
KeyInv ==
    /\ \A a \in Action : row[a] = "PENDING" => key[a] = "none"
    /\ pc = "check" /\ seen = "PENDING" => key[cur] = "none"
    /\ pc = "key" => key[cur] = "none"
    /\ pc \in KeySteps => key[cur] = "live"

\* Nobody else settles an action as DONE before its execution does.
OpenInv ==
    pc \in {"key", "image", "create", "launch", "info", "wait", "stop", "inspect"}
        => row[cur] # "DONE"

CInv == IInv /\ KeyInv /\ OpenInv

\* Initially there is no key and nothing is executed.
LEMMA InitCInv == Init => CInv
<1>1. Init => IInv
  BY InitIInv
<1>2. Init => KeyInv /\ OpenInv
  BY DEF Init, KeyInv, OpenInv, KeySteps, TrySteps
<1> QED  BY <1>1, <1>2 DEF CInv

\* A key is created and disposed of by its execution only; a row never becomes
\* PENDING again.
LEMMA KeyInvStep ==
  ASSUME CInv, [Next]_vars
  PROVE  KeyInv'
<1> USE DEF KeySteps, TrySteps
<1>0. TypeOK /\ FreshInv /\ KeyInv
  BY DEF CInv, IInv
<1> USE <1>0
<1>1. CASE Execution
  <2>1. CASE Check
    BY <2>1 DEF Check, TypeOK, KeyInv
  <2>2. CASE CreateKey
    BY <2>2 DEF CreateKey, TypeOK, KeyInv, FreshInv
  <2>3. CASE OnProcessing \/ CreateContainer \/ StartContainer \/ ContainerInfo
    BY <2>3 DEF OnProcessing, CreateContainer, StartContainer, ContainerInfo,
       TypeOK, KeyInv
  <2>4. CASE WaitReturns \/ Stop \/ SetActionState \/ UploadArtifacts
    BY <2>4 DEF WaitReturns, Stop, SetActionState, UploadArtifacts, TypeOK, KeyInv
  <2>5. CASE TryThrows \/ Catch
    BY <2>5 DEF TryThrows, Catch, TypeOK, KeyInv
  <2>6. CASE DisposeKey
    BY <2>6 DEF DisposeKey, TypeOK, KeyInv
  <2>7. CASE Complete \/ Throw
    BY <2>7 DEF Complete, Throw, TypeOK, KeyInv
  <2> QED  BY <1>1, <2>1, <2>2, <2>3, <2>4, <2>5, <2>6, <2>7 DEF Execution
<1>2. CASE Janitor
  BY <1>2 DEF Janitor, JList, JSnapshot, JMark, JReap, JCrashScan, JEnd, JKill,
     JZombie, JCrashMark, TypeOK, KeyInv
<1>3. CASE Process
  BY <1>3 DEF Process, Crash, CompletedMissing, Restart, GoInactive, TypeOK, KeyInv
<1>4. CASE \E a \in Action : Handlers(a)
  BY <1>4 DEF Handlers, ReadCompleted, SaveCompleted, RemoveJob, ReadFailed,
     SaveFailed, TypeOK, KeyInv
<1>5. CASE \E a \in Action : Bull(a)
  BY <1>5 DEF Bull, Take, Stalled, Promote, TypeOK, KeyInv
<1>6. CASE \E a \in Action : World(a)
  BY <1>6 DEF World, ContainerExits, Removed, Expire, Delete, TypeOK, KeyInv
<1>7. CASE UNCHANGED vars
  BY <1>7 DEF vars, KeyInv
<1> QED  BY <1>1, <1>2, <1>3, <1>4, <1>5, <1>6, <1>7 DEF Next

\* The handlers that write DONE belong to an action whose job is gone, which
\* therefore is not the executed one.
LEMMA OpenInvStep ==
  ASSUME CInv, [Next]_vars
  PROVE  OpenInv'
<1>0. TypeOK /\ FreshInv /\ JobInv /\ BoxInv /\ DoneMeansExitZero /\ OpenInv
  BY DEF CInv, IInv
<1> USE <1>0
<1>1. CASE Execution
  <2>1. CASE Check
    BY <2>1 DEF Check, TypeOK, OpenInv, FreshInv, BoxInv, DoneMeansExitZero
  <2>2. CASE CreateKey \/ OnProcessing \/ CreateContainer \/ StartContainer
    BY <2>2 DEF CreateKey, OnProcessing, CreateContainer, StartContainer, TypeOK,
       OpenInv
  <2>3. CASE ContainerInfo \/ WaitReturns \/ Stop \/ SetActionState
    BY <2>3 DEF ContainerInfo, WaitReturns, Stop, SetActionState, TypeOK, OpenInv
  <2>4. CASE UploadArtifacts \/ TryThrows \/ Catch \/ DisposeKey
    BY <2>4 DEF UploadArtifacts, TryThrows, Catch, DisposeKey, TypeOK, OpenInv
  <2>5. CASE Complete \/ Throw
    BY <2>5 DEF Complete, Throw, TypeOK, OpenInv
  <2> QED  BY <1>1, <2>1, <2>2, <2>3, <2>4, <2>5 DEF Execution
<1>2. CASE Janitor
  BY <1>2 DEF Janitor, JList, JSnapshot, JMark, JReap, JCrashScan, JEnd, JKill,
     JZombie, JCrashMark, TypeOK, OpenInv
<1>3. CASE Process
  BY <1>3 DEF Process, Crash, CompletedMissing, Restart, GoInactive, OpenInv
<1>4. CASE \E a \in Action : Handlers(a)
  BY <1>4 DEF Handlers, ReadCompleted, SaveCompleted, RemoveJob, ReadFailed,
     SaveFailed, TypeOK, OpenInv, JobInv
<1>5. CASE \E a \in Action : Bull(a)
  BY <1>5 DEF Bull, Take, Stalled, Promote, TypeOK, OpenInv
<1>6. CASE \E a \in Action : World(a)
  BY <1>6 DEF World, ContainerExits, Removed, Expire, Delete, TypeOK, OpenInv
<1>7. CASE UNCHANGED vars
  BY <1>7 DEF vars, OpenInv
<1> QED  BY <1>1, <1>2, <1>3, <1>4, <1>5, <1>6, <1>7 DEF Next

\* All parts together are inductive.
LEMMA NextCInv == CInv /\ [Next]_vars => CInv'
<1> SUFFICES ASSUME CInv, [Next]_vars PROVE CInv'
  OBVIOUS
<1>1. IInv'
  BY NextIInv DEF CInv
<1>2. KeyInv' /\ OpenInv'
  BY KeyInvStep, OpenInvStep
<1> QED  BY <1>1, <1>2 DEF CInv

-----------------------------------------------------------------------------
(***************************************************************************)
(* What a write of the detailed state is in the contract.                  *)
(***************************************************************************)
\* A write of one row is a write of one verdict.
LEMMA RowWritten ==
  ASSUME TypeOK, NEW a \in Action, NEW s, row' = [row EXCEPT ![a] = s]
  PROVE  Verdict' = [Verdict EXCEPT ![a] = VerdictOf(s)]
  BY DEF Verdict, TypeOK

\* So is an update, which leaves a deleted action alone.
LEMMA RowUpdated ==
  ASSUME TypeOK, NEW a \in Action, NEW s, Update(a, s)
  PROVE  \/ row[a] = "DELETED" /\ Verdict' = Verdict
         \/ row[a] # "DELETED" /\ Verdict' = [Verdict EXCEPT ![a] = VerdictOf(s)]
  BY DEF Verdict, TypeOK

\* A change of one container is a change of one outcome.
LEMMA BoxWritten ==
  ASSUME TypeOK, NEW a \in Action, NEW b, NEW e,
         box' = [box EXCEPT ![a] = b], exitCode' = [exitCode EXCEPT ![a] = e]
  PROVE  Outcome' = [Outcome EXCEPT ![a] = OutcomeOf(b, e)]
  BY DEF Outcome, TypeOK

\* A write of one key.
LEMMA KeyWritten ==
  ASSUME TypeOK, NEW a \in Action, NEW k, key' = [key EXCEPT ![a] = k]
  PROVE  Key' = [Key EXCEPT ![a] = KeyOf(k)]
  BY DEF Key, TypeOK

\* What is not written stays.
LEMMA Kept ==
  /\ row' = row => Verdict' = Verdict
  /\ box' = box /\ exitCode' = exitCode => Outcome' = Outcome
  /\ key' = key => Key' = Key
  BY DEF Verdict, Outcome, Key

CStep == [Contract!Next]_Contract!vars

\* A kill ends a container that runs, and is nothing otherwise.
LEMMA KillIsEnd ==
  ASSUME TypeOK, NEW a \in Action, KillAndRemove(a), Verdict' = Verdict, Key' = Key
  PROVE  CStep
<1>1. CASE box[a] = "running"
  <2>1. /\ box' = [box EXCEPT ![a] = "exited"]
        /\ exitCode' = [exitCode EXCEPT ![a] = "killed"]
    BY <1>1 DEF TypeOK
  <2>5. OutcomeOf("exited", "killed") = "bad"
    BY DEF OutcomeOf
  <2>6. Outcome' = [Outcome EXCEPT ![a] = OutcomeOf("exited", "killed")]
    BY ONLY TypeOK, a \in Action, <2>1, BoxWritten
  <2>2. Outcome' = [Outcome EXCEPT ![a] = "bad"]
    BY <2>5, <2>6
  <2>3. Outcome[a] = "live"
    BY <1>1 DEF Outcome, OutcomeOf
  <2>4. Contract!End(a)
    BY <2>2, <2>3 DEF Contract!End
  <2> QED  BY <2>4 DEF CStep, Contract!Next
<1>2. CASE box[a] # "running"
  <2>1. box' = box /\ exitCode' = exitCode
    BY <1>2 DEF TypeOK
  <2> QED  BY <2>1, Kept DEF CStep, Contract!vars
<1> QED  BY <1>1, <1>2

\* An update to FAILED fails the action, unless it is deleted.
LEMMA FailIsFail ==
  ASSUME TypeOK, NEW a \in Action, Update(a, "FAILED"), Outcome' = Outcome, Key' = Key
  PROVE  CStep
<1>1. VerdictOf("FAILED") = "failed"
  BY DEF VerdictOf
<1>2. CASE Verdict' = Verdict
  BY <1>2 DEF CStep, Contract!vars
<1>3. CASE Verdict' = [Verdict EXCEPT ![a] = "failed"]
  <2>1. Contract!Fail(a)
    BY <1>3 DEF Contract!Fail
  <2> QED  BY <2>1 DEF CStep, Contract!Next
<1> QED  BY <1>1, <1>2, <1>3, RowUpdated

\* An update of an action that is not DONE to a state that is not settled
\* reopens one that was given up, and is nothing otherwise.
LEMMA OpenIsReopen ==
  ASSUME TypeOK, NEW a \in Action, NEW s \in {"STARTING", "PROCESSING", "STOPPING"},
         Update(a, s), row[a] # "DONE", Outcome' = Outcome, Key' = Key
  PROVE  CStep
<1>1. VerdictOf(s) = "open"
  BY DEF VerdictOf
<1>2. CASE row[a] = "FAILED"
  <2>1. Verdict[a] = "failed"
    BY <1>2 DEF Verdict, VerdictOf
  <2>2. Verdict' = [Verdict EXCEPT ![a] = "open"]
    BY <1>1, <1>2, RowUpdated
  <2>3. Contract!Reopen(a)
    BY <2>1, <2>2 DEF Contract!Reopen
  <2> QED  BY <2>3 DEF CStep, Contract!Next
<1>3. CASE row[a] = "DELETED"
  BY <1>3, RowUpdated DEF CStep, Contract!vars
<1>4. CASE row[a] \notin {"DONE", "FAILED", "DELETED"}
  <2>1. Verdict[a] = "open"
    BY <1>4 DEF Verdict, VerdictOf
  <2>2. Verdict' = [Verdict EXCEPT ![a] = "open"]
    BY <1>1, <1>4, RowUpdated
  <2>3. Verdict' = Verdict
    BY <2>1, <2>2 DEF Verdict
  <2> QED  BY <2>3 DEF CStep, Contract!vars
<1> QED  BY <1>2, <1>3, <1>4

\* A step that leaves rows, containers and keys alone is none of the contract.
LEMMA Stutters ==
  ASSUME row' = row, box' = box, exitCode' = exitCode, key' = key
  PROVE  CStep
  BY Kept DEF CStep, Contract!vars

\* A dying process leaks the keys it holds.
LEMMA DieIsLeak ==
  ASSUME TypeOK, Die
  PROVE  CStep
<1>1. Verdict' = Verdict /\ Outcome' = Outcome
  BY Kept
<1>2. \A a \in Action : key'[a] = IF key[a] = "live" THEN "orphaned" ELSE key[a]
  OBVIOUS
<1>3. \A a \in Action :
        KeyOf(key'[a]) = IF KeyOf(key[a]) = "held" THEN "leaked" ELSE KeyOf(key[a])
  BY <1>2 DEF KeyOf
<1>4. Key' = [a \in Action |-> IF Key[a] = "held" THEN "leaked" ELSE Key[a]]
  BY <1>3 DEF Key
<1>5. Contract!Leak
  BY <1>1, <1>4 DEF Contract!Leak
<1> QED  BY <1>5 DEF CStep, Contract!Next

-----------------------------------------------------------------------------
(***************************************************************************)
(* Every step of the host is a step of the contract.                       *)
(***************************************************************************)
\* The execution: the key, the container and the states it writes.
LEMMA ExecutionKeeps ==
  ASSUME CInv, Execution
  PROVE  CStep
<1>0. /\ TypeOK /\ KeyInv /\ OpenInv /\ StartsOnce /\ FreshInv /\ BoxInv
      /\ DoneMeansExitZero
  BY DEF CInv, IInv
<1> USE <1>0
<1>k. \A b, e : b # "running" /\ e = "none" => OutcomeOf(b, e) = "none"
  BY DEF OutcomeOf
<1>1. CASE Check
  <2>1. CASE seen = "PENDING" /\ Update(cur, "STARTING")
    <3>1. cur \in Action /\ row[cur] # "DONE"
      BY <1>1, <2>1 DEF Check, TypeOK, FreshInv, BoxInv, DoneMeansExitZero
    <3>2. Outcome' = Outcome /\ Key' = Key
      BY <1>1, Kept DEF Check
    <3> QED  BY <2>1, <3>1, <3>2, OpenIsReopen
  <2>2. CASE UNCHANGED row
    BY <1>1, <2>2, Stutters DEF Check
  <2> QED  BY <1>1, <2>1, <2>2 DEF Check
<1>2. CASE CreateKey
  <2>0. cur \in Action /\ Verdict' = Verdict /\ Outcome' = Outcome
    BY <1>2, Kept DEF CreateKey, TypeOK
  <2>1. CASE key' = [key EXCEPT ![cur] = "live"]
    <3>1. Key[cur] = "none"
      BY <1>2, <2>0 DEF CreateKey, KeyInv, Key, KeyOf
    <3>2. KeyOf("live") = "held"
      BY DEF KeyOf
    <3>3. Key' = [Key EXCEPT ![cur] = "held"]
      BY <2>0, <2>1, <3>2, KeyWritten
    <3>4. Contract!NewKey(cur)
      BY <2>0, <3>1, <3>3 DEF Contract!NewKey
    <3> QED  BY <2>0, <3>4 DEF CStep, Contract!Next
  <2>2. CASE UNCHANGED key
    BY <1>2, <2>2, Stutters DEF CreateKey
  <2> QED  BY <1>2, <2>1, <2>2 DEF CreateKey
<1>3. CASE OnProcessing
  <2>1. cur \in Action /\ row[cur] # "DONE" /\ Update(cur, "PROCESSING")
    BY <1>3 DEF OnProcessing, TypeOK, OpenInv
  <2>2. Outcome' = Outcome /\ Key' = Key
    BY <1>3, Kept DEF OnProcessing
  <2> QED  BY <2>1, <2>2, OpenIsReopen
<1>4. CASE CreateContainer
  <2>1. cur \in Action /\ box[cur] = "none" /\ exitCode[cur] = "none"
    BY <1>4 DEF CreateContainer, TypeOK, StartsOnce, BoxInv
  <2>6. Outcome' = [Outcome EXCEPT ![cur] = OutcomeOf("created", "none")]
    BY <1>4, <2>1, BoxWritten DEF CreateContainer
  <2>2. Outcome' = [Outcome EXCEPT ![cur] = "none"]
    BY <1>k, <2>6
  <2>3. Outcome[cur] = "none"
    BY <1>k, <2>1 DEF Outcome
  <2>4. Outcome' = Outcome
    BY <2>2, <2>3 DEF Outcome
  <2>5. Verdict' = Verdict /\ Key' = Key
    BY <1>4, Kept DEF CreateContainer
  <2> QED  BY <2>4, <2>5 DEF CStep, Contract!vars
<1>5. CASE StartContainer
  <2>1. /\ cur \in Action /\ box[cur] = "created" /\ exitCode[cur] = "none"
        /\ key[cur] = "live"
    BY <1>5 DEF StartContainer, TypeOK, BoxInv, KeyInv, KeySteps, TrySteps
  <2>2. /\ box' = [box EXCEPT ![cur] = "running"]
        /\ exitCode' = [exitCode EXCEPT ![cur] = "none"]
    BY <1>5, <2>1 DEF StartContainer, TypeOK
  <2>3. OutcomeOf("running", "none") = "live" /\ KeyOf("live") = "held"
    BY DEF OutcomeOf, KeyOf
  <2>8. Outcome' = [Outcome EXCEPT ![cur] = OutcomeOf("running", "none")]
    BY <2>1, <2>2, BoxWritten
  <2>4. Outcome' = [Outcome EXCEPT ![cur] = "live"]
    BY <2>3, <2>8
  <2>5. Outcome[cur] = "none" /\ Key[cur] = "held"
    BY <1>k, <2>1, <2>3 DEF Outcome, Key
  <2>6. Verdict' = Verdict /\ Key' = Key
    BY <1>5, Kept DEF StartContainer
  <2>7. Contract!Start(cur)
    BY <2>4, <2>5, <2>6 DEF Contract!Start
  <2> QED  BY <2>1, <2>7 DEF CStep, Contract!Next
<1>6. CASE ContainerInfo \/ WaitReturns \/ UploadArtifacts \/ TryThrows
  BY <1>6, Stutters DEF ContainerInfo, WaitReturns, UploadArtifacts, TryThrows
<1>7. CASE Stop
  <2>1. cur \in Action /\ row[cur] # "DONE" /\ Update(cur, "STOPPING")
    BY <1>7 DEF Stop, TypeOK, OpenInv
  <2>2. Outcome' = Outcome /\ Key' = Key
    BY <1>7, Kept DEF Stop
  <2> QED  BY <2>1, <2>2, OpenIsReopen
<1>8. CASE SetActionState
  <2>0. cur \in Action /\ Outcome' = Outcome /\ Key' = Key
    BY <1>8, Kept DEF SetActionState, TypeOK
  <2>1. CASE exitCode[cur] = "zero"
    <3>1. Update(cur, "DONE") /\ VerdictOf("DONE") = "done"
      BY <1>8, <2>1 DEF SetActionState, VerdictOf
    <3>2. box[cur] # "running"
      BY <1>8 DEF SetActionState, BoxInv
    <3>3. Outcome[cur] = "zero"
      BY <2>0, <2>1, <3>2 DEF Outcome, OutcomeOf
    <3>4. CASE Verdict' = Verdict
      BY <2>0, <3>4 DEF CStep, Contract!vars
    <3>5. CASE Verdict' = [Verdict EXCEPT ![cur] = "done"]
      <4>1. Contract!Succeed(cur)
        BY <2>0, <3>3, <3>5 DEF Contract!Succeed
      <4> QED  BY <2>0, <4>1 DEF CStep, Contract!Next
    <3> QED  BY <2>0, <3>1, <3>4, <3>5, RowUpdated
  <2>2. CASE exitCode[cur] # "zero"
    BY <1>8, <2>0, <2>2, FailIsFail DEF SetActionState
  <2> QED  BY <2>1, <2>2
<1>9. CASE Catch
  <2>1. cur \in Action /\ Outcome' = Outcome /\ Key' = Key
    BY <1>9, Kept DEF Catch, TypeOK
  <2> QED  BY <1>9, <2>1, FailIsFail DEF Catch
<1>10. CASE DisposeKey
  <2>1. cur \in Action /\ key[cur] = "live" /\ key' = [key EXCEPT ![cur] = "disposed"]
    BY <1>10 DEF DisposeKey, TypeOK, KeyInv, KeySteps
  <2>2. KeyOf("live") = "held" /\ KeyOf("disposed") = "dropped"
    BY DEF KeyOf
  <2>3. Key[cur] = "held"
    BY <2>1, <2>2 DEF Key
  <2>4. Key' = [Key EXCEPT ![cur] = "dropped"]
    BY <2>1, <2>2, KeyWritten
  <2>5. Verdict' = Verdict /\ Outcome' = Outcome
    BY <1>10, Kept DEF DisposeKey
  <2>6. Contract!DropKey(cur)
    BY <2>3, <2>4, <2>5 DEF Contract!DropKey
  <2> QED  BY <2>1, <2>6 DEF CStep, Contract!Next
<1>11. CASE Complete \/ Throw
  BY <1>11, Stutters DEF Complete, Throw
<1> QED  BY <1>1, <1>2, <1>3, <1>4, <1>5, <1>6, <1>7, <1>8, <1>9, <1>10, <1>11
          DEF Execution

\* The handlers: what they save.
LEMMA HandlersKeep ==
  ASSUME CInv, NEW a \in Action, Handlers(a)
  PROVE  CStep
<1>0. TypeOK /\ OutcomeInv /\ BoxInv
  BY DEF CInv, IInv
<1> USE <1>0
<1>f. /\ VerdictOf("FAILED") = "failed" /\ VerdictOf("DONE") = "done"
  BY DEF VerdictOf
<1>1. CASE ReadCompleted(a) \/ RemoveJob(a) \/ ReadFailed(a)
  BY <1>1, Stutters DEF ReadCompleted, RemoveJob, ReadFailed
<1>2. CASE SaveCompleted(a) /\ handler[a] = "saveDone"
  <2>1. /\ row' = [row EXCEPT ![a] = "DONE"]
        /\ exitCode[a] = "zero" /\ box[a] # "running"
    BY <1>2 DEF SaveCompleted, OutcomeInv, BoxInv
  <2>2. Outcome' = Outcome /\ Key' = Key
    BY <1>2, Kept DEF SaveCompleted
  <2>3. Verdict' = [Verdict EXCEPT ![a] = "done"]
    <3>1. row' = [row EXCEPT ![a] = "DONE"]
      BY <2>1
    <3>2. Verdict' = [Verdict EXCEPT ![a] = VerdictOf("DONE")]
      BY <3>1, RowWritten
    <3> QED  BY <1>f, <3>2
  <2>4. Outcome[a] = "zero"
    BY <2>1 DEF Outcome, OutcomeOf
  <2>5. Contract!Succeed(a)
    BY <2>2, <2>3, <2>4 DEF Contract!Succeed
  <2> QED  BY <2>5 DEF CStep, Contract!Next
<1>3. CASE (SaveCompleted(a) /\ handler[a] # "saveDone") \/ SaveFailed(a)
  <2>1. row' = [row EXCEPT ![a] = "FAILED"]
    BY <1>3 DEF SaveCompleted, SaveFailed
  <2>2. Outcome' = Outcome /\ Key' = Key
    BY <1>3, Kept DEF SaveCompleted, SaveFailed
  <2>3. Verdict' = [Verdict EXCEPT ![a] = "failed"]
    BY <1>f, <2>1, RowWritten
  <2>4. Contract!Fail(a)
    BY <2>2, <2>3 DEF Contract!Fail
  <2> QED  BY <2>4 DEF CStep, Contract!Next
<1> QED  BY <1>1, <1>2, <1>3 DEF Handlers

\* The Janitor: it kills and it marks.
LEMMA JanitorKeeps ==
  ASSUME CInv, Janitor
  PROVE  CStep
<1>0. TypeOK
  BY DEF CInv, IInv
<1> USE <1>0
<1>1. CASE JList \/ JSnapshot \/ JCrashScan \/ JEnd
  BY <1>1, Stutters DEF JList, JSnapshot, JCrashScan, JEnd
<1>2. CASE JMark
  <2>1. jcur \in Action /\ Outcome' = Outcome /\ Key' = Key
    BY <1>2, Kept DEF JMark, TypeOK
  <2> QED  BY <1>2, <2>1, FailIsFail DEF JMark
<1>3. CASE JReap
  <2>1. jcur \in Action /\ Verdict' = Verdict /\ Key' = Key /\ KillAndRemove(jcur)
    BY <1>3, Kept DEF JReap, TypeOK
  <2> QED  BY <2>1, KillIsEnd
<1>4. ASSUME NEW a \in Action, JKill(a) PROVE CStep
  <2>1. Verdict' = Verdict /\ Key' = Key /\ KillAndRemove(a)
    BY <1>4, Kept DEF JKill
  <2> QED  BY <2>1, KillIsEnd
<1>5. ASSUME NEW a \in Action, JZombie(a) PROVE CStep
  <2>1. CASE UNCHANGED row
    BY <1>5, <2>1, Stutters DEF JZombie
  <2>2. CASE Update(a, "FAILED")
    BY <1>5, <2>2, Kept, FailIsFail DEF JZombie
  <2> QED  BY <1>5, <2>1, <2>2 DEF JZombie
<1>6. ASSUME NEW a \in Action, JCrashMark(a) PROVE CStep
  BY <1>6, Kept, FailIsFail DEF JCrashMark
<1> QED  BY <1>1, <1>2, <1>3, <1>4, <1>5, <1>6 DEF Janitor

\* Containers, Docker, time and users.
LEMMA WorldKeeps ==
  ASSUME CInv, NEW a \in Action, World(a)
  PROVE  CStep
<1>0. TypeOK /\ BoxInv
  BY DEF CInv, IInv
<1> USE <1>0
<1>1. CASE ContainerExits(a)
  <2>1. PICK c \in {"zero", "nonzero"} : exitCode' = [exitCode EXCEPT ![a] = c]
    BY <1>1 DEF ContainerExits
  <2>2. box' = [box EXCEPT ![a] = "exited"] /\ box[a] = "running"
    BY <1>1 DEF ContainerExits
  <2>3. Outcome' = [Outcome EXCEPT ![a] = OutcomeOf("exited", c)]
    BY <2>1, <2>2, BoxWritten
  <2>4. OutcomeOf("exited", c) \in {"zero", "bad"}
    BY DEF OutcomeOf
  <2>5. Outcome[a] = "live"
    BY <2>2 DEF Outcome, OutcomeOf
  <2>6. Verdict' = Verdict /\ Key' = Key
    BY <1>1, Kept DEF ContainerExits
  <2>7. Contract!End(a)
    BY <2>3, <2>4, <2>5, <2>6 DEF Contract!End
  <2> QED  BY <2>7 DEF CStep, Contract!Next
<1>2. CASE Removed(a)
  <2>1. Verdict' = Verdict /\ Key' = Key
    BY <1>2, Kept DEF Removed
  <2>2. \A b \in Action : exitCode'[b] = exitCode[b]
                          /\ (box'[b] = "running") = (box[b] = "running")
    BY <1>2 DEF Removed, TypeOK
  <2>3. \A b \in Action : OutcomeOf(box'[b], exitCode'[b]) = OutcomeOf(box[b], exitCode[b])
    BY <2>2 DEF OutcomeOf
  <2>4. Outcome' = Outcome
    BY <2>3 DEF Outcome
  <2> QED  BY <2>1, <2>4 DEF CStep, Contract!vars
<1>3. CASE Expire(a)
  BY <1>3, Stutters DEF Expire
<1>4. CASE Delete(a)
  <2>1. row' = [row EXCEPT ![a] = "DELETED"] /\ row[a] \in {"DONE", "FAILED"}
    BY <1>4 DEF Delete
  <2>2. VerdictOf("DELETED") = "deleted" /\ VerdictOf(row[a]) \in {"done", "failed"}
    BY <2>1 DEF VerdictOf
  <2>3. Verdict' = [Verdict EXCEPT ![a] = "deleted"] /\ Verdict[a] \in {"done", "failed"}
    BY <2>1, <2>2, RowWritten DEF Verdict
  <2>4. Outcome' = Outcome /\ Key' = Key
    BY <1>4, Kept DEF Delete
  <2>5. Contract!Delete(a)
    BY <2>3, <2>4 DEF Contract!Delete
  <2> QED  BY <2>5 DEF CStep, Contract!Next
<1> QED  BY <1>1, <1>2, <1>3, <1>4 DEF World

\* Every step of the host, in a state of the invariant, is one of the contract.
LEMMA StepKeeps == CInv /\ [Next]_vars => CStep
<1> SUFFICES ASSUME CInv, [Next]_vars PROVE CStep
  OBVIOUS
<1>0. TypeOK
  BY DEF CInv, IInv
<1>1. CASE Process
  <2>1. CASE Die
    BY <1>0, <2>1, DieIsLeak
  <2>2. CASE Restart \/ \E g \in 0 .. gen : GoInactive(g)
    BY <2>2, Stutters DEF Restart, GoInactive
  <2> QED  BY <1>1, <2>1, <2>2 DEF Process, Crash, CompletedMissing
<1>2. ASSUME NEW a \in Action, Bull(a) PROVE CStep
  BY <1>2, Stutters DEF Bull, Take, Stalled, Promote
<1>3. CASE UNCHANGED vars
  BY <1>3, Stutters DEF vars
<1> QED  BY <1>1, <1>2, <1>3, ExecutionKeeps, HandlersKeep, JanitorKeeps, WorldKeeps
         DEF Next

\* The two parts added here hold throughout.
LEMMA CInvariance == Spec => []CInv
<1>1. Init => CInv
  BY InitCInv
<1>2. CInv /\ [Next]_vars => CInv'
  BY NextCInv
<1> QED  BY <1>1, <1>2, PTL DEF Spec

\* A host keeps the contract: of its rows, containers and API keys an observer
\* sees what ActionContract allows, whatever the consumer of the queue, the
\* handlers, the Janitor and crashes do side by side.
THEOREM HostKeepsContract == Spec => KeepsContract
<1>1. Init => Contract!Init
  BY DEF Init, Contract!Init, Verdict, Outcome, Key, VerdictOf, OutcomeOf, KeyOf
<1>2. CInv /\ [Next]_vars => [Contract!Next]_Contract!vars
  BY StepKeeps DEF CStep
<1> QED  BY <1>1, <1>2, CInvariance, PTL DEF Spec, KeepsContract, Contract!Spec
=============================================================================
