---------------------------- MODULE SerialProofs ----------------------------
(***************************************************************************)
(* Two places where a request reads, decides and writes with no lock, and  *)
(* where what it decided is true when it writes as long as requests do not *)
(* overlap: the removal of members from a group, GroupMembership, and the  *)
(* cleaning state of a project, DatasetCleaning as C.  That a group keeps  *)
(* an editor, when also editors do not expire, that an extension extends,  *)
(* and that a reviewer's decisions stand; for every set of users, episodes *)
(* and requests.                                                           *)
(***************************************************************************)
EXTENDS GroupMembership, TLAPS

\* Editors never expire; nor does the request under way make one expire: the
\* row it found is still there, or it does not write.
NoneExpires ==
    /\ \A u \in editor : exp[u] = "never"
    /\ spc = "save" /\ ~sgone => row[suser] # "none"
    /\ spc = "save" /\ ~sgone /\ suser \in editor => sexp = "never"

\* One removal at a time, which leaves an editor.
OneRemoval ==
    /\ \A q, r \in Request : pc[q] = "delete" /\ pc[r] = "delete" => q = r
    /\ \A r \in Request : pc[r] = "delete" => ~LastEditor(list[r])

IInv == TypeOK /\ EditorRemains /\ NoneExpires /\ OneRemoval

USE DEF group, remove, setter

\* The states of the model have their types: rows, dates and program counters
\* stay in the values that the columns and the steps of the handlers can take.
THEOREM TypeCorrect == Spec => []TypeOK
<1>1. Init => TypeOK
  BY MembershipAssumption DEF Init, TypeOK
<1>2. TypeOK /\ [Next]_vars => TypeOK'
  <2> SUFFICES ASSUME TypeOK, [Next]_vars PROVE TypeOK'
    OBVIOUS
  <2> USE DEF TypeOK
  <2>1. ASSUME NEW u \in User, Add(u) PROVE TypeOK'
    BY <2>1 DEF Add
  <2>2. ASSUME NEW u \in User, Find(u) PROVE TypeOK'
    BY <2>2 DEF Find
  <2>3. ASSUME NEW u \in User, Lapse(u) PROVE TypeOK'
    BY <2>3 DEF Lapse
  <2>4. ASSUME NEW r \in Request, Count(r) PROVE TypeOK'
    BY <2>4 DEF Count
  <2>5. ASSUME NEW r \in Request, Delete(r) PROVE TypeOK'
    BY <2>5 DEF Delete
  <2>6. CASE Save
    BY <2>6 DEF Save
  <2>7. CASE Answer
    BY <2>7 DEF Answer
  <2>8. CASE Expire
    BY <2>8 DEF Expire
  <2>9. CASE UNCHANGED vars
    BY <2>9 DEF vars
  <2> QED
    BY <2>1, <2>2, <2>3, <2>4, <2>5, <2>6, <2>7, <2>8, <2>9 DEF Next
<1> QED
  BY <1>1, <1>2, PTL DEF Spec

LEMMA InitHolds == Init => IInv
  BY MembershipAssumption
  DEF Init, IInv, TypeOK, EditorRemains, Editors, Member, NoneExpires, OneRemoval

LEMMA StepKeeps ==
  ASSUME ~Overlap, ~Expiry
  PROVE  IInv /\ TypeOK' /\ [Next]_vars => IInv'
<1> SUFFICES ASSUME IInv, TypeOK', [Next]_vars
             PROVE  EditorRemains' /\ NoneExpires' /\ OneRemoval'
  BY DEF IInv
<1> USE DEF IInv, TypeOK, EditorRemains, Editors, Member, OneRemoval, LastEditor,
            Remaining
<1>1. ASSUME NEW u \in User, Add(u) PROVE EditorRemains' /\ NoneExpires' /\ OneRemoval'
  <2>1. \A v \in Editors : v \in Editors'
    BY <1>1 DEF Add
  <2>2. NoneExpires'
    BY <1>1 DEF Add, NoneExpires
  <2> QED
    BY <1>1, <2>1, <2>2 DEF Add
<1>2. ASSUME NEW u \in User, Find(u) PROVE EditorRemains' /\ NoneExpires' /\ OneRemoval'
  BY <1>2 DEF Find, MayExpire, NoneExpires
<1>3. ASSUME NEW u \in User, Lapse(u) PROVE EditorRemains' /\ NoneExpires' /\ OneRemoval'
  BY <1>3 DEF Lapse, NoneExpires
<1>4. ASSUME NEW r \in Request, Count(r) PROVE EditorRemains' /\ NoneExpires' /\ OneRemoval'
  <2>1. EditorRemains' /\ NoneExpires'
    BY <1>4 DEF Count, NoneExpires
  <2>2. PICK S \in SUBSET User : ~LastEditor(S) /\ list' = [list EXCEPT ![r] = S]
    BY <1>4 DEF Count
  <2>3. \A q \in Request : pc[q] = "idle"
    BY <1>4 DEF Count
  <2>4. OneRemoval'
    BY <1>4, <2>2, <2>3 DEF Count
  <2> QED
    BY <2>1, <2>4
<1>5. ASSUME NEW r \in Request, Delete(r) PROVE EditorRemains' /\ NoneExpires' /\ OneRemoval'
  <2>1. \E v \in Editors : v \notin list[r]
    BY <1>5 DEF Delete
  <2>2. EditorRemains'
    BY <1>5, <2>1 DEF Delete
  <2>3. NoneExpires'
    BY <1>5 DEF Delete, NoneExpires
  <2>4. \A q \in Request : pc'[q] # "delete"
    BY <1>5 DEF Delete
  <2> QED
    BY <2>2, <2>3, <2>4
<1>6. CASE Save
  BY <1>6 DEF Save, NoneExpires
<1>7. CASE Answer
  BY <1>7 DEF Answer, NoneExpires
<1>8. CASE Expire
  <2>1. \A v \in Editors : v \in Editors'
    BY <1>8 DEF Expire, Expired, NoneExpires
  <2>2. NoneExpires'
    BY <1>8 DEF Expire, NoneExpires
  <2>3. \A S \in SUBSET User : ~LastEditor(S) => ~LastEditor(S)'
    BY <2>1
  <2>4. OneRemoval'
    <3>1. pc' = pc /\ list' = list
      BY <1>8 DEF Expire
    <3>2. \A r \in Request : pc[r] = "delete" => ~LastEditor(list[r])'
      BY <2>3, <3>1
    <3> QED
      BY <3>1, <3>2
  <2> QED
    BY <2>1, <2>2, <2>4
<1>9. CASE UNCHANGED vars
  BY <1>9 DEF vars, NoneExpires
<1> QED
  BY <1>1, <1>2, <1>3, <1>4, <1>5, <1>6, <1>7, <1>8, <1>9 DEF Next

\* "Cannot remove the last user with edit rights": removals one at a time
\* always leave the group an editor, whatever additions, changes of dates and
\* runs of the cron come between, as long as editors are given no date.
THEOREM EditorStays ==
  ASSUME ~Overlap, ~Expiry
  PROVE  Spec => []EditorRemains
<1>1. IInv /\ TypeOK' /\ [Next]_vars => IInv'
  BY StepKeeps
<1>2. IInv => EditorRemains
  BY DEF IInv
<1> QED
  BY <1>1, <1>2, InitHolds, TypeCorrect, PTL DEF Spec

-----------------------------------------------------------------------------
\* The row that setExpireDate has found is there until a removal takes it away,
\* and once it is saved it has the date of the request, unless that has passed.
Extends ==
    /\ spc \in {"save", "answer"} /\ ~sgone => row[suser] # "none"
    /\ spc = "answer" /\ ~sgone => exp[suser] \in {sexp, "past"}

LEMMA ExtendsStep ==
  ASSUME TypeOK, Extends, [Next]_vars
  PROVE  Extends'
<1> USE DEF TypeOK, Extends
<1>1. ASSUME NEW u \in User, Add(u) PROVE Extends'
  BY <1>1 DEF Add
<1>2. ASSUME NEW u \in User, Find(u) PROVE Extends'
  BY <1>2 DEF Find, Member
<1>3. ASSUME NEW u \in User, Lapse(u) PROVE Extends'
  BY <1>3 DEF Lapse
<1>4. ASSUME NEW r \in Request, Count(r) PROVE Extends'
  BY <1>4 DEF Count
<1>5. ASSUME NEW r \in Request, Delete(r) PROVE Extends'
  BY <1>5 DEF Delete
<1>6. CASE Save
  BY <1>6 DEF Save
<1>7. CASE Answer
  BY <1>7 DEF Answer
<1>8. CASE Expire
  BY <1>8 DEF Expire
<1>9. CASE UNCHANGED vars
  BY <1>9 DEF vars
<1> QED
  BY <1>1, <1>2, <1>3, <1>4, <1>5, <1>6, <1>7, <1>8, <1>9 DEF Next

\* setExpireDate: a request that is answered with success leaves a member whose
\* date is the one it asked for, or has passed since, whatever removals,
\* additions and the cron do between its three statements.
THEOREM ExtensionHolds == Spec => ExtendedIsMember
<1> DEFINE Success == spc # "ok" /\ spc' = "ok" =>
                          Member(suser) /\ exp[suser] \in {sexp, "past"}
<1>1. Init => Extends
  BY DEF Init, Extends
<1>2. TypeOK /\ Extends /\ [Next]_vars => Extends'
  BY ExtendsStep
<1>3. TypeOK /\ Extends /\ [Next]_vars => [Success]_vars
  <2>1. ASSUME TypeOK, Extends, Next, spc # "ok", spc' = "ok" PROVE Success
    BY <2>1 DEF Next, Add, Find, Lapse, Count, Delete, Save, Answer, Expire, Extends
  <2> QED
    BY <2>1
<1> QED
  BY <1>1, <1>2, <1>3, TypeCorrect, PTL DEF Spec, ExtendedIsMember

-----------------------------------------------------------------------------
(***************************************************************************)
(* The cleaning state of a project: its types always, and the decisions of *)
(* a reviewer when requests do not overlap.                                *)
(***************************************************************************)
CONSTANTS Episode, Run, Decision, List, Overwrite, About
VARIABLES file, verdict, cpc, base, standing

C == INSTANCE DatasetCleaning WITH pc <- cpc

Active == {"load", "work", "write"}

\* A request begins only when no other one is in progress.
OneAtATime == \A t, u \in C!Request : cpc[t] \in Active /\ cpc[u] \in Active => t = u

\* Only a request between open and write leaves the file without its text.
FileReadable ==
    /\ file # "torn"
    /\ file = "empty" => \E t \in C!Request : cpc[t] = "write"

WriterTruncated == \A t \in C!Request : cpc[t] = "write" => file = "empty"

\* The decisions to preserve are in the file, or in what its writer has read.
StoredDecisions ==
    file # "empty" =>
        \A e \in Episode : \A d \in standing[e] : file = "whole" /\ verdict[e] = d

ReadDecisions ==
    \A t \in C!Request : cpc[t] \in {"work", "write"} =>
        \A e \in Episode : \A d \in standing[e] : base[t][e] = d

CleaningInv ==
    /\ C!TypeOK
    /\ OneAtATime
    /\ FileReadable
    /\ WriterTruncated
    /\ StoredDecisions
    /\ ReadDecisions

-----------------------------------------------------------------------------
\* What a request writes has a verdict on every episode: build_summary.
LEMMA SummaryType ==
    ASSUME C!Parameters, C!TypeOK, NEW t \in C!Request
    PROVE  C!Summary(t) \in [Episode -> C!Verdict]
<1>1. base[t] \in [Episode -> C!Verdict] /\ t \in C!Verdict
  BY DEF C!TypeOK, C!Verdict
<1>2. CASE t \in Decision
  BY <1>1, <1>2 DEF C!Summary
<1>3. CASE t \notin Decision
  BY <1>1, <1>3 DEF C!Summary, C!Scored
<1> QED
  BY <1>2, <1>3

\* The state is well typed whether requests overlap or not.
THEOREM CleaningTyped == C!Parameters => (C!Spec => []C!TypeOK)
<1> SUFFICES ASSUME C!Parameters
             PROVE  C!Spec => []C!TypeOK
  OBVIOUS
<1>1. C!Init => C!TypeOK
  BY DEF C!Init, C!TypeOK, C!Unscored, C!Verdict
<1>2. C!TypeOK /\ [C!Next]_C!vars => C!TypeOK'
  <2> SUFFICES ASSUME C!TypeOK, [C!Next]_C!vars
               PROVE  C!TypeOK'
    OBVIOUS
  <2> USE DEF C!TypeOK
  <2>1. ASSUME NEW t \in C!Request, C!Begin(t) PROVE C!TypeOK'
    BY <2>1 DEF C!Begin, C!At
  <2>2. ASSUME NEW t \in C!Request, C!Load(t) PROVE C!TypeOK'
    <3>1. C!Unscored \in [Episode -> C!Verdict]
      BY DEF C!Unscored, C!Verdict
    <3> QED
      BY <2>2, <3>1 DEF C!Load, C!At
  <2>3. ASSUME NEW t \in C!Request, C!LoadFails(t) PROVE C!TypeOK'
    BY <2>3 DEF C!LoadFails, C!At
  <2>4. ASSUME NEW t \in C!Request, C!RunFails(t) PROVE C!TypeOK'
    BY <2>4 DEF C!RunFails, C!At
  <2>5. ASSUME NEW t \in C!Request, C!Open(t) PROVE C!TypeOK'
    BY <2>5 DEF C!Open, C!At
  <2>6. ASSUME NEW t \in C!Request, C!Write(t) PROVE C!TypeOK'
    <3>1. verdict' \in [Episode -> C!Verdict]
      BY <2>6, SummaryType DEF C!Write
    <3>2. standing' \in [Episode -> SUBSET Decision]
      BY <2>6 DEF C!Write
    <3> QED
      BY <2>6, <3>1, <3>2 DEF C!Write, C!At
  <2>7. CASE UNCHANGED C!vars
    BY <2>7 DEF C!vars
  <2> QED
    BY <2>1, <2>2, <2>3, <2>4, <2>5, <2>6, <2>7 DEF C!Next
<1> QED
  BY <1>1, <1>2, PTL DEF C!Spec

-----------------------------------------------------------------------------
LEMMA CleaningInit == ASSUME C!Parameters, C!Init PROVE CleaningInv
  BY DEF C!Init, CleaningInv, C!TypeOK, C!Unscored, C!Verdict, OneAtATime, Active,
         FileReadable, WriterTruncated, StoredDecisions, ReadDecisions

\* What is written has every decision that the write does not end.
LEMMA WriteKeepsDecisions ==
    ASSUME CleaningInv, NEW t \in C!Request, C!Write(t),
           NEW e \in Episode, NEW d \in standing'[e]
    PROVE  verdict'[e] = d
<1>1. verdict' = C!Summary(t)
  BY DEF C!Write
<1>2. \A x \in standing[e] : base[t][e] = x /\ x \in Decision
  BY DEF CleaningInv, ReadDecisions, C!TypeOK, C!Write, C!At
<1>3. base[t] \in [Episode -> C!Verdict] /\ standing \in [Episode -> SUBSET Decision]
  BY DEF CleaningInv, C!TypeOK
<1>4. CASE t \in Decision
  <2>1. standing' = [standing EXCEPT ![About[t]] = {t}]
    BY <1>4 DEF C!Write
  <2> QED
    BY <1>1, <1>2, <1>3, <1>4, <2>1 DEF C!Summary
<1>5. CASE t \notin Decision
  <2>1. d \in standing[e] /\ ~(t \in Overwrite /\ e \in List[t])
    BY <1>5 DEF C!Write
  <2>2. verdict'[e] = C!Scored(t, e)
    BY <1>1, <1>5 DEF C!Summary
  <2> QED
    BY <1>2, <2>1, <2>2 DEF C!Scored
<1> QED
  BY <1>4, <1>5

LEMMA CleaningStep ==
    ASSUME C!Parameters, ~Overlap, CleaningInv, [C!Next]_C!vars, C!TypeOK'
    PROVE  CleaningInv'
<1> USE DEF CleaningInv, Active
<1>1. ASSUME NEW t \in C!Request, C!Begin(t) PROVE CleaningInv'
  <2>1. cpc' = [cpc EXCEPT ![t] = "load"] /\ cpc[t] = "new" /\ C!Quiet
    BY <1>1 DEF C!Begin, C!At
  <2>2. \A u \in C!Request : cpc[u] \in {"new", "done"}
    BY <2>1 DEF C!Quiet
  <2>3. \A u \in C!Request : u # t => cpc'[u] \in {"new", "done"}
    BY <2>1, <2>2 DEF C!TypeOK
  <2>4. cpc'[t] = "load"
    BY <2>1 DEF C!TypeOK
  <2> QED
    BY <1>1, <2>2, <2>3, <2>4
    DEF C!Begin, OneAtATime, FileReadable, WriterTruncated, StoredDecisions, ReadDecisions
<1>2. ASSUME NEW t \in C!Request, cpc[t] \in Active, NEW s, cpc' = [cpc EXCEPT ![t] = s]
      PROVE  /\ OneAtATime'
             /\ \A u \in C!Request : u # t => cpc[u] \notin Active /\ cpc'[u] \notin Active
             /\ cpc'[t] = s
  BY <1>2 DEF C!TypeOK, OneAtATime
<1>3. ASSUME NEW t \in C!Request, C!Load(t) PROVE CleaningInv'
  <2>1. cpc[t] = "load" /\ cpc' = [cpc EXCEPT ![t] = "work"]
    BY <1>3 DEF C!Load, C!At
  <2>2. /\ OneAtATime'
        /\ \A u \in C!Request : u # t => cpc[u] \notin Active /\ cpc'[u] \notin Active
        /\ cpc'[t] = "work"
    BY <1>2, <2>1
  <2>3. FileReadable' /\ WriterTruncated' /\ StoredDecisions'
    BY <1>3, <2>2, <2>1 DEF C!Load, FileReadable, WriterTruncated, StoredDecisions
  <2>4. ReadDecisions'
    <3>1. \A e \in Episode : \A d \in standing[e] : file = "whole" /\ verdict[e] = d
      BY <1>3 DEF C!Load, StoredDecisions
    <3>2. base'[t] = IF file = "none" THEN C!Unscored ELSE verdict
      BY <1>3 DEF C!Load, C!TypeOK
    <3>3. standing' = standing
      BY <1>3 DEF C!Load
    <3> QED
      BY <2>2, <3>1, <3>2, <3>3 DEF ReadDecisions
  <2> QED
    BY <2>2, <2>3, <2>4
<1>4. ASSUME NEW t \in C!Request, C!LoadFails(t) \/ C!RunFails(t) PROVE CleaningInv'
  <2>1. cpc[t] \in {"load", "work"} /\ cpc' = [cpc EXCEPT ![t] = "done"]
    BY <1>4 DEF C!LoadFails, C!RunFails, C!At
  <2>2. /\ OneAtATime'
        /\ \A u \in C!Request : u # t => cpc[u] \notin Active /\ cpc'[u] \notin Active
        /\ cpc'[t] = "done"
    BY <1>2, <2>1
  <2>3. UNCHANGED <<file, verdict, base, standing>>
    BY <1>4 DEF C!LoadFails, C!RunFails
  <2> QED
    BY <2>1, <2>2, <2>3 DEF FileReadable, WriterTruncated, StoredDecisions, ReadDecisions
<1>5. ASSUME NEW t \in C!Request, C!Open(t) PROVE CleaningInv'
  <2>1. cpc[t] = "work" /\ cpc' = [cpc EXCEPT ![t] = "write"]
    BY <1>5 DEF C!Open, C!At
  <2>2. /\ OneAtATime'
        /\ \A u \in C!Request : u # t => cpc[u] \notin Active /\ cpc'[u] \notin Active
        /\ cpc'[t] = "write"
    BY <1>2, <2>1
  <2> QED
    BY <1>5, <2>1, <2>2
    DEF C!Open, FileReadable, WriterTruncated, StoredDecisions, ReadDecisions
<1>6. ASSUME NEW t \in C!Request, C!Write(t) PROVE CleaningInv'
  <2>1. cpc[t] = "write" /\ cpc' = [cpc EXCEPT ![t] = "done"]
    BY <1>6 DEF C!Write, C!At
  <2>2. /\ OneAtATime'
        /\ \A u \in C!Request : u # t => cpc[u] \notin Active /\ cpc'[u] \notin Active
        /\ cpc'[t] = "done"
    BY <1>2, <2>1
  <2>3. file' = "whole"
    BY <1>6, <2>1 DEF C!Write, WriterTruncated
  <2>4. StoredDecisions'
    BY <1>6, <2>3, WriteKeepsDecisions DEF StoredDecisions
  <2> QED
    BY <2>2, <2>3, <2>4 DEF FileReadable, WriterTruncated, ReadDecisions
<1>7. CASE UNCHANGED C!vars
  BY <1>7 DEF C!vars, OneAtATime, FileReadable, WriterTruncated, StoredDecisions,
     ReadDecisions
<1> QED
  BY <1>1, <1>3, <1>4, <1>5, <1>6, <1>7 DEF C!Next

\* run_cleaning and update_episode_decision: when the requests about a project
\* are made one after the other, the file can be read between them and has every
\* decision that no later one replaced and no run was told to overwrite.
THEOREM DecisionsPreserved ==
    C!Parameters /\ ~Overlap => (C!Spec => []C!DecisionsStand)
<1> SUFFICES ASSUME C!Parameters, ~Overlap
             PROVE  C!Spec => []C!DecisionsStand
  OBVIOUS
<1>1. C!Init => CleaningInv
  BY CleaningInit
<1>2. C!TypeOK' /\ CleaningInv /\ [C!Next]_C!vars => CleaningInv'
  BY CleaningStep
<1>3. C!Spec => []C!TypeOK
  BY CleaningTyped
<1>4. CleaningInv => C!DecisionsStand
  BY DEF CleaningInv, C!DecisionsStand, C!Quiet, FileReadable, StoredDecisions, C!TypeOK
<1> QED
  BY <1>1, <1>2, <1>3, <1>4, PTL DEF C!Spec
=============================================================================
