--------------------------- MODULE DatasetCleaning ---------------------------
(***************************************************************************)
(* The cleaning state of one project of Robot Data Studio: the runs that   *)
(* score its episodes and the decisions of a reviewer, which FastAPI       *)
(* handles side by side in threads, each of them reading, changing and     *)
(* writing the whole of cleaning_state.json.                               *)
(*                                                                         *)
(* A stream that its client leaves goes on in its thread, so that a run    *)
(* has the same steps whoever waits for it.  The projects are kept in      *)
(* memory only: nobody finds the file again after a restart.               *)
(***************************************************************************)
CONSTANTS
    Episode,
    Run, Decision,   \* requests
    List,            \* the episodes that a run scores
    Overwrite,       \* the runs with overwrite_manual
    About,           \* the episode that a decision is about
    Overlap          \* requests may overlap, as nothing in the code prevents

Request == Run \cup Decision

Parameters ==
    /\ List \in [Run -> SUBSET Episode]
    /\ About \in [Decision -> Episode]

VARIABLES
    file,      \* cleaning_state.json: "none", "empty", "whole", or "torn"
    verdict,   \* ... whose verdict it has on an episode, when it is whole
    pc,
    base,      \* the verdicts that a request has read
    standing   \* history: the decision on an episode that is to be preserved

vars == <<file, verdict, pc, base, standing>>

Verdict == Request \cup {"unscored"}

TypeOK ==
    /\ file \in {"none", "empty", "whole", "torn"}
    /\ verdict \in [Episode -> Verdict]
    /\ pc \in [Request -> {"new", "load", "work", "write", "done"}]
    /\ base \in [Request -> [Episode -> Verdict]]
    /\ standing \in [Episode -> SUBSET Decision]

Unscored == [e \in Episode |-> "unscored"]

Init ==
    /\ file = "none" /\ verdict = Unscored
    /\ pc = [t \in Request |-> "new"]
    /\ base = [t \in Request |-> Unscored]
    /\ standing = [e \in Episode |-> {}]

Quiet == \A t \in Request : pc[t] \in {"new", "done"}

At(t, from, to) == pc[t] = from /\ pc' = [pc EXCEPT ![t] = to]

-----------------------------------------------------------------------------
\* A pipeline filters the dataset here, before it reads the state.
Begin(t) ==
    /\ At(t, "new", "load")
    /\ Overlap \/ Quiet
    /\ UNCHANGED <<file, verdict, base, standing>>

Load(t) ==
    /\ file \in {"none", "whole"}
    /\ At(t, "load", "work")
    /\ base' = [base EXCEPT ![t] = IF file = "none" THEN Unscored ELSE verdict]
    /\ UNCHANGED <<file, verdict, standing>>

\* What is not JSON fails the request, as it will the next ones.
LoadFails(t) ==
    /\ file \in {"empty", "torn"}
    /\ At(t, "load", "done")
    /\ UNCHANGED <<file, verdict, base, standing>>

\* The filters or the scorer of a run throw.
RunFails(t) ==
    /\ t \in Run
    /\ At(t, "work", "done")
    /\ UNCHANGED <<file, verdict, base, standing>>

\* run_cleaning: manual verdicts are carried over unless they are overwritten,
\* and so is what was there for the episodes that were not asked for.
Scored(t, e) ==
    IF e \notin List[t] \/ (t \notin Overwrite /\ base[t][e] \in Decision)
    THEN base[t][e] ELSE t

Summary(t) ==
    IF t \in Decision THEN [base[t] EXCEPT ![About[t]] = t]
    ELSE [e \in Episode |-> Scored(t, e)]

\* write_text truncates the file first ...
Open(t) ==
    /\ At(t, "work", "write")
    /\ file' = "empty"
    /\ UNCHANGED <<verdict, base, standing>>

\* ... and writes from its start: over what another writer, which opened it
\* too, has put there since; of a longer text the end remains.
Write(t) ==
    /\ At(t, "write", "done")
    /\ file' = "whole" \/ (file # "empty" /\ file' = "torn")
    /\ verdict' = Summary(t)
    /\ standing' = IF t \in Decision THEN [standing EXCEPT ![About[t]] = {t}]
                   ELSE [e \in Episode |->
                           IF t \in Overwrite /\ e \in List[t] THEN {}
                           ELSE standing[e]]
    /\ UNCHANGED base

Next ==
    \E t \in Request :
        Begin(t) \/ Load(t) \/ LoadFails(t) \/ RunFails(t) \/ Open(t) \/ Write(t)

Spec == Init /\ [][Next]_vars

-----------------------------------------------------------------------------
\* test_projects.py "manual episode decision is persisted and preserved by
\* rerun", when requests do not overlap: between requests the file can be read
\* and has every decision that no later one replaced and no run was told to
\* overwrite.
DecisionsStand ==
    Quiet =>
        /\ file \in {"none", "whole"}
        /\ \A e \in Episode : \A d \in standing[e] :
              file = "whole" /\ verdict[e] = d
=============================================================================
