--------------------------- MODULE ActionSchedule ---------------------------
(***************************************************************************)
(* What the workers promise together about the actions they are given: an  *)
(* action starts at most once, from pending, on one worker; while it runs  *)
(* nobody else writes its state, and the worker it runs on settles it,     *)
(* unless that worker dies.  An action that does not run may be given up   *)
(* at any time, also one that was done.                                    *)
(*                                                                         *)
(* ActionDispatch implements this as long as healthChecks do not overlap.  *)
(***************************************************************************)
CONSTANTS Action, Worker

VARIABLES
    status,   \* new, pending, started, done or failed
    hosts     \* the workers that run an action

vars == <<status, hosts>>

Init ==
    /\ status = [a \in Action |-> "new"]
    /\ hosts = [a \in Action |-> {}]

-----------------------------------------------------------------------------
Create(a) ==
    /\ status[a] = "new"
    /\ status' = [status EXCEPT ![a] = "pending"]
    /\ UNCHANGED hosts

Start(a, w) ==
    /\ status[a] = "pending" /\ hosts[a] = {}
    /\ status' = [status EXCEPT ![a] = "started"]
    /\ hosts' = [hosts EXCEPT ![a] = {w}]

Finish(a, w) ==
    /\ status[a] = "started" /\ hosts[a] = {w}
    /\ \E s \in {"done", "failed"} : status' = [status EXCEPT ![a] = s]
    /\ hosts' = [hosts EXCEPT ![a] = {}]

\* The worker dies: the action stays started until somebody finds its job.
Lose(a, w) ==
    /\ status[a] = "started" /\ hosts[a] = {w}
    /\ hosts' = [hosts EXCEPT ![a] = {}]
    /\ UNCHANGED status

\* No worker for it, or the one that takes it finds it started or settled.
GiveUp(a) ==
    /\ status[a] # "new" /\ hosts[a] = {}
    /\ status' = [status EXCEPT ![a] = "failed"]
    /\ UNCHANGED hosts

Next ==
    \E a \in Action :
        \/ Create(a) \/ GiveUp(a)
        \/ \E w \in Worker : Start(a, w) \/ Finish(a, w) \/ Lose(a, w)

Spec == Init /\ [][Next]_vars
=============================================================================
