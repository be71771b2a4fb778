--------------------------- MODULE ActionContract ---------------------------
(***************************************************************************)
(* What a host promises about the actions queued on it, whatever its       *)
(* consumer, its queue handlers, its Janitor and its crashes do meanwhile: *)
(* an action gets one API key and one run of its container, which starts   *)
(* only while the key is valid; its verdict is "done" only when that run   *)
(* ended with exit code 0, and a verdict of "done" is only replaced by     *)
(* "failed" or by the deletion of the action.                              *)
(*                                                                         *)
(* ActionRunner implements this contract.                                  *)
(***************************************************************************)
CONSTANT Action

VARIABLES
    verdict,   \* open, done, failed or deleted
    outcome,   \* of the container: none yet, live, zero or bad
    key        \* none, held, dropped, or leaked by a crash

vars == <<verdict, outcome, key>>

Init ==
    /\ verdict = [a \in Action |-> "open"]
    /\ outcome = [a \in Action |-> "none"]
    /\ key = [a \in Action |-> "none"]

-----------------------------------------------------------------------------
NewKey(a) ==
    /\ key[a] = "none"
    /\ key' = [key EXCEPT ![a] = "held"]
    /\ UNCHANGED <<verdict, outcome>>

DropKey(a) ==
    /\ key[a] = "held"
    /\ key' = [key EXCEPT ![a] = "dropped"]
    /\ UNCHANGED <<verdict, outcome>>

Start(a) ==
    /\ outcome[a] = "none" /\ key[a] = "held"
    /\ outcome' = [outcome EXCEPT ![a] = "live"]
    /\ UNCHANGED <<verdict, key>>

End(a) ==
    /\ outcome[a] = "live"
    /\ \E o \in {"zero", "bad"} : outcome' = [outcome EXCEPT ![a] = o]
    /\ UNCHANGED <<verdict, key>>

\* A handler that found the action before it was deleted may write it again.
Succeed(a) ==
    /\ outcome[a] = "zero"
    /\ verdict' = [verdict EXCEPT ![a] = "done"]
    /\ UNCHANGED <<outcome, key>>

Fail(a) ==
    /\ verdict' = [verdict EXCEPT ![a] = "failed"]
    /\ UNCHANGED <<outcome, key>>

\* The Janitor or a handler gave the action up, its execution goes on.
Reopen(a) ==
    /\ verdict[a] = "failed"
    /\ verdict' = [verdict EXCEPT ![a] = "open"]
    /\ UNCHANGED <<outcome, key>>

Delete(a) ==
    /\ verdict[a] \in {"done", "failed"}
    /\ verdict' = [verdict EXCEPT ![a] = "deleted"]
    /\ UNCHANGED <<outcome, key>>

\* The process dies, and with it whoever was to drop a key.
Leak ==
    /\ key' = [a \in Action |-> IF key[a] = "held" THEN "leaked" ELSE key[a]]
    /\ UNCHANGED <<verdict, outcome>>

Next ==
    \/ Leak
    \/ \E a \in Action :
          \/ NewKey(a) \/ DropKey(a) \/ Start(a) \/ End(a)
          \/ Succeed(a) \/ Fail(a) \/ Reopen(a) \/ Delete(a)

Spec == Init /\ [][Next]_vars
=============================================================================
