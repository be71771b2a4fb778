--------------------------- MODULE MCActionRunner ---------------------------
(***************************************************************************)
(* One action on one host.  The Janitor, the handlers, crashes and the     *)
(* executions of a job that is taken again all meet on the same action;    *)
(* the theorems of ActionRunnerProofs hold for any set of actions.         *)
(***************************************************************************)
EXTENDS ActionRunner

CONSTANT a1

OneAction == {a1}
=============================================================================
