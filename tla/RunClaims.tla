------------------------------- MODULE RunClaims -------------------------------
(***************************************************************************)
(* What the documentation says of a paused run, stated as a property of    *)
(* RunLifecycle.  A run of this project refutes it; PROJECT.json quotes    *)
(* the line it is taken from.                                              *)
(***************************************************************************)
EXTENDS RunLifecycle

(* The operator owns the answer to operator_decision: a run the operator   *)
(* paused is moved by a command from outside, never by its own loop.       *)
PauseHeldForDecision ==
    [][run.status = "paused" /\ run.pause.saved /\ run'.status # "paused"
          => interventions' # interventions]_vars
=============================================================================
