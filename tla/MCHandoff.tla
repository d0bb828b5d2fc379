------------------------------ MODULE MCHandoff ------------------------------
(***************************************************************************)
(* Components a supervisor session and its stage share: the handoff of the *)
(* session, the execution of verification commands, and the cache of gate  *)
(* passes.  They share no variable, so one run of TLC explores each by     *)
(* itself: the initial state chooses the component in focus, and only that *)
(* component takes steps.                                                  *)
(***************************************************************************)
EXTENDS SupervisorHandoff, VerificationExecution, GatePasses

VARIABLE focus

HandoffInit ==
    /\ focus \in {"handoff", "verification", "gates"}
    /\ HInit /\ VInit /\ GInit
    /\ focus # "handoff" => hrun.bound

HandoffNext ==
    /\ UNCHANGED focus
    /\ \/ focus = "handoff" /\ HNext /\ UNCHANGED <<vVars, gVars>>
       \/ focus = "verification" /\ VNext /\ UNCHANGED <<hVars, gVars>>
       \/ focus = "gates" /\ GNext /\ UNCHANGED <<hVars, vVars>>

\* The fairness of the handoff, in the behaviours that are about it.
HandoffSpec ==
    /\ HandoffInit /\ [][HandoffNext]_<<focus, hVars, vVars, gVars>>
    /\ \A a \in Attempts : WF_hVars(focus = "handoff" /\ CliStep(a))
=============================================================================
