------------------------------- MODULE MCStore -------------------------------
(***************************************************************************)
(* What one run keeps: its state under the commands of the operator, the   *)
(* files of its store, the inbox item it claims and files, and the         *)
(* registry of its agents.  As modelled they share no variable, so one run *)
(* of TLC explores each by itself: the initial state chooses the component *)
(* in focus, and only that component takes steps.  The inbox is explored   *)
(* once with restores and once with a reconciliation by `pan cleanup`.     *)
(***************************************************************************)
EXTENDS MCRunLifecycle, RunStore, Inbox, Hypervisor

VARIABLE focus

KeptInit ==
    /\ focus \in {"run", "store", "inbox", "cleanup", "agents"}
    /\ Init /\ StoreInit /\ IInit /\ YInit

KeptNext ==
    /\ UNCHANGED focus
    /\ \/ focus = "run" /\ Next /\ UNCHANGED <<runStoreVars, iVars, yVars>>
       \/ focus = "store" /\ StoreNext /\ UNCHANGED <<vars, iVars, yVars>>
       \/ focus = "inbox" /\ INext /\ cleanups' = cleanups /\ UNCHANGED <<vars, runStoreVars, yVars>>
       \/ focus = "cleanup" /\ INext /\ restore' = restore /\ UNCHANGED <<vars, runStoreVars, yVars>>
       \/ focus = "agents" /\ YNext /\ UNCHANGED <<vars, runStoreVars, iVars>>

KeptSpec == KeptInit /\ [][KeptNext]_<<focus, vars, runStoreVars, iVars, yVars>>
=============================================================================
