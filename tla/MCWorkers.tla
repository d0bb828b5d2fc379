------------------------------ MODULE MCWorkers ------------------------------
(***************************************************************************)
(* Four components in which a process works for hours outside of the       *)
(* run's mutex: a delegated worker, a watch of one, a horizon session, a   *)
(* landing.  They share no variable, so one run of TLC explores each by    *)
(* itself: the initial state chooses the component in focus, and only that *)
(* component takes steps.                                                  *)
(***************************************************************************)
EXTENDS Delegation, HorizonSession, LandingMutex, WatchSessions, TLC

CONSTANTS w1, w2, w3

VARIABLE focus

\* Task 2 depends on task 1.
MCNeeds == (1 :> {}) @@ (2 :> {1})

\* A multiplexed watch and two focused ones that all follow worker 2.
MCFollows == (w1 :> {1, 2}) @@ (w2 :> {2}) @@ (w3 :> {2})

WorkersInit ==
    /\ focus \in {"delegation", "horizon", "landing", "watch"}
    /\ DInit /\ SInit /\ LandingInit /\ HInit

WorkersNext ==
    /\ UNCHANGED focus
    /\ \/ focus = "delegation" /\ DNext /\ UNCHANGED <<sVars, vars, hVars>>
       \/ focus = "horizon" /\ SNext /\ UNCHANGED <<dVars, vars, hVars>>
       \/ focus = "landing" /\ LandingNext /\ UNCHANGED <<dVars, sVars, hVars>>
       \/ focus = "watch" /\ HNext /\ UNCHANGED <<dVars, sVars, vars>>

\* The fairness of each component, in the behaviours that are about it.
WorkersFairness ==
    /\ \A p \in Delegates : WF_dVars(focus = "delegation" /\ DelegateStep(p))
    /\ WF_sVars(focus = "horizon" /\ StartSession)
    /\ WF_sVars(focus = "horizon" /\ Opening)
    /\ WF_sVars(focus = "horizon" /\ Driving)
    /\ \A r \in RunIds : WF_sVars(focus = "horizon" /\ RunStep(r))
    /\ \A p \in Procs : WF_vars(focus = "landing" /\ LanderStep(p))

WorkersSpec ==
    /\ WorkersInit /\ [][WorkersNext]_<<focus, dVars, sVars, vars, hVars>>
    /\ WorkersFairness
=============================================================================
