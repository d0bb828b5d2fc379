------------------------------- MODULE MCGroups -------------------------------
(***************************************************************************)
(* The components that start and follow runs in groups or on their own:    *)
(* cohort sessions, best-of-N sessions, the schedule, and the releases     *)
(* their worktrees end in, and the worktrees themselves.  They share no    *)
(* variable, so one run of TLC explores each by itself: the initial state  *)
(* chooses the component in focus, and only that component takes steps.    *)
(***************************************************************************)
EXTENDS MCCohorts, BestOfN, ScheduleTicks, ReleaseLanding, Worktrees

VARIABLE focus

GroupsInit ==
    /\ focus \in {"cohorts", "best-of-n", "schedule", "release", "worktrees"}
    /\ CInit /\ BInit /\ SchInit /\ RInit /\ WInit
    /\ focus # "cohorts" => limit = 1

GroupsNext ==
    /\ UNCHANGED focus
    /\ \/ focus = "cohorts" /\ CNext /\ UNCHANGED <<bVars, schVars, rVars, wVars>>
       \/ focus = "best-of-n" /\ BNext /\ UNCHANGED <<cVars, schVars, rVars, wVars>>
       \/ focus = "schedule" /\ SchNext /\ UNCHANGED <<cVars, bVars, rVars, wVars>>
       \/ focus = "release" /\ RNext /\ UNCHANGED <<cVars, bVars, schVars, wVars>>
       \/ focus = "worktrees" /\ WNext /\ UNCHANGED <<cVars, bVars, schVars, rVars>>

GroupsSpec == GroupsInit /\ [][GroupsNext]_<<focus, cVars, bVars, schVars, rVars, wVars>>
===============================================================================
