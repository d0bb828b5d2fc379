--------------------------- MODULE HorizonSession ---------------------------
(***************************************************************************)
(* A horizon session works through a queue of tasks while the operator is  *)
(* away.  It holds one task at a time: a run opened for it, the scoped     *)
(* re-plan of that run, or the delivery run its approved plan was routed   *)
(* to.  Every command is one critical section of the session mutex, but a  *)
(* run it creates is on disk before the session names it, and runs move on *)
(* by themselves.  A run that stops goes to the arbiter, which overrides   *)
(* the stop, reopens the task or defers it.                                *)
(***************************************************************************)
EXTENDS Integers, Sequences, SequencesExt, FiniteSets

CONSTANTS
    Tasks,          \* 1 .. n, in declared order
    Needs,          \* the tasks each task depends on
    Prompts,        \* tasks a command executes itself, without a run
    Routed,         \* tasks whose approved plan starts a delivery run
    OverrideBound,  \* ARBITER_OVERRIDE_BOUND
    MaxTaskRuns,    \* bound: runs created
    MaxReinstates,  \* bound: deferred tasks the supervisor reinstates
    MaxHorizonDeaths  \* bound: session commands that die

ASSUME HorizonAssumption ==
    /\ Tasks \subseteq Nat /\ IsFiniteSet(Tasks)
    /\ Needs \in [Tasks -> SUBSET Tasks]
    /\ OverrideBound \in Nat

VARIABLES
    session,     \* status, the active task (0: none)
    task,        \* per task: status, run_id, route, replans_spent
    taskRuns,    \* the runs in order of creation
    driving,     \* the command that created a run and has not recorded it
    overrides,   \* per task: arbiter records that count as overrides
    reinstates, horizonDeaths

sVars == <<session, task, taskRuns, driving, overrides, reinstates,
           horizonDeaths>>

NotRouted == 0
RouteFailed == -1
NoDriving == [kind |-> "none", task |-> 0, run |-> 0, of |-> 0]
OpenStatuses == {"pending", "running", "replanning"}
Resumable == {"gate", "exhausted"}
RunEnded == {"succeeded", "failed", "canceled"}
RunIds == 1 .. MaxTaskRuns

STypeOK ==
    /\ session \in [status : {"created", "running", "succeeded", "empty", "abandoned"},
                    active : Tasks \cup {0}]
    /\ task \in [Tasks -> [status : OpenStatuses \cup {"succeeded", "deferred", "blocked"},
                           run : 0 .. MaxTaskRuns, route : -1 .. MaxTaskRuns,
                           replans : Nat]]
    /\ taskRuns \in Seq([task : Tasks, role : {"task", "replan", "delivery"},
                         status : {"advancing"} \cup Resumable \cup RunEnded,
                         handoff : -1 .. MaxTaskRuns, replans : Nat])
    /\ driving \in [kind : {"none", "task", "replan", "prompt"},
                    task : Tasks \cup {0}, run : 0 .. MaxTaskRuns,
                    of : 0 .. MaxTaskRuns]
    /\ overrides \in [Tasks -> 0 .. OverrideBound + MaxReinstates]
    /\ reinstates \in 0 .. MaxReinstates /\ horizonDeaths \in 0 .. MaxHorizonDeaths

SInit ==
    /\ session = [status |-> "created", active |-> 0]
    /\ task = [t \in Tasks |-> [status |-> "pending", run |-> 0,
                                route |-> NotRouted, replans |-> 0]]
    /\ taskRuns = <<>>
    /\ driving = NoDriving
    /\ overrides = [t \in Tasks |-> 0]
    /\ reinstates = 0 /\ horizonDeaths = 0

-----------------------------------------------------------------------------
(* The queue                                                               *)

\* skipBlockedDependents
Skipped(tasks) ==
    LET spread[n \in 0 .. Cardinality(Tasks)] ==
            IF n = 0 THEN {t \in Tasks : tasks[t].status \in {"deferred", "blocked"}}
            ELSE spread[n - 1] \cup
                 {t \in Tasks : /\ tasks[t].status = "pending"
                                /\ Needs[t] \cap spread[n - 1] # {}}
        blocked == spread[Cardinality(Tasks)]
    IN [t \in Tasks |-> IF tasks[t].status = "pending" /\ t \in blocked
                        THEN [tasks[t] EXCEPT !.status = "blocked"] ELSE tasks[t]]

\* transitiveHorizonDependents
Dependents(t) ==
    LET reach[n \in 0 .. Cardinality(Tasks)] ==
            IF n = 0 THEN {t}
            ELSE reach[n - 1] \cup {u \in Tasks : Needs[u] \cap reach[n - 1] # {}}
    IN reach[Cardinality(Tasks)] \ {t}

\* sessionTerminalState
SessionOver(status, tasks) ==
    IF \E t \in Tasks : tasks[t].status \in OpenStatuses THEN status
    ELSE IF \A t \in Tasks : tasks[t].status = "succeeded" THEN "succeeded" ELSE "empty"

EligibleNow(tasks) ==
    {t \in Tasks : tasks[t].status = "pending"
                   /\ \A u \in Needs[t] : tasks[u].status = "succeeded"}

FirstEligible(tasks) ==
    CHOOSE t \in EligibleNow(tasks) : \A u \in EligibleNow(tasks) : t <= u

RunOfTask(t) == IF task[t].run = 0 THEN {} ELSE {taskRuns[task[t].run]}

\* advancingHorizonRun: a route counts only while its task is running.
SessionAdvances ==
    \E t \in Tasks :
        \/ \E r \in RunOfTask(t) : r.status = "advancing"
        \/ /\ task[t].status = "running" /\ task[t].route > 0
           /\ taskRuns[task[t].route].status = "advancing"

\* Ending of a command that may have released the slot.
Settled(active, tasks) ==
    LET left == IF active = 0 THEN Skipped(tasks) ELSE tasks IN
    /\ task' = left
    /\ session' = [status |-> IF active = 0 THEN SessionOver(session.status, left)
                              ELSE session.status,
                   active |-> active]

NewRun(t, role) ==
    [task |-> t, role |-> role, status |-> "advancing", handoff |-> NotRouted,
     replans |-> task[t].replans]

-----------------------------------------------------------------------------
(* horizon start, next                                                     *)

StartSession ==
    /\ driving = NoDriving /\ session.status = "created"
    /\ session' = [session EXCEPT !.status = "running"]
    /\ UNCHANGED <<task, taskRuns, driving, overrides, reinstates, horizonDeaths>>

NextAllowed == driving = NoDriving /\ session.status = "running" /\ session.active = 0
               /\ ~SessionAdvances

\* startWorkflowTask creates the run; the session is persisted afterwards.
OpenTaskRun ==
    /\ NextAllowed /\ EligibleNow(Skipped(task)) # {}
    /\ LET t == FirstEligible(Skipped(task)) IN
       /\ t \notin Prompts /\ Len(taskRuns) < MaxTaskRuns
       /\ taskRuns' = Append(taskRuns, NewRun(t, "task"))
       /\ driving' = [kind |-> "task", task |-> t, run |-> Len(taskRuns) + 1, of |-> 0]
    /\ UNCHANGED <<session, task, overrides, reinstates, horizonDeaths>>

RecordTaskRun ==
    /\ driving.kind = "task"
    /\ task' = [Skipped(task) EXCEPT ![driving.task].status = "running",
                                     ![driving.task].run = driving.run]
    /\ session' = [session EXCEPT !.active = driving.task]
    /\ driving' = NoDriving
    /\ UNCHANGED <<taskRuns, overrides, reinstates, horizonDeaths>>

\* A prompt task is recorded running before it is executed.
StartPrompt ==
    /\ NextAllowed /\ EligibleNow(Skipped(task)) # {}
    /\ LET t == FirstEligible(Skipped(task)) IN
       /\ t \in Prompts
       /\ task' = [Skipped(task) EXCEPT ![t].status = "running"]
       /\ session' = [session EXCEPT !.active = t]
       /\ driving' = [NoDriving EXCEPT !.kind = "prompt", !.task = t]
    /\ UNCHANGED <<taskRuns, overrides, reinstates, horizonDeaths>>

NothingEligible ==
    /\ NextAllowed /\ EligibleNow(Skipped(task)) = {}
    /\ task' = Skipped(task)
    /\ session' = [session EXCEPT !.status = SessionOver(session.status, Skipped(task))]
    /\ UNCHANGED <<taskRuns, driving, overrides, reinstates, horizonDeaths>>

-----------------------------------------------------------------------------
(* Deferral and the arbiter                                                *)

\* writeDeferral on the tasks and the slot.
Deferred(t) ==
    [u \in Tasks |->
        IF u = t THEN [task[t] EXCEPT !.status = "deferred"]
        ELSE IF u \in Dependents(t) /\ task[u].status = "pending"
        THEN [task[u] EXCEPT !.status = "blocked"] ELSE task[u]]

\* stopRunForDeferral pauses the run the task names, and no other.
StopOwnRun(t) ==
    IF task[t].run # 0 /\ taskRuns[task[t].run].status = "advancing"
    THEN [taskRuns EXCEPT ![task[t].run].status = "gate"] ELSE taskRuns

SlotAfter(t) == IF session.active = t THEN 0 ELSE session.active

DeferTo(t) ==
    /\ taskRuns' = StopOwnRun(t)
    /\ Settled(SlotAfter(t), Deferred(t))
    /\ UNCHANGED <<overrides>>

(* Mutant: an override that continues the run is not recorded. *)
MutantCountOverride(t) == UNCHANGED overrides

CountOverride(t) == overrides' = [overrides EXCEPT ![t] = @ + 1]

\* A spent bound, a named hard block, or an action and a fallback that the run
\* refused each defer the task.
ArbiterDefers(t) == DeferTo(t)

\* restart-task: the task is reopened from its request.
ArbiterRestarts(t) ==
    /\ overrides[t] < OverrideBound
    /\ taskRuns' = StopOwnRun(t)
    /\ Settled(SlotAfter(t), [task EXCEPT ![t].status = "pending", ![t].run = 0])
    /\ CountOverride(t)

\* An action lets run r go on; an approval of its last gate ends it, and starts
\* no delivery.
ActedOn(r) == {"advancing"} \cup (IF taskRuns[r].status = "gate" THEN {"succeeded"} ELSE {})

\* Any other action is applied to run r and leaves the task as it is.
ArbiterContinues(t, r) ==
    /\ overrides[t] < OverrideBound
    /\ r # 0 /\ taskRuns[r].status \in Resumable
    /\ \E status \in ActedOn(r) : taskRuns' = [taskRuns EXCEPT ![r].status = status]
    /\ CountOverride(t)
    /\ UNCHANGED <<session, task>>

Arbitrate(t, r) == ArbiterDefers(t) \/ ArbiterRestarts(t) \/ ArbiterContinues(t, r)

FinishPrompt ==
    /\ driving.kind = "prompt" /\ driving' = NoDriving
    /\ LET t == driving.task IN
       \/ /\ Settled(0, [task EXCEPT ![t].status = "succeeded"])
          /\ UNCHANGED <<taskRuns, overrides>>
       \/ Arbitrate(t, 0)
    /\ UNCHANGED <<reinstates, horizonDeaths>>

-----------------------------------------------------------------------------
(* checkpoint and reconcile                                                *)

RouteFinished(route) == route > 0 /\ taskRuns[route].status = "succeeded"
RouteStopped(route) ==
    route = RouteFailed \/ (route > 0 /\ taskRuns[route].status \in {"failed", "canceled"})

(* Mutant: only a route the task has recorded counts. *)
MutantRouteAfter(t, r) == task[t].route

\* The delivery the task waits for: what the run that succeeded handed over is
\* recorded with its success.
RouteAfter(t, r) ==
    IF task[t].route # NotRouted \/ r # task[t].run THEN task[t].route
    ELSE taskRuns[r].handoff

\* settleSucceededRun
SettleSuccess(t, r) ==
    LET route == RouteAfter(t, r)
        next == IF task[t].status = "replanning" /\ r = task[t].run
                THEN [task[t] EXCEPT !.status = "pending", !.run = 0]
                ELSE [task[t] EXCEPT !.route = route,
                                     !.status = IF route = NotRouted \/ RouteFinished(route)
                                                THEN "succeeded" ELSE "running"]
    IN /\ Settled(IF next.status = "running" THEN session.active ELSE 0,
                  [task EXCEPT ![t] = next])
       /\ UNCHANGED <<taskRuns, overrides, driving>>

ReplansSpent(t, r) ==
    IF taskRuns[r].replans > task[t].replans THEN taskRuns[r].replans ELSE task[t].replans

\* startScopedReplan counts the re-plan on the run, then creates the new one;
\* the session is persisted afterwards.
StartReplan(t, r) ==
    /\ Len(taskRuns) < MaxTaskRuns
    /\ taskRuns' = Append([taskRuns EXCEPT ![r].replans = @ + 1],
                          [NewRun(t, "replan") EXCEPT !.replans = ReplansSpent(t, r) + 1])
    /\ driving' = [kind |-> "replan", task |-> t, run |-> Len(taskRuns) + 1, of |-> r]
    /\ UNCHANGED <<session, task, overrides>>

RecordReplan ==
    /\ driving.kind = "replan"
    /\ task' = [task EXCEPT ![driving.task] =
                   [@ EXCEPT !.status = "replanning", !.run = driving.run,
                             !.replans = ReplansSpent(driving.task, driving.of)]]
    /\ session' = [session EXCEPT !.active = driving.task]
    /\ driving' = NoDriving
    /\ UNCHANGED <<taskRuns, overrides, reinstates, horizonDeaths>>

\* reconcileDrivenTask: the driver returned because run r rests.
Driven(t, r) ==
    \/ taskRuns[r].status = "succeeded" /\ SettleSuccess(t, r)
    \/ /\ taskRuns[r].status = "exhausted" /\ ReplansSpent(t, r) = 0
       /\ StartReplan(t, r)
    \/ /\ taskRuns[r].status # "succeeded"
       /\ ~(taskRuns[r].status = "exhausted" /\ ReplansSpent(t, r) = 0)
       /\ Arbitrate(t, r) /\ UNCHANGED driving

\* checkpointHorizonSession: nextDrivableRun looks at the route first.
Checkpoint ==
    /\ driving = NoDriving /\ session.active # 0
    /\ LET t == session.active  route == task[t].route  own == task[t].run IN
       /\ own # 0
       /\ \/ route = NotRouted /\ taskRuns[own].status # "advancing" /\ Driven(t, own)
          \/ RouteFinished(route) /\ SettleSuccess(t, own)
          \/ /\ RouteStopped(route)
             /\ Arbitrate(t, IF route > 0 THEN route ELSE own) /\ UNCHANGED driving
          \/ route > 0 /\ taskRuns[route].status \in Resumable /\ Driven(t, route)
    /\ UNCHANGED <<reinstates, horizonDeaths>>

\* reconcileHorizonSession drives nothing and defers nothing.
ReconcileTask ==
    /\ driving = NoDriving /\ session.active # 0
    /\ LET t == session.active  own == task[t].run IN
       /\ own # 0
       /\ \/ taskRuns[own].status = "succeeded" /\ SettleSuccess(t, own)
          \/ /\ taskRuns[own].status = "exhausted" /\ ReplansSpent(t, own) = 0
             /\ task[t].status # "replanning"
             /\ StartReplan(t, own)
          \/ /\ task[t].status = "running" /\ RouteFinished(task[t].route)
             /\ SettleSuccess(t, own)
    /\ UNCHANGED <<reinstates, horizonDeaths>>

-----------------------------------------------------------------------------
(* The operator and the supervisor                                         *)

\* deferHorizonTask asks nothing about the task's status.
DeferTask(t) ==
    /\ driving = NoDriving /\ task[t].status # "deferred"
    /\ taskRuns' = StopOwnRun(t)
    /\ task' = Deferred(t)
    /\ session' = [status |-> SessionOver(session.status, Deferred(t)), active |-> SlotAfter(t)]
    /\ UNCHANGED <<driving, overrides, reinstates, horizonDeaths>>

\* The reinstated task goes on with its run if that accepts an action, and is
\* reopened from its request otherwise.
ReinstateTask(t, restart) ==
    /\ driving = NoDriving /\ task[t].status = "deferred"
    /\ session.active = 0 /\ reinstates < MaxReinstates
    /\ LET accepts == task[t].run # 0 /\ taskRuns[task[t].run].status \notin {"succeeded", "failed"}
           reopened == restart \/ ~accepts
           back == [u \in Tasks |->
                      IF u = t THEN IF reopened
                           THEN [task[t] EXCEPT !.status = "pending", !.run = 0]
                           ELSE [task[t] EXCEPT !.status = "running"]
                      ELSE IF u \in Dependents(t) /\ task[u].status = "blocked"
                      THEN [task[u] EXCEPT !.status = "pending"] ELSE task[u]]
       IN /\ ~reopened => taskRuns[task[t].run].status # "canceled"
          /\ IF reopened THEN UNCHANGED taskRuns
             ELSE \E status \in ActedOn(task[t].run) :
                      taskRuns' = [taskRuns EXCEPT ![task[t].run].status = status]
          /\ task' = Skipped(back)
          /\ session' = [status |-> "running", active |-> IF reopened THEN 0 ELSE t]
    /\ CountOverride(t)
    /\ reinstates' = reinstates + 1
    /\ UNCHANGED <<driving, horizonDeaths>>

AbandonSession ==
    /\ driving = NoDriving /\ session.status # "abandoned"
    /\ session' = [status |-> "abandoned", active |-> 0]
    /\ UNCHANGED <<task, taskRuns, driving, overrides, reinstates, horizonDeaths>>

-----------------------------------------------------------------------------
(* Runs and processes                                                      *)

RunRests(r, rest) ==
    /\ r <= Len(taskRuns) /\ taskRuns[r].status = "advancing"
    /\ ~(rest = "succeeded" /\ taskRuns[r].role = "task" /\ taskRuns[r].task \in Routed)
    /\ taskRuns' = [taskRuns EXCEPT ![r].status = rest]
    /\ UNCHANGED <<session, task, driving, overrides, reinstates, horizonDeaths>>

Plans(r) == r <= Len(taskRuns) /\ taskRuns[r].role = "task" /\ taskRuns[r].task \in Routed

\* The plan of a routed task is approved, and its run ends.
PlanApproved(r) ==
    /\ Plans(r) /\ taskRuns[r].status = "advancing"
    /\ taskRuns' = [taskRuns EXCEPT ![r].status = "succeeded"]
    /\ UNCHANGED <<session, task, driving, overrides, reinstates, horizonDeaths>>

\* The approving command starts the delivery run afterwards, outside of the
\* run's mutex, or notes its failure to; if it dies, or failed, the operator may
\* repeat the routing later.  A delivery run counts from when the planning run
\* names it: one created before is adopted by the repetition.
RouteStarted(r) ==
    /\ Plans(r) /\ taskRuns[r].status = "succeeded"
    /\ \/ /\ taskRuns[r].handoff \in {NotRouted, RouteFailed} /\ Len(taskRuns) < MaxTaskRuns
          /\ taskRuns' = Append([taskRuns EXCEPT ![r].handoff = Len(taskRuns) + 1],
                                [NewRun(taskRuns[r].task, "delivery") EXCEPT !.replans = 0])
       \/ /\ taskRuns[r].handoff = NotRouted
          /\ taskRuns' = [taskRuns EXCEPT ![r].handoff = RouteFailed]
    /\ UNCHANGED <<session, task, driving, overrides, reinstates, horizonDeaths>>

SessionCommandDies ==
    /\ driving # NoDriving /\ horizonDeaths < MaxHorizonDeaths
    /\ driving' = NoDriving /\ horizonDeaths' = horizonDeaths + 1
    /\ UNCHANGED <<session, task, taskRuns, overrides, reinstates>>

Opening == OpenTaskRun \/ RecordTaskRun \/ StartPrompt \/ FinishPrompt \/ NothingEligible
Driving == Checkpoint \/ RecordReplan
RunStep(r) == PlanApproved(r) \/ \E rest \in Resumable \cup RunEnded : RunRests(r, rest)

SNext ==
    \/ StartSession \/ Opening \/ Driving \/ ReconcileTask
    \/ AbandonSession \/ SessionCommandDies
    \/ \E t \in Tasks : DeferTask(t) \/ \E restart \in BOOLEAN : ReinstateTask(t, restart)
    \/ \E r \in RunIds : RunStep(r) \/ RouteStarted(r)

\* `horizon start` opens tasks and checkpoints until the session is over, and
\* a run that is driven comes to rest.  Nothing makes a delivery start.
SFairness ==
    /\ WF_sVars(StartSession) /\ WF_sVars(Opening) /\ WF_sVars(Driving)
    /\ \A r \in RunIds : WF_sVars(RunStep(r))

SSpec == SInit /\ [][SNext]_sVars /\ SFairness

-----------------------------------------------------------------------------
(* Properties                                                              *)

\* What a session may end a task for: its delivery, or its own run if that has
\* handed nothing over by now.
EndedBy(record) ==
    \/ RouteFinished(record.route)
    \/ /\ record.route = NotRouted
       /\ taskRuns[record.run].status = "succeeded"
       /\ taskRuns[record.run].handoff = NotRouted

\* A task is ended as done only with the work it was routed to, however it came
\* to its run: the success of the planning run does not end it if that has named
\* a delivery by the time the session looks.
SucceededForReal ==
    [][\A t \in Tasks \ Prompts :
          task[t].status # "succeeded" /\ task'[t].status = "succeeded" => EndedBy(task'[t])]_sVars

LeftOpen == {t \in Tasks : /\ task[t].status \in {"running", "replanning"}
                           /\ session.active # t}

\* The ladder and the arbiter's bound end every task: a session whose commands
\* do not die, and that has not left a task open, comes to an end.
HorizonEnds ==
    (session.status = "running" /\ horizonDeaths = 0 /\ LeftOpen = {})
        ~> (session.status # "running" \/ horizonDeaths > 0 \/ Len(taskRuns) = MaxTaskRuns)
=============================================================================
