----------------------------- MODULE RunLifecycle -----------------------------
(***************************************************************************)
(* One workflow run of the engine: src/lib/engine.  Every command loads    *)
(* the stored run, changes it in memory and persists it once, under the    *)
(* operation mutex of the run, so one action is one command: an operator   *)
(* on run records says what the code does to the loaded state, and Persist *)
(* stores its result.  Modules RunStore and OperationMutex look inside     *)
(* persist and inside the mutex.                                           *)
(*                                                                         *)
(* Left out: the artifacts a command writes beside the state (decisions,   *)
(* records, cards, feedback), advisories, and checks that only refuse.     *)
(***************************************************************************)
EXTENDS WorkflowGraph, Sequences, FiniteSets

CONSTANTS
    MaxInterventions,  \* bound: commands of the operator, of away mode and
                       \* of the processes that pause a run
    MaxReports         \* bound: evidence-gate failures that reach the run

ASSUME BoundsAssumption ==
    MaxInterventions \in Nat /\ MaxReports \in Nat

VARIABLES
    run,            \* the stored RunState
    plan,           \* the away-mode command decided from a state read earlier
    interventions   \* how many commands came from outside the run's own loop

vars == <<run, plan, interventions>>

Statuses == {"running", "awaiting_supervisor", "awaiting_operator", "paused",
             "succeeded", "failed", "canceled"}
Terminal == {"succeeded", "failed", "canceled"}
PendingTypes == {"prepare_invocation", "invoke_agent", "supervisor_assessment",
                 "operator_approval", "operator_decision", "none"}

NoOutcome == "no_outcome"
PendingAction ==
    [type : PendingTypes, outcome : Outcomes \cup {NoOutcome},
     operatorOnly : BOOLEAN]
Pending(type) ==
    [type |-> type, outcome |-> NoOutcome, operatorOnly |-> FALSE]

(* The invocation_prepared events of the run, whose count numbers the next *)
(* invocation; current_invocation is the number of a card, or none.        *)
Card == [stage : Stages, attempt : Nat]
NoInvocation == 0

HistoryItem ==
    [stage : Stages, attempt : Nat, id : Nat, outcome : Outcomes,
     reason : Signatures, hasRecord : BOOLEAN]

(* "open": the gate has not run, or its pass no longer counts.             *)
GateRecord ==
    [result : {"open", "failed", "passed"}, failures : Nat, passedAt : Nat,
     routedTo : Stages \cup {NoStage}]
Tracker == [signature : Signatures, repeats : Nat]
Ladder == [retries : Nat, switched : BOOLEAN, last : Signatures]
(* since: how many outcomes the run had when its operator_pause event was  *)
(* appended.                                                               *)
SavedPause ==
    [saved : BOOLEAN, status : Statuses, pending : PendingAction, since : Nat]
NoPause ==
    [saved |-> FALSE, status |-> "running", pending |-> Pending("none"),
     since |-> 0]

(* "throws": the move of the inbox request is refused, so the command      *)
(* throws before it persists anything.                                     *)
InboxStatuses == {"active", "complete", "canceled", "throws"}

RunState ==
    [status : Statuses, stage : Stages \cup {NoStage}, pending : PendingAction,
     current : Nat, cards : Seq(Card),
     attempts : [Stages -> Nat], revisions : [Stages -> Nat],
     history : Seq(HistoryItem), transitions : Nat, failures : Nat,
     trackers : [Stages -> Tracker], ladder : Ladder,
     gates : [Stages -> GateRecord], waived : [Stages -> BOOLEAN],
     pause : SavedPause, inbox : InboxStatuses]

NoTracker == [signature |-> {}, repeats |-> 0]
NoGateRecord ==
    [result |-> "open", failures |-> 0, passedAt |-> 0, routedTo |-> NoStage]

(* The state createRun persists once the inbox request is active.          *)
InitialRun ==
    [status |-> "running", stage |-> StartStage,
     pending |-> Pending("prepare_invocation"),
     current |-> NoInvocation, cards |-> <<>>,
     attempts |-> [s \in Stages |-> 0], revisions |-> [s \in Stages |-> 0],
     history |-> <<>>, transitions |-> 0, failures |-> 0,
     trackers |-> [s \in Stages |-> NoTracker],
     ladder |-> [retries |-> 0, switched |-> FALSE, last |-> {}],
     gates |-> [s \in Stages |-> NoGateRecord],
     waived |-> [s \in Stages |-> FALSE],
     pause |-> NoPause, inbox |-> "active"]

-----------------------------------------------------------------------------
(* Pauses and limits: limits.ts                                            *)

Paused(r) ==
    [r EXCEPT !.status = "paused", !.pending = Pending("operator_decision")]

PausedForOperatorOnly(r) ==
    [r EXCEPT !.status = "paused",
              !.pending = [Pending("operator_decision")
                             EXCEPT !.operatorOnly = TRUE]]

CandidateFailed(r) ==
    [r EXCEPT !.status = "failed", !.stage = NoStage,
              !.pending = Pending("none")]

PauseForLimit(r) == IF Candidate THEN CandidateFailed(r) ELSE Paused(r)

ClearTracker(r, s) == [r EXCEPT !.trackers[s] = NoTracker]

-----------------------------------------------------------------------------
(* Transitions: transition.ts                                              *)

NoOverride == "no_override"

Counted(r, outcome, directed) ==
    [r EXCEPT !.transitions = @ + 1,
              !.failures = IF ~directed /\ outcome = "failure" THEN @ + 1
                                                               ELSE 0]

RoutesTo(r, s) == {g \in Stages : r.gates[g].routedTo = s}

ReturnsToGate(r, s, outcome, override) ==
    outcome = "success" /\ override = NoOverride /\ RoutesTo(r, s) # {}

GateThatRouted(r, s) == CHOOSE g \in RoutesTo(r, s) : TRUE

NextTarget(r, s, outcome, override) ==
    IF override # NoOverride THEN override
    ELSE IF ReturnsToGate(r, s, outcome, override) THEN GateThatRouted(r, s)
    ELSE OnOutcome[s][outcome]

AnswerRoute(r, s, outcome, override) ==
    IF ReturnsToGate(r, s, outcome, override)
    THEN [r EXCEPT !.gates[GateThatRouted(r, s)].routedTo = NoStage]
    ELSE r

OverLimit(r, directed) ==
    ~directed /\ (r.transitions > MaxTransitions \/ r.failures > MaxFailures)

(* finishInboxRequest: a request already in its destination stays there;   *)
(* one in the other terminal directory cannot move.                        *)
MovedInbox(r, destination) ==
    IF r.inbox \in {"active", destination} THEN destination ELSE "throws"

Finished(r, target) ==
    [r EXCEPT !.status = target, !.stage = NoStage,
              !.pending = Pending("none"),
              !.inbox = CASE target = "succeeded" -> MovedInbox(r, "complete")
                          [] target = "canceled" -> MovedInbox(r, "canceled")
                          [] OTHER -> @]

(* Leaving a stage closes its retry sequence.                              *)
Left(r, s, target) ==
    IF target = s THEN r
    ELSE [r EXCEPT !.attempts[s] = 0, !.revisions[s] = 0]

(* Mutant: the card of the stage that was left stays current. *)
MutantEntered(r, target) ==
    [r EXCEPT !.status = "running", !.stage = target,
              !.pending = Pending("prepare_invocation")]

Entered(r, target) ==
    [r EXCEPT !.status = "running", !.stage = target,
              !.pending = Pending("prepare_invocation"),
              !.current = NoInvocation]

(* Mutant: a terminal target is entered like a stage. *)
MutantMoved(r, s, target) ==
    IF target = "paused" THEN Paused(r) ELSE Entered(Left(r, s, target), target)

Moved(r, s, target) ==
    CASE target \in TerminalTargets -> Finished(r, target)
      [] target = "paused" -> Paused(r)
      [] OTHER -> Entered(Left(r, s, target), target)

ApplyTransition(r, s, outcome, override, directed) ==
    LET counted == Counted(r, outcome, directed)
        target == NextTarget(counted, s, outcome, override)
        answered == AnswerRoute(counted, s, outcome, override)
    IN IF OverLimit(answered, directed)
       THEN PauseForLimit(answered)
       ELSE Moved(answered, s, target)

Follow(r, s, outcome) == ApplyTransition(r, s, outcome, NoOverride, FALSE)

-----------------------------------------------------------------------------
(* What a stage outcome does: failure-route.ts, limits.ts, submit.ts       *)

(* One more outcome of the current card.  An outcome of a stage ends the   *)
(* directives that waived its entry gate.                                  *)
Recorded(r, outcome, reason, hasRecord) ==
    [r EXCEPT !.history = Append(@, [stage |-> r.stage,
                                     attempt |-> r.cards[r.current].attempt,
                                     id |-> r.current,
                                     outcome |-> outcome, reason |-> reason,
                                     hasRecord |-> hasRecord]),
              !.waived[r.stage] = FALSE]

HasOutcome(r, id) == \E i \in 1 .. Len(r.history) : r.history[i].id = id
HasRecord(r, id) ==
    \E i \in 1 .. Len(r.history) :
        r.history[i].id = id /\ r.history[i].hasRecord

(* classifyHorizonFailure *)
RepeatsLast(r, reason) == reason # {} /\ reason = r.ladder.last
(* Mutant: three retries. *)
MutantRetriesHorizon(r, reason) ==
    ~RepeatsLast(r, reason) /\ r.ladder.retries <= 2

RetriesHorizon(r, reason) == ~RepeatsLast(r, reason) /\ r.ladder.retries < 2
SwitchesStrategy(r, s) == ~r.ladder.switched /\ HasRepairRoute(s)

Climbed(r, reason) ==
    [r EXCEPT !.ladder =
        [retries  |-> r.ladder.retries
                        + (IF RetriesHorizon(r, reason) THEN 1 ELSE 0),
         switched |-> r.ladder.switched \/ ~RetriesHorizon(r, reason),
         last     |-> reason]]

(* The retry rung repeats a stage that names no repair route; retry and    *)
(* strategy rungs follow the route of one that does.                       *)
HorizonFailure(r, s, reason) ==
    LET climbed == Climbed(r, reason) IN
    IF RetriesHorizon(r, reason) /\ ~HasRepairRoute(s)
    THEN ApplyTransition(climbed, s, "failure", s, FALSE)
    ELSE IF RetriesHorizon(r, reason) \/ SwitchesStrategy(r, s)
    THEN ApplyTransition(climbed, s, "failure", OnOutcome[s]["failure"], FALSE)
    ELSE [Paused(climbed) EXCEPT !.current = NoInvocation]

(* Mutant: only the very same set of criteria repeats a reason. *)
MutantCoversPrior(r, s, reason) ==
    r.trackers[s].signature # {} /\ r.trackers[s].signature = reason

(* recordSameReasonFailure *)
CoversPrior(r, s, reason) ==
    /\ r.trackers[s].signature # {}
    /\ r.trackers[s].signature \subseteq reason
Tracked(r, s, reason) ==
    [r EXCEPT !.trackers[s] =
        [signature |-> reason,
         repeats |-> IF CoversPrior(r, s, reason) THEN @.repeats + 1 ELSE 1]]

AwaitApproval(r, outcome) ==
    [r EXCEPT !.status = "awaiting_operator",
              !.pending = [Pending("operator_approval")
                             EXCEPT !.outcome = outcome]]

(* An operator gate owns every transition of its stage, failures included. *)
Gated(r, s, outcome) ==
    IF GateOf[s] = "operator" THEN AwaitApproval(r, outcome)
                              ELSE Follow(r, s, outcome)

FailedOutcome(r, s, reason) ==
    IF LongHorizon THEN HorizonFailure(r, s, reason)
    ELSE IF ~SameReasonTracked(s) THEN Gated(r, s, "failure")
    ELSE IF Tracked(r, s, reason).trackers[s].repeats >= 2
    THEN PauseForLimit(Tracked(r, s, reason))
    ELSE Gated(Tracked(r, s, reason), s, "failure")

(* Mutant: the assessment is never requested. *)
MutantAwaitAssessment(r) == [r EXCEPT !.status = "awaiting_supervisor"]

AwaitAssessment(r) ==
    [r EXCEPT !.status = "awaiting_supervisor",
              !.pending = Pending("supervisor_assessment")]

SettledSubmission(r, s, outcome, reason, environmentBlocked) ==
    IF environmentBlocked /\ outcome # "success" THEN Paused(r)
    ELSE IF outcome = "failure" THEN FailedOutcome(r, s, reason)
    ELSE IF outcome = "success" /\ GateOf[s] = "supervisor"
    THEN AwaitAssessment(r)
    ELSE IF outcome = "success" /\ SameReasonTracked(s)
    THEN Gated(ClearTracker(r, s), s, outcome)
    ELSE Gated(r, s, outcome)

-----------------------------------------------------------------------------
(* Entry gates: entry-gate.ts                                              *)

CurrentPass(r, s) ==
    /\ r.gates[s].result = "passed"
    /\ r.gates[s].passedAt <= Len(r.history)
    /\ \A i \in 1 .. Len(r.history) :
           i > r.gates[s].passedAt => r.history[i].stage = s

GateAnswered(r) == ~HasEntryGate(r.stage) \/ CurrentPass(r, r.stage)

(* Mutant: any recorded pass admits the stage. *)
MutantAdmitted(r) ==
    IF ~HasEntryGate(r.stage) \/ r.gates[r.stage].result = "passed" THEN r
    ELSE [r EXCEPT !.gates[r.stage] =
             [NoGateRecord EXCEPT !.result = "passed",
                                  !.passedAt = Len(r.history)]]

(* The stage may be delegated: it has no gate, a pass of this visit        *)
(* stands, or the criterion passes or is waived now.                       *)
Admitted(r) ==
    IF GateAnswered(r) THEN r
    ELSE [r EXCEPT !.gates[r.stage] =
             [NoGateRecord EXCEPT !.result = "passed",
                                  !.passedAt = Len(r.history)]]

GateFailed(r, s, routedTo) ==
    [r EXCEPT !.gates[s] = [result |-> "failed", failures |-> @.failures + 1,
                            passedAt |-> 0, routedTo |-> routedTo]]

(* A limit that intercepts the repair closes the route it opened.          *)
RouteClosedUnlessRunning(r, s) ==
    IF r.status = "running" THEN r
    ELSE [r EXCEPT !.gates[s].routedTo = NoStage]

(* Mutant: one repair loop too many. *)
MutantRefusedByGate(r, s) ==
    LET gate == EntryGateOf[s]
        repairs == r.gates[s].failures <= gate.maxLoops
        routedTo == IF gate.route = "direct" THEN gate.repair ELSE NoStage
    IN IF ~repairs \/ gate.route = "unsatisfiable"
       THEN PausedForOperatorOnly(GateFailed(r, s, NoStage))
       ELSE RouteClosedUnlessRunning(
                ApplyTransition(GateFailed(r, s, routedTo), s, "failure",
                                gate.repair, FALSE), s)

RefusedByGate(r, s) ==
    LET gate == EntryGateOf[s]
        repairs == r.gates[s].failures + 1 <= gate.maxLoops
        routedTo == IF gate.route = "direct" THEN gate.repair ELSE NoStage
    IN IF ~repairs \/ gate.route = "unsatisfiable"
       THEN PausedForOperatorOnly(GateFailed(r, s, NoStage))
       ELSE RouteClosedUnlessRunning(
                ApplyTransition(GateFailed(r, s, routedTo), s, "failure",
                                gate.repair, FALSE), s)

(* clearEntryGateRoutes keeps the last result, so a failed gate stays one. *)
ClearEntryGateRoutes(r) ==
    [r EXCEPT !.gates =
        [s \in Stages |->
            [NoGateRecord EXCEPT
                !.result = IF r.gates[s].result = "failed" THEN "failed"
                                                           ELSE "open"]]]

-----------------------------------------------------------------------------
(* A command persists what it made of the state, unless it threw.          *)

Persist(next) == next.inbox # "throws" /\ run' = next
ByTheRun(next) == Persist(next) /\ UNCHANGED <<plan, interventions>>
FromOutside(next) ==
    /\ interventions < MaxInterventions
    /\ interventions' = interventions + 1
    /\ Persist(next)

-----------------------------------------------------------------------------
(* prepareInvocation: prepare.ts                                           *)

(* Mutant: preparing again while a card is out. *)
MutantReadyToPrepare(r) == r.status = "running"

ReadyToPrepare(r) ==
    r.status = "running" /\ r.pending.type = "prepare_invocation"

AttemptSubmitted(r, s) ==
    \/ r.attempts[s] = 0
    \/ \E i \in 1 .. Len(r.history) :
           r.history[i].stage = s /\ r.history[i].attempt = r.attempts[s]

NextAttempt(r) ==
    IF AttemptSubmitted(r, r.stage) THEN r.attempts[r.stage] + 1
                                    ELSE r.attempts[r.stage]

AttemptCeiling(r, s) == MaxAttempts + r.revisions[s]

Numbered(r) == [r EXCEPT !.attempts[r.stage] = NextAttempt(r)]

CardIssued(r) ==
    [r EXCEPT !.cards = Append(@, [stage |-> r.stage,
                                   attempt |-> r.attempts[r.stage]]),
              !.current = Len(r.cards) + 1,
              !.pending = Pending("invoke_agent")]

(* remediationReturn: the stage had a verdict and a repair succeeded since *)
ReturnVisit(r, s) ==
    /\ s \in ReturnStages
    /\ \E i, j \in 1 .. Len(r.history) :
           /\ i < j
           /\ r.history[i].stage = s /\ r.history[i].outcome # "blocked"
           /\ r.history[j].stage = RepairStage
           /\ r.history[j].outcome = "success"

(* Mutant: one attempt too many. *)
MutantWithinAttempts(r) == NextAttempt(r) <= AttemptCeiling(r, r.stage) + 1

WithinAttempts(r) == NextAttempt(r) <= AttemptCeiling(r, r.stage)

PrepareExhausted ==
    /\ ReadyToPrepare(run)
    /\ ~WithinAttempts(run)
    /\ ByTheRun(PauseForLimit(run))

(* A verification recommendation or an environment that was already broken *)
(* stops the stage before its entry gate runs.                             *)
PrepareInterrupted ==
    /\ ReadyToPrepare(run)
    /\ WithinAttempts(run)
    /\ ByTheRun(Paused(Numbered(run)))

PrepareGateFailed ==
    /\ ReadyToPrepare(run)
    /\ WithinAttempts(run)
    /\ ~GateAnswered(run) /\ ~run.waived[run.stage]
    /\ ByTheRun(RefusedByGate(Numbered(run), run.stage))

PrepareProfilesFailed ==
    /\ ReadyToPrepare(run)
    /\ WithinAttempts(run)
    /\ ReturnVisit(run, run.stage)
    /\ ByTheRun(Follow(Admitted(Numbered(run)), run.stage, "failure"))

PrepareInvocation ==
    /\ ReadyToPrepare(run)
    /\ WithinAttempts(run)
    /\ ByTheRun(CardIssued(Admitted(Numbered(run))))

-----------------------------------------------------------------------------
(* submitStageOutput and assessStage: submit.ts, decide.ts                 *)

(* A failure may name criteria; no other outcome does.                     *)
Reasons(outcome) == IF outcome = "failure" THEN Signatures ELSE {{}}

CanSubmit(r) ==
    /\ ~HasRecord(r, r.current)
    /\ r.status = "running"
    /\ r.pending.type = "invoke_agent"
    /\ r.current # NoInvocation

Submit(outcome, reason, environmentBlocked) ==
    /\ CanSubmit(run)
    /\ ByTheRun(SettledSubmission(Recorded(run, outcome, reason, TRUE),
                                  run.stage, outcome, reason,
                                  environmentBlocked))

Assess(verdict) ==
    /\ run.status = "awaiting_supervisor"
    /\ run.pending.type = "supervisor_assessment"
    /\ run.current # NoInvocation
    /\ ByTheRun(IF verdict = "escalate" /\ ~Candidate THEN Paused(run)
                ELSE Follow(run, run.stage,
                            IF verdict = "pass" THEN "success" ELSE "failure"))

(* recordEvidenceGateFailure: a watch of the card's evidence workers saw   *)
(* their last report and one does not pass.  It asks only that the card is *)
(* still the current one.                                                  *)
ReportsRecorded ==
    Cardinality({i \in 1 .. Len(run.history) : ~run.history[i].hasRecord})

EvidenceGateFailure(failing) ==
    /\ ReportsRecorded < MaxReports
    /\ run.current # NoInvocation /\ run.stage # NoStage
    /\ run.cards[run.current].stage \in EvidenceStages
    /\ failing # {}
    /\ ByTheRun(FailedOutcome(Recorded(run, "failure", failing, FALSE),
                              run.stage, failing))

-----------------------------------------------------------------------------
(* decideRun: decide.ts                                                    *)

AwaitsDecision(r) ==
    r.status = "awaiting_operator" /\ r.pending.type = "operator_approval"

Approved(r) == Follow(r, r.stage, r.pending.outcome)

RevisedByOperator(r) ==
    ApplyTransition([ClearTracker(r, r.stage)
                       EXCEPT !.revisions[r.stage] = @ + 1],
                    r.stage, "failure", r.stage, TRUE)

RevisedByAway(r) ==
    ApplyTransition(ClearTracker(r, r.stage), r.stage, "failure", r.stage,
                    FALSE)

Rejected(r) ==
    ApplyTransition(r, r.stage, "failure", OnOutcome[r.stage]["failure"], FALSE)

(* resetAttemptsFrom: the stages declared from one on start afresh.        *)
ResetAttemptsFrom(r, from) ==
    [r EXCEPT !.attempts =
        [s \in Stages |-> IF Position[s] >= Position[from] THEN 0
                                                         ELSE r.attempts[s]]]

RejectedTo(r, target) ==
    ApplyTransition(ResetAttemptsFrom(r, target), r.stage, "failure", target,
                    TRUE)

LandedByHand(r) ==
    ApplyTransition(r, r.stage, "success", "succeeded", TRUE)

Approve ==
    AwaitsDecision(run) /\ FromOutside(Approved(run)) /\ UNCHANGED plan
Revise ==
    AwaitsDecision(run) /\ FromOutside(RevisedByOperator(run)) /\ UNCHANGED plan
Reject ==
    AwaitsDecision(run) /\ FromOutside(Rejected(run)) /\ UNCHANGED plan
RejectTo(target) ==
    /\ AwaitsDecision(run)
    /\ FromOutside(RejectedTo(run, target))
    /\ UNCHANGED plan
RecordLanded ==
    /\ run.stage = ShipStage /\ run.stage # NoStage
    /\ run.status = "paused" \/ AwaitsDecision(run)
    /\ FromOutside(LandedByHand(run))
    /\ UNCHANGED plan

-----------------------------------------------------------------------------
(* pauseRun, quarantineRunForAgent and resumeRun: pause-resume.ts          *)

SavePause(r) ==
    IF r.status = "paused" THEN r
    ELSE [r EXCEPT !.pause = [saved |-> TRUE, status |-> r.status,
                              pending |-> r.pending,
                              since |-> Len(r.history)]]

(* By the operator, a supervisor, the horizon driver or the hypervisor.    *)
PauseRun ==
    /\ run.status \notin Terminal
    /\ FromOutside(Paused(SavePause(run)))
    /\ UNCHANGED plan

(* invalidatePausedInvocation gives back the attempt of an unused card.    *)
Invalidated(r) ==
    LET unused == /\ r.current # NoInvocation
                  /\ r.stage # NoStage
                  /\ ~HasOutcome(r, r.current)
                  /\ r.attempts[r.stage] > 0
        refunded == IF unused THEN [r EXCEPT !.attempts[r.stage] = @ - 1]
                              ELSE r
    IN [refunded EXCEPT !.status = "running",
                        !.pending = Pending("prepare_invocation"),
                        !.current = NoInvocation]

(* Mutant: the pending action of the pause is kept. *)
MutantRestored(r) == [r EXCEPT !.status = r.pause.status]

Restored(r) ==
    [r EXCEPT !.status = r.pause.status, !.pending = r.pause.pending]

ResumedInPlace(r, discardCard) ==
    [(IF discardCard THEN Invalidated(r) ELSE Restored(r))
        EXCEPT !.pause = NoPause]

(* Mutant: the saved pause survives the resume. *)
MutantResumedAt(r, target, edited, clearRoutes) ==
    LET ratified == IF edited /\ r.pause.saved THEN Invalidated(r) ELSE r
        cleared == IF clearRoutes THEN ClearEntryGateRoutes(ratified)
                                  ELSE ratified
    IN [Entered(cleared, target) EXCEPT !.failures = 0]

ResumedAt(r, target, edited, clearRoutes) ==
    LET ratified == IF edited /\ r.pause.saved THEN Invalidated(r) ELSE r
        cleared == IF clearRoutes THEN ClearEntryGateRoutes(ratified)
                                  ELSE ratified
    IN [Entered(cleared, target) EXCEPT !.pause = NoPause, !.failures = 0]

DefaultStage(r) == IF r.stage = NoStage THEN StartStage ELSE r.stage

(* pan resume without --stage; edited: the workspace differs from the      *)
(* snapshot of the pause, so the resume ratifies it.                       *)
Resume(withNote, edited) ==
    /\ run.status = "paused"
    /\ IF run.pause.saved
       THEN /\ withNote => /\ run.pause.pending.type = "invoke_agent"
                           /\ run.current # NoInvocation
            /\ FromOutside(ResumedInPlace(run, withNote \/ edited))
       ELSE FromOutside(ResumedAt(run, DefaultStage(run), FALSE, TRUE))
    /\ UNCHANGED plan

ResumeAt(target, edited) ==
    /\ run.status = "paused"
    /\ FromOutside(ResumedAt(run, target, edited, TRUE))
    /\ UNCHANGED plan

-----------------------------------------------------------------------------
(* setRunStage, waiveGate and abortRun                                     *)

StageSet(r, target) ==
    LET fresh == ClearEntryGateRoutes(ResetAttemptsFrom(r, target)) IN
    [Entered(fresh, target)
        EXCEPT !.trackers = [s \in Stages |-> NoTracker], !.pause = NoPause,
               !.transitions = 0, !.failures = 0]

SetStage(target) == FromOutside(StageSet(run, target)) /\ UNCHANGED plan

(* The card of a waived stage is kept while its worker may still submit.   *)
HoldsInvocation(r, s) ==
    r.stage = s /\ r.pending.type = "invoke_agent"

WaiverTarget(r, s) ==
    IF HoldsInvocation(r, s) THEN s ELSE OnOutcome[s]["success"]

(* The target's own entry gate last failed and the directive misses it.    *)
WaiverUnreached(r, s, target, coversGate) ==
    /\ target \in Stages
    /\ HasEntryGate(target)
    /\ r.gates[target].result = "failed"
    /\ ~(target = s /\ coversGate)

GateWaived(r, s, target, coversGate) ==
    LET directed == [ClearTracker(r, s)
                       EXCEPT !.waived[s] = @ \/ coversGate,
                              !.status = "running", !.pause = NoPause,
                              !.failures = 0]
    IN IF HoldsInvocation(r, s) /\ target = s /\ r.current # NoInvocation
       THEN directed
       ELSE ApplyTransition([directed EXCEPT !.current = NoInvocation], s,
                            "success", target, TRUE)

WaiveGate(s, target, coversGate) ==
    /\ ~WaiverUnreached(run, s, target, coversGate)
    /\ FromOutside(GateWaived(run, s, target, coversGate))
    /\ UNCHANGED plan

Canceled(r) ==
    [Finished(r, "canceled") EXCEPT !.current = NoInvocation, !.pause = NoPause]

AbortRun ==
    /\ run.status \notin Terminal
    /\ FromOutside(Canceled(run))
    /\ UNCHANGED plan

-----------------------------------------------------------------------------
(* Away mode: away-mode.ts, away-orchestration.ts, horizon-arbiter.ts      *)

NoPlan == [action |-> "none", stage |-> NoStage]
AwayActions == {"approve", "reject", "revise", "resume", "set-stage",
                "waive-gate"}
Plan == [action : AwayActions \cup {"none"}, stage : Stages \cup {NoStage}]

OperatorOnly(r) ==
    r.pending.type = "operator_decision" /\ r.pending.operatorOnly

(* awayModeTrigger: what away mode may answer.                             *)
AwayTrigger(r) ==
    \/ r.pending.type = "operator_approval"
    \/ r.pending.type = "operator_decision" /\ ~r.pending.operatorOnly

(* decideAwayAsSupervisor reads the state and judges the trigger without   *)
(* the mutex; the engine call that follows takes it and loads again.       *)
AwayDecide(action, s) ==
    /\ AwayMode
    /\ plan = NoPlan
    /\ AwayTrigger(run)
    /\ interventions < MaxInterventions
    /\ s # NoStage => action \in {"resume", "set-stage"}
    /\ s = NoStage =>
           /\ action # "set-stage"
           /\ action = "resume" => run.stage = NoStage
    /\ plan' = [action |-> IF action = "resume" /\ run.status # "paused"
                           THEN "set-stage" ELSE action,
                stage |-> s]
    /\ UNCHANGED <<run, interventions>>

(* waive-gate of away mode names no stage: the current one, or the stage   *)
(* of the last outcome that was no success.                                *)
LastUnsuccessful(r) ==
    {i \in 1 .. Len(r.history) :
        /\ r.history[i].outcome # "success"
        /\ \A j \in i + 1 .. Len(r.history) : r.history[j].outcome = "success"}
WaiverStage(r) ==
    IF r.stage # NoStage THEN r.stage
    ELSE CHOOSE s \in Stages :
            \E i \in LastUnsuccessful(r) : r.history[i].stage = s

AwayWaives(coversGate) ==
    LET s == WaiverStage(run) IN
    /\ run.stage # NoStage \/ LastUnsuccessful(run) # {}
    /\ ~WaiverUnreached(run, s, WaiverTarget(run, s), coversGate)
    /\ FromOutside(GateWaived(run, s, WaiverTarget(run, s), coversGate))

(* A run that was closed when away mode looked has no stage to name.       *)
ResumedByAway(r, s) ==
    IF s # NoStage THEN ResumedAt(r, s, FALSE, TRUE)
    ELSE IF r.pause.saved THEN ResumedInPlace(r, FALSE)
    ELSE ResumedAt(r, DefaultStage(r), FALSE, FALSE)

AwayApply(coversGate) ==
    /\ plan # NoPlan
    /\ plan' = NoPlan
    /\ CASE plan.action = "approve" ->
              AwaitsDecision(run) /\ FromOutside(Approved(run))
         [] plan.action = "reject" ->
              AwaitsDecision(run) /\ FromOutside(Rejected(run))
         [] plan.action = "revise" ->
              AwaitsDecision(run) /\ FromOutside(RevisedByAway(run))
         [] plan.action = "resume" ->
              /\ run.status = "paused" /\ ~OperatorOnly(run)
              /\ FromOutside(ResumedByAway(run, plan.stage))
         [] plan.action = "set-stage" ->
              ~OperatorOnly(run) /\ FromOutside(StageSet(run, plan.stage))
         [] OTHER -> AwayWaives(coversGate)

(* The engine refused the command, or its process ended before it.         *)
AwayRefused ==
    plan # NoPlan /\ plan' = NoPlan /\ UNCHANGED <<run, interventions>>

(* liftOperatorOnlyPauseForHorizon: the session arbiter overrides a pause. *)
LiftOperatorOnly ==
    /\ LongHorizon
    /\ OperatorOnly(run)
    /\ FromOutside([run EXCEPT !.pending = Pending("operator_decision")])
    /\ UNCHANGED plan

-----------------------------------------------------------------------------
Init == run = InitialRun /\ plan = NoPlan /\ interventions = 0

Prepare ==
    \/ PrepareExhausted
    \/ PrepareInterrupted
    \/ PrepareGateFailed
    \/ PrepareProfilesFailed
    \/ PrepareInvocation

Worker ==
    \E outcome \in Outcomes :
        \E reason \in Reasons(outcome), environmentBlocked \in BOOLEAN :
            Submit(outcome, reason, environmentBlocked)

Supervisor == \E verdict \in {"pass", "fail", "escalate"} : Assess(verdict)

EvidenceWatch == \E failing \in Signatures : EvidenceGateFailure(failing)

Operator ==
    \/ Approve
    \/ Revise
    \/ Reject
    \/ \E target \in Stages : RejectTo(target)
    \/ RecordLanded
    \/ PauseRun
    \/ \E withNote, edited \in BOOLEAN : Resume(withNote, edited)
    \/ \E target \in Stages, edited \in BOOLEAN : ResumeAt(target, edited)
    \/ \E target \in Stages : SetStage(target)
    \/ \E s \in Stages, target \in Targets, coversGate \in BOOLEAN :
           WaiveGate(s, target, coversGate)
    \/ AbortRun

Away ==
    \/ \E action \in AwayActions, s \in Stages \cup {NoStage} :
           AwayDecide(action, s)
    \/ \E coversGate \in BOOLEAN : AwayApply(coversGate)
    \/ AwayRefused
    \/ LiftOperatorOnly

Next == Prepare \/ Worker \/ Supervisor \/ EvidenceWatch \/ Operator \/ Away

(* The supervisor that drives a run continues through every action the     *)
(* harness leaves to it (ORCH-001); nobody obliges the operator to act.    *)
Fairness == WF_vars(Prepare) /\ WF_vars(Worker) /\ WF_vars(Supervisor)

Spec == Init /\ [][Next]_vars
FairSpec == Spec /\ Fairness

-----------------------------------------------------------------------------
(* Properties                                                              *)

(* The stored state always has the shape types.ts gives RunState, and no   *)
(* command that threw was persisted.                                       *)
TypeOK ==
    /\ run \in RunState
    /\ run.inbox # "throws"
    /\ plan \in Plan
    /\ interventions \in 0 .. MaxInterventions

(* The status names the actor the run waits for, and the pending action    *)
(* names what that actor has to do: every handler that changes one changes *)
(* the other, also when it leaves through a limit, a gate or a restore.  A *)
(* waiver may pause a closed run, which then has no stage.                 *)
Coherent(status, pending) ==
    CASE status = "running" ->
            pending.type \in {"prepare_invocation", "invoke_agent"}
      [] status = "awaiting_supervisor" ->
            pending.type = "supervisor_assessment"
      [] status = "awaiting_operator" ->
            pending.type = "operator_approval" /\ pending.outcome \in Outcomes
      [] status = "paused" -> pending.type = "operator_decision"
      [] OTHER -> pending.type = "none"

StatusNamesTheActor ==
    /\ Coherent(run.status, run.pending)
    /\ run.status \in Terminal => run.stage = NoStage
    /\ run.stage = NoStage => run.status \in Terminal \cup {"paused"}

(* An outcome is recorded for the stage and the attempt of its card, also  *)
(* when it comes from a watch that outlived a pause: the handlers take the *)
(* stage from the run and the attempt from the card.                       *)
OutcomesMatchCards ==
    \A i \in 1 .. Len(run.history) :
        LET item == run.history[i] IN
        /\ item.id \in 1 .. Len(run.cards)
        /\ run.cards[item.id] = [stage |-> item.stage, attempt |-> item.attempt]

WatchReportedSince(r, n) ==
    \E i \in n + 1 .. Len(r.history) : ~r.history[i].hasRecord

(* The saved operator pause lives as long as the pause: a resume, redirect *)
(* or waiver that left it behind would restore a stale gate.  Only a watch *)
(* that reports on the paused run moves it on with its pause still saved.  *)
PauseIsForgotten ==
    run.pause.saved =>
        /\ \/ run.status \in Terminal \cup {"paused"}
           \/ WatchReportedSince(run, run.pause.since)
        /\ run.pause.status \notin Terminal \cup {"paused"}
        /\ Coherent(run.pause.status, run.pause.pending)

(* max_stage_attempts plus the granted revisions bounds the attempts of a  *)
(* stage, whatever path the run takes back to it.                          *)
AttemptsWithinCeiling ==
    \A s \in Stages : run.attempts[s] <= AttemptCeiling(run, s)

(* Two failures in a row of a tracked stage for the same deterministic     *)
(* reason end the unattended work of a run: nothing happens after them.    *)
(* Evidence watches are left out: a late one can move the paused run, see  *)
(* PauseHeldForDecision.                                                   *)
SameReasonPair(i, j) ==
    LET a == run.history[i]
        b == run.history[j]
    IN /\ i < j /\ a.stage = b.stage /\ SameReasonTracked(a.stage)
       /\ a.outcome = "failure" /\ b.outcome = "failure"
       /\ a.reason # {} /\ a.reason \subseteq b.reason
       /\ \A k \in i + 1 .. j - 1 : run.history[k].stage # a.stage

SameReasonStops ==
    interventions = 0 /\ ReportsRecorded = 0 /\ ~LongHorizon =>
        \A i, j \in 1 .. Len(run.history) :
            SameReasonPair(i, j) =>
                j = Len(run.history) /\ run.status \in {"paused", "failed"}

(* A card for a gated stage exists only while a pass of its entry gate     *)
(* covers the visit: no other stage has submitted since, also when the     *)
(* card was kept over a pause and a watch reports on it.                   *)
GateCoversCard ==
    run.current # NoInvocation /\ run.stage # NoStage => GateAnswered(run)

(* A failed entry gate sends the run to repair at most max_loops times.    *)
(* The next failure pauses it, and each one after that needs a command     *)
(* from outside that moved the run on without clearing the gate.           *)
RepairLoopsBounded ==
    \A s \in Stages :
        run.gates[s].failures <= EntryGateOf[s].maxLoops + interventions
                                   + (IF run.status = "paused" THEN 1 ELSE 0)

(* The long-horizon ladder is finite over the whole run: two retries, one  *)
(* change of strategy, and the next failed card stops the run.  A watch may *)
(* report on a card that failed already, and may move the run on from a    *)
(* pause, but it climbs the ladder when it does.                           *)
CardsFailed ==
    {id \in 1 .. Len(run.cards) :
        \E i \in 1 .. Len(run.history) :
            run.history[i].id = id /\ run.history[i].outcome = "failure"}

HorizonLadderEnds ==
    LongHorizon /\ interventions = 0 =>
        /\ Cardinality(CardsFailed) <= 4
        /\ Cardinality(CardsFailed) = 4 => run.status = "paused"

(* The run implements StageCards: it never issues a card while a worker or *)
(* a watch may still answer another, and never counts an answer to a       *)
(* discarded card; only where evidence is watched is a card answered twice.*)
OpenCard ==
    IF run.status \notin Terminal /\ ~HasOutcome(run, run.current)
    THEN run.current ELSE NoInvocation

Cards == INSTANCE StageCards
    WITH Watched <- EvidenceStages # {},
         issued <- Len(run.cards),
         open <- OpenCard,
         outcomes <- [i \in DOMAIN run.history |-> run.history[i].id]

AnswersItsCards == Cards!Spec

(* Driven by its supervisor, a run comes to rest: it finishes or it waits  *)
(* for the operator.  It never spins between stages.                       *)
AtRest == run.status \in Terminal \cup {"paused", "awaiting_operator"}
ComesToRest == []<>AtRest
=============================================================================
