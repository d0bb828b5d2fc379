-------------------------- MODULE RunLifecycleProofs --------------------------
(***************************************************************************)
(* Type correctness of RunLifecycle, for every workflow, limit, contract   *)
(* and number of interventions.  It is not inductive alone: a handler      *)
(* takes the stage of the run for an index, which is safe where the status *)
(* implies that there is one; and a resume stores what a pause saved.  So  *)
(* it is proved together with StatusNamesTheActor and the shape of the     *)
(* saved pause.  One lemma for each operator says what state it leaves.    *)
(***************************************************************************)
EXTENDS RunLifecycle, TLAPS

(* What every record has that a handler works on.                          *)
Stored(r) ==
    /\ r \in RunState
    /\ r.current \in 0 .. Len(r.cards)
    /\ r.pause.saved =>
           /\ r.pause.status \notin Terminal \cup {"paused"}
           /\ Coherent(r.pause.status, r.pause.pending)

(* A run without a stage has nothing saved that needs one.                 *)
Pausable(r) == r.stage = NoStage => ~r.pause.saved

(* StatusNamesTheActor of a record.                                        *)
Named(r) ==
    /\ Coherent(r.status, r.pending)
    /\ r.status \in Terminal => r.stage = NoStage
    /\ r.stage = NoStage => r.status \in Terminal \cup {"paused"}

(* What a handler leaves.                                                  *)
Good(r) == Stored(r) /\ Named(r) /\ (r.status = "paused" => Pausable(r))

USE StagesAssumption, GraphAssumption, LimitsAssumption, ContractAssumption

(* A pending action of a known type has the shape the state stores. *)
LEMMA PendingTyped ==
    ASSUME NEW type \in PendingTypes
    PROVE  Pending(type) \in PendingAction
BY DEF Pending, PendingAction

(* A pause of any kind names the decision it waits for. *)
LEMMA PausedGood ==
    ASSUME NEW r, Stored(r), Pausable(r)
    PROVE  Good(Paused(r))
<1>1. Paused(r) \in RunState
  BY PendingTyped DEF Stored, Paused, RunState, Statuses, PendingTypes
<1> QED
  BY <1>1 DEF Good, Stored, Pausable, Named, Paused, Pending, Coherent, Terminal, RunState

(* A candidate that exceeds a limit is closed, with nothing pending. *)
LEMMA CandidateFailedGood ==
    ASSUME NEW r, Stored(r)
    PROVE  Good(CandidateFailed(r))
<1>1. CandidateFailed(r) \in RunState
  BY PendingTyped DEF Stored, CandidateFailed, RunState, Statuses, PendingTypes
<1> QED
  BY <1>1 DEF Good, Stored, Pausable, Named, CandidateFailed, Pending, Coherent, Terminal, RunState

(* Either way a limit leaves a good state. *)
LEMMA PauseForLimitGood ==
    ASSUME NEW r, Stored(r), Pausable(r)
    PROVE  Good(PauseForLimit(r))
BY PausedGood, CandidateFailedGood DEF PauseForLimit

(* The counters of applyTransition. *)
LEMMA CountedStored ==
    ASSUME NEW r, Stored(r), NEW outcome \in Outcomes, NEW directed \in BOOLEAN
    PROVE  Stored(Counted(r, outcome, directed))
<1> DEFINE n == IF ~directed /\ outcome = "failure" THEN r.failures + 1 ELSE 0
<1>1. n \in Nat /\ r.transitions + 1 \in Nat
  BY DEF Stored, RunState
<1>2. Counted(r, outcome, directed) = [r EXCEPT !.transitions = r.transitions + 1, !.failures = n]
  BY DEF Counted, Stored, RunState
<1> HIDE DEF n
<1> QED
  BY <1>1, <1>2 DEF Stored, RunState

(* A success of the repair stage closes the route it answers. *)
LEMMA AnswerRouteStored ==
    ASSUME NEW r, Stored(r), NEW s \in Stages, NEW outcome, NEW override
    PROVE  Stored(AnswerRoute(r, s, outcome, override))
<1>1. CASE ReturnsToGate(r, s, outcome, override)
  <2> DEFINE g == GateThatRouted(r, s)
  <2>1. g \in Stages
    BY <1>1 DEF GateThatRouted, ReturnsToGate, RoutesTo
  <2>2. r.gates \in [Stages -> GateRecord]
    BY DEF Stored, RunState
  <2>3. [r.gates[g] EXCEPT !.routedTo = NoStage] \in GateRecord
    BY <2>1, <2>2 DEF GateRecord
  <2>4. [r.gates EXCEPT ![g] = [r.gates[g] EXCEPT !.routedTo = NoStage]]
            \in [Stages -> GateRecord]
    BY <2>1, <2>2, <2>3
  <2>5. AnswerRoute(r, s, outcome, override) =
        [r EXCEPT !.gates = [r.gates EXCEPT ![g] = [r.gates[g] EXCEPT !.routedTo = NoStage]]]
    BY <1>1 DEF AnswerRoute, Stored, RunState
  <2> HIDE DEF g
  <2> QED
    BY <2>4, <2>5 DEF Stored, RunState
<1>2. CASE ~ReturnsToGate(r, s, outcome, override)
  BY <1>2 DEF AnswerRoute
<1> QED
  BY <1>1, <1>2

(* Where an outcome leads is a target of the workflow. *)
LEMMA NextTargetTyped ==
    ASSUME NEW r, NEW s \in Stages, NEW outcome \in Outcomes,
           NEW override \in Targets \cup {NoOverride}
    PROVE  NextTarget(r, s, outcome, override) \in Targets
<1>1. CASE ReturnsToGate(r, s, outcome, override)
  BY <1>1 DEF NextTarget, GateThatRouted, ReturnsToGate, RoutesTo, Targets
<1>2. CASE ~ReturnsToGate(r, s, outcome, override)
  BY <1>2 DEF NextTarget
<1> QED
  BY <1>1, <1>2

(* A terminal target closes the run; the move of its inbox request may throw. *)
LEMMA FinishedGood ==
    ASSUME NEW r, Stored(r), NEW target \in TerminalTargets
    PROVE  Good(Finished(r, target))
<1> DEFINE box == CASE target = "succeeded" -> MovedInbox(r, "complete")
                    [] target = "canceled" -> MovedInbox(r, "canceled")
                    [] OTHER -> r.inbox
<1>1. box \in InboxStatuses
  BY DEF Stored, RunState, MovedInbox, InboxStatuses, TerminalTargets
<1>2. Finished(r, target) = [r EXCEPT !.status = target, !.stage = NoStage,
                                      !.pending = Pending("none"), !.inbox = box]
  BY DEF Finished, Stored, RunState
<1> HIDE DEF box
<1>3. Finished(r, target) \in RunState
  <2>1. target \in Statuses /\ Pending("none") \in PendingAction
    BY PendingTyped DEF Statuses, TerminalTargets, PendingTypes
  <2> QED
    BY <1>1, <1>2, <2>1 DEF Stored, RunState
<1>4. target \in Terminal /\ target # "paused" /\ Coherent(target, Pending("none"))
  BY DEF Terminal, TerminalTargets, Coherent, Pending
<1>5. /\ Finished(r, target).status = target
      /\ Finished(r, target).stage = NoStage
      /\ Finished(r, target).pending = Pending("none")
      /\ Finished(r, target).current = r.current
      /\ Finished(r, target).cards = r.cards
      /\ Finished(r, target).pause = r.pause
  BY <1>2 DEF Stored, RunState
<1> QED
  BY <1>3, <1>4, <1>5 DEF Good, Stored, Named

(* Leaving a stage resets its attempts and revisions. *)
LEMMA LeftStored ==
    ASSUME NEW r, Stored(r), NEW s \in Stages, NEW target
    PROVE  Stored(Left(r, s, target))
<1>1. [r.attempts EXCEPT ![s] = 0] \in [Stages -> Nat] /\ [r.revisions EXCEPT ![s] = 0] \in [Stages -> Nat]
  BY DEF Stored, RunState
<1>2. Left(r, s, target) \in {r, [r EXCEPT !.attempts = [r.attempts EXCEPT ![s] = 0], !.revisions = [r.revisions EXCEPT ![s] = 0]]}
  BY DEF Left, Stored, RunState
<1> QED
  BY <1>1, <1>2 DEF Stored, RunState

(* Entering a stage waits for a card and forgets the last one. *)
LEMMA EnteredGood ==
    ASSUME NEW r, Stored(r), NEW target \in Stages
    PROVE  Good(Entered(r, target))
<1>0. target # NoStage
  OBVIOUS
<1>1. Entered(r, target) \in RunState
  BY PendingTyped DEF Stored, Entered, RunState, Statuses, PendingTypes, NoInvocation
<1>2. /\ Entered(r, target).status = "running"
      /\ Entered(r, target).stage = target
      /\ Entered(r, target).pending = Pending("prepare_invocation")
      /\ Entered(r, target).current = 0
      /\ Entered(r, target).cards = r.cards
      /\ Entered(r, target).pause = r.pause
  BY DEF Entered, Stored, RunState, NoInvocation
<1>3. Coherent("running", Pending("prepare_invocation"))
  BY DEF Coherent, Pending
<1>4. Len(r.cards) \in Nat
  BY DEF Stored, RunState
<1> QED
  BY <1>0, <1>1, <1>2, <1>3, <1>4 DEF Good, Stored, Named, Terminal

(* Every target of applyTransition leaves a good state. *)
LEMMA MovedGood ==
    ASSUME NEW r, Stored(r), Pausable(r), NEW s \in Stages, NEW target \in Targets
    PROVE  Good(Moved(r, s, target))
<1>1. CASE target \in TerminalTargets
  BY <1>1, FinishedGood DEF Moved, TerminalTargets
<1>2. CASE target = "paused"
  BY <1>2, PausedGood DEF Moved, TerminalTargets
<1>3. CASE target \in Stages
  BY <1>3, LeftStored, EnteredGood DEF Moved, TerminalTargets
<1> QED
  BY <1>1, <1>2, <1>3 DEF Targets

(* applyTransition sets status and pending action on every branch, so it turns
   any stored state, also one with a status and pending action that disagree,
   into a good one. *)
LEMMA ApplyTransitionGood ==
    ASSUME NEW r, Stored(r), Pausable(r), NEW s \in Stages, NEW outcome \in Outcomes,
           NEW override \in Targets \cup {NoOverride}, NEW directed \in BOOLEAN
    PROVE  Good(ApplyTransition(r, s, outcome, override, directed))
<1> DEFINE counted == Counted(r, outcome, directed)
           target == NextTarget(counted, s, outcome, override)
           answered == AnswerRoute(counted, s, outcome, override)
<1>1. Stored(counted) /\ Stored(answered) /\ target \in Targets
  BY CountedStored, AnswerRouteStored, NextTargetTyped
<1>2. answered.stage = r.stage /\ answered.pause = r.pause
  BY DEF Counted, AnswerRoute, Stored, RunState
<1>3. Pausable(answered)
  BY <1>2 DEF Pausable
<1>4. ApplyTransition(r, s, outcome, override, directed) =
        IF OverLimit(answered, directed) THEN PauseForLimit(answered) ELSE Moved(answered, s, target)
  BY DEF ApplyTransition
<1> HIDE DEF counted, target, answered
<1> QED
  BY <1>1, <1>3, <1>4, PauseForLimitGood, MovedGood

(* A stage that follows its own transition. *)
LEMMA FollowGood ==
    ASSUME NEW r, Stored(r), Pausable(r), NEW s \in Stages, NEW outcome \in Outcomes
    PROVE  Good(Follow(r, s, outcome))
BY ApplyTransitionGood DEF Follow

(* A change that leaves the stage and the saved pause alone.               *)
Beside(r, q) == q.stage = r.stage /\ q.pause = r.pause

(* A success or a decision of the operator clears the same-reason tracker. *)
LEMMA ClearTrackerStored ==
    ASSUME NEW r, Stored(r), NEW s \in Stages
    PROVE  Stored(ClearTracker(r, s)) /\ Beside(r, ClearTracker(r, s))
<1>1. NoTracker \in Tracker
  BY DEF NoTracker, Tracker, Signatures
<1>2. [r.trackers EXCEPT ![s] = NoTracker] \in [Stages -> Tracker]
  BY <1>1 DEF Stored, RunState
<1>3. ClearTracker(r, s) = [r EXCEPT !.trackers = [r.trackers EXCEPT ![s] = NoTracker]]
  BY DEF ClearTracker, Stored, RunState
<1> QED
  BY <1>2, <1>3 DEF Stored, RunState, Beside

(* An outcome is recorded for the stage of the run and the attempt of its card. *)
LEMMA RecordedStored ==
    ASSUME NEW r, Stored(r), r.stage \in Stages, r.current # NoInvocation,
           NEW outcome \in Outcomes, NEW reason \in Signatures,
           NEW hasRecord \in BOOLEAN
    PROVE  /\ Stored(Recorded(r, outcome, reason, hasRecord))
           /\ Beside(r, Recorded(r, outcome, reason, hasRecord))
<1> DEFINE item == [stage |-> r.stage, attempt |-> r.cards[r.current].attempt,
                    id |-> r.current, outcome |-> outcome, reason |-> reason,
                    hasRecord |-> hasRecord]
           q == Recorded(r, outcome, reason, hasRecord)
<1>1. r.cards[r.current] \in Card /\ r.current \in Nat
  BY DEF Stored, RunState, NoInvocation
<1>2. item \in HistoryItem
  BY <1>1 DEF HistoryItem, Card
<1>3. Append(r.history, item) \in Seq(HistoryItem)
  BY <1>2 DEF Stored, RunState
<1>4. [r.waived EXCEPT ![r.stage] = FALSE] \in [Stages -> BOOLEAN]
  BY DEF Stored, RunState
<1>5. q = [r EXCEPT !.history = Append(r.history, item),
                    !.waived = [r.waived EXCEPT ![r.stage] = FALSE]]
  BY DEF Recorded, Stored, RunState
<1> HIDE DEF item, q
<1> QED
  BY <1>3, <1>4, <1>5 DEF q, Stored, RunState, Beside

(* A rung of the long-horizon ladder. *)
LEMMA ClimbedStored ==
    ASSUME NEW r, Stored(r), NEW reason \in Signatures
    PROVE  Stored(Climbed(r, reason)) /\ Beside(r, Climbed(r, reason))
<1> DEFINE ladder == [retries  |-> r.ladder.retries + (IF RetriesHorizon(r, reason) THEN 1 ELSE 0),
                      switched |-> r.ladder.switched \/ ~RetriesHorizon(r, reason),
                      last     |-> reason]
<1>1. r.ladder \in Ladder
  BY DEF Stored, RunState
<1>2. r.ladder.retries + (IF RetriesHorizon(r, reason) THEN 1 ELSE 0) \in Nat
  BY <1>1 DEF Ladder
<1>3. ladder \in Ladder
  BY <1>2 DEF Ladder
<1>4. Climbed(r, reason) = [r EXCEPT !.ladder = ladder]
  BY DEF Climbed
<1> HIDE DEF ladder
<1> QED
  BY <1>3, <1>4 DEF Stored, RunState, Beside

(* A failure is counted against the criteria it names. *)
LEMMA TrackedStored ==
    ASSUME NEW r, Stored(r), NEW s \in Stages, NEW reason \in Signatures
    PROVE  Stored(Tracked(r, s, reason)) /\ Beside(r, Tracked(r, s, reason))
<1> DEFINE n == IF CoversPrior(r, s, reason) THEN r.trackers[s].repeats + 1 ELSE 1
           tracker == [signature |-> reason, repeats |-> n]
<1>1. r.trackers \in [Stages -> Tracker]
  BY DEF Stored, RunState
<1>2. n \in Nat
  BY <1>1 DEF Tracker
<1>3. tracker \in Tracker
  BY <1>2 DEF Tracker
<1>4. [r.trackers EXCEPT ![s] = tracker] \in [Stages -> Tracker]
  BY <1>1, <1>3
<1>5. Tracked(r, s, reason) = [r EXCEPT !.trackers = [r.trackers EXCEPT ![s] = tracker]]
  BY <1>1 DEF Tracked, Stored, RunState
<1> HIDE DEF tracker
<1> QED
  BY <1>4, <1>5 DEF Stored, RunState, Beside

(* An operator gate waits for an approval of the outcome. *)
LEMMA AwaitApprovalGood ==
    ASSUME NEW r, Stored(r), r.stage # NoStage, NEW outcome \in Outcomes
    PROVE  Good(AwaitApproval(r, outcome))
<1> DEFINE pending == [Pending("operator_approval") EXCEPT !.outcome = outcome]
           q == AwaitApproval(r, outcome)
<1>1. pending \in PendingAction /\ pending.type = "operator_approval" /\ pending.outcome = outcome
  <2>1. Pending("operator_approval") \in PendingAction /\ Pending("operator_approval").type = "operator_approval"
    BY PendingTyped DEF PendingTypes, Pending
  <2> QED
    BY <2>1 DEF PendingAction
<1>2. q = [r EXCEPT !.status = "awaiting_operator", !.pending = pending]
  BY DEF AwaitApproval
<1>3. Coherent("awaiting_operator", pending)
  BY <1>1 DEF Coherent
<1> HIDE DEF pending, q
<1>4. q \in RunState
  BY <1>1, <1>2 DEF Stored, RunState, Statuses
<1>5. /\ q.status = "awaiting_operator" /\ q.pending = pending /\ q.stage = r.stage
      /\ q.current = r.current /\ q.cards = r.cards /\ q.pause = r.pause
  BY <1>2 DEF Stored, RunState
<1> QED
  BY <1>3, <1>4, <1>5 DEF q, Good, Stored, Named, Terminal

(* A supervisor gate waits for an assessment. *)
LEMMA AwaitAssessmentGood ==
    ASSUME NEW r, Stored(r), r.stage # NoStage
    PROVE  Good(AwaitAssessment(r))
<1> DEFINE q == AwaitAssessment(r)
<1>1. Coherent("awaiting_supervisor", Pending("supervisor_assessment"))
  BY DEF Coherent, Pending
<1>2. q \in RunState
  BY PendingTyped DEF AwaitAssessment, Stored, RunState, Statuses, PendingTypes
<1>3. /\ q.status = "awaiting_supervisor" /\ q.pending = Pending("supervisor_assessment")
      /\ q.stage = r.stage /\ q.current = r.current /\ q.cards = r.cards /\ q.pause = r.pause
  BY DEF AwaitAssessment, Stored, RunState
<1> QED
  BY <1>1, <1>2, <1>3 DEF Good, Stored, Named, Terminal

(* An outcome of a stage with or without an operator gate. *)
LEMMA GatedGood ==
    ASSUME NEW r, Stored(r), r.stage # NoStage, NEW s \in Stages, NEW outcome \in Outcomes
    PROVE  Good(Gated(r, s, outcome))
BY AwaitApprovalGood, FollowGood DEF Gated, Pausable

(* The ladder drops the card when it stops the run. *)
LEMMA DiscardedGood ==
    ASSUME NEW r, Good(r)
    PROVE  Good([r EXCEPT !.current = NoInvocation])
<1> DEFINE q == [r EXCEPT !.current = NoInvocation]
<1>1. r \in RunState /\ Len(r.cards) \in Nat
  BY DEF Good, Stored, RunState
<1>2. q \in RunState
  BY <1>1 DEF RunState, NoInvocation
<1>3. /\ q.status = r.status /\ q.pending = r.pending /\ q.stage = r.stage
      /\ q.current = 0 /\ q.cards = r.cards /\ q.pause = r.pause
  BY <1>1 DEF RunState, NoInvocation
<1> HIDE DEF q
<1>4. Good(q)
  BY <1>1, <1>2, <1>3 DEF Good, Stored, Named, Pausable
<1> QED
  BY <1>4 DEF q

(* Every rung of the ladder leaves a good state. *)
LEMMA HorizonFailureGood ==
    ASSUME NEW r, Stored(r), r.stage # NoStage, NEW s \in Stages, NEW reason \in Signatures
    PROVE  Good(HorizonFailure(r, s, reason))
<1> DEFINE climbed == Climbed(r, reason)
<1>1. Stored(climbed) /\ Pausable(climbed)
  BY ClimbedStored DEF Beside, Pausable
<1>2. Good(ApplyTransition(climbed, s, "failure", s, FALSE))
  BY <1>1, ApplyTransitionGood DEF Targets, Outcomes
<1>3. Good(ApplyTransition(climbed, s, "failure", OnOutcome[s]["failure"], FALSE))
  <2>1. OnOutcome[s]["failure"] \in Targets
    BY DEF Outcomes
  <2> QED
    BY <1>1, <2>1, ApplyTransitionGood DEF Outcomes
<1>4. Good([Paused(climbed) EXCEPT !.current = NoInvocation])
  BY <1>1, PausedGood, DiscardedGood
<1> QED
  BY <1>2, <1>3, <1>4 DEF HorizonFailure

(* A failed outcome, whatever the contract of the run. *)
LEMMA FailedOutcomeGood ==
    ASSUME NEW r, Stored(r), r.stage # NoStage, NEW s \in Stages, NEW reason \in Signatures
    PROVE  Good(FailedOutcome(r, s, reason))
<1>1. Stored(Tracked(r, s, reason)) /\ Tracked(r, s, reason).stage # NoStage
      /\ Pausable(Tracked(r, s, reason))
  BY TrackedStored DEF Beside, Pausable
<1> QED
  BY <1>1, HorizonFailureGood, GatedGood, PauseForLimitGood DEF FailedOutcome, Outcomes

(* A submission, whatever its outcome and the gate of its stage. *)
LEMMA SettledSubmissionGood ==
    ASSUME NEW r, Stored(r), r.stage # NoStage, NEW s \in Stages, NEW outcome \in Outcomes,
           NEW reason \in Signatures, NEW environmentBlocked \in BOOLEAN
    PROVE  Good(SettledSubmission(r, s, outcome, reason, environmentBlocked))
<1>1. Stored(ClearTracker(r, s)) /\ ClearTracker(r, s).stage # NoStage /\ Pausable(r)
  BY ClearTrackerStored DEF Beside, Pausable
<1> QED
  BY <1>1, PausedGood, FailedOutcomeGood, AwaitAssessmentGood, GatedGood DEF SettledSubmission

PausedForOperator == [Pending("operator_decision") EXCEPT !.operatorOnly = TRUE]

(* A pause that only the operator may resolve is a pause. *)
LEMMA PausedForOperatorOnlyGood ==
    ASSUME NEW r, Stored(r), Pausable(r)
    PROVE  Good(PausedForOperatorOnly(r))
<1> DEFINE q == PausedForOperatorOnly(r)
<1>1. PausedForOperator \in PendingAction /\ PausedForOperator.type = "operator_decision"
  <2>1. Pending("operator_decision") \in PendingAction /\ Pending("operator_decision").type = "operator_decision"
    BY PendingTyped DEF PendingTypes, Pending
  <2> QED
    BY <2>1 DEF PausedForOperator, PendingAction
<1>2. Coherent("paused", PausedForOperator)
  BY <1>1 DEF Coherent
<1>3. q = [r EXCEPT !.status = "paused", !.pending = PausedForOperator]
  BY DEF PausedForOperatorOnly, PausedForOperator
<1> HIDE DEF q
<1>4. q \in RunState
  BY <1>1, <1>3 DEF Stored, RunState, Statuses
<1>5. /\ q.status = "paused" /\ q.pending = PausedForOperator /\ q.stage = r.stage
      /\ q.current = r.current /\ q.cards = r.cards /\ q.pause = r.pause
  BY <1>3 DEF Stored, RunState
<1> QED
  BY <1>2, <1>4, <1>5 DEF q, Good, Stored, Named, Pausable, Terminal

(* What a change of the entry gates alone keeps.                           *)
LEMMA GatesStored ==
    ASSUME NEW r, Stored(r), NEW gates \in [Stages -> GateRecord]
    PROVE  /\ Stored([r EXCEPT !.gates = gates])
           /\ Beside(r, [r EXCEPT !.gates = gates])
           /\ Good(r) => Good([r EXCEPT !.gates = gates])
<1> DEFINE q == [r EXCEPT !.gates = gates]
<1>1. q \in RunState
  BY DEF Stored, RunState
<1>2. /\ q.status = r.status /\ q.pending = r.pending /\ q.stage = r.stage
      /\ q.current = r.current /\ q.cards = r.cards /\ q.pause = r.pause
  BY DEF Stored, RunState
<1> HIDE DEF q
<1>3. Stored(q) /\ Beside(r, q) /\ (Good(r) => Good(q))
  BY <1>1, <1>2 DEF Stored, Beside, Good, Named, Pausable
<1> QED
  BY <1>3 DEF q

(* The record of a gate that has not run. *)
LEMMA NoGateRecordTyped == NoGateRecord \in GateRecord
BY DEF NoGateRecord, GateRecord

(* The entry gate passes, or its pass still stands. *)
LEMMA AdmittedStored ==
    ASSUME NEW r, Stored(r), r.stage \in Stages
    PROVE  Stored(Admitted(r)) /\ Beside(r, Admitted(r))
<1> DEFINE pass == [NoGateRecord EXCEPT !.result = "passed", !.passedAt = Len(r.history)]
<1>1. Len(r.history) \in Nat /\ r.gates \in [Stages -> GateRecord]
  BY DEF Stored, RunState
<1>2. pass \in GateRecord
  BY <1>1, NoGateRecordTyped DEF GateRecord
<1> DEFINE gates == [r.gates EXCEPT ![r.stage] = pass]
<1>3. gates \in [Stages -> GateRecord]
  BY <1>1, <1>2
<1>4. Admitted(r) = r \/ Admitted(r) = [r EXCEPT !.gates = gates]
  BY DEF Admitted, Stored, RunState
<1> HIDE DEF gates
<1>5. Stored([r EXCEPT !.gates = gates]) /\ Beside(r, [r EXCEPT !.gates = gates])
  BY <1>3, GatesStored
<1> QED
  BY <1>4, <1>5 DEF Beside

(* The entry gate fails and opens a route to repair. *)
LEMMA GateFailedStored ==
    ASSUME NEW r, Stored(r), NEW s \in Stages, NEW routedTo \in Stages \cup {NoStage}
    PROVE  Stored(GateFailed(r, s, routedTo)) /\ Beside(r, GateFailed(r, s, routedTo))
<1> DEFINE fail == [result |-> "failed", failures |-> r.gates[s].failures + 1,
                    passedAt |-> 0, routedTo |-> routedTo]
<1>1. r.gates \in [Stages -> GateRecord] /\ r.gates[s].failures + 1 \in Nat
  <2>1. r.gates \in [Stages -> GateRecord]
    BY DEF Stored, RunState
  <2>2. r.gates[s] \in GateRecord
    BY <2>1
  <2> QED
    BY <2>1, <2>2 DEF GateRecord
<1>2. fail \in GateRecord
  BY <1>1 DEF GateRecord
<1> DEFINE gates == [r.gates EXCEPT ![s] = fail]
<1>3. gates \in [Stages -> GateRecord]
  BY <1>1, <1>2
<1>4. GateFailed(r, s, routedTo) = [r EXCEPT !.gates = gates]
  BY <1>1 DEF GateFailed, Stored, RunState
<1> HIDE DEF gates
<1> QED
  BY <1>3, <1>4, GatesStored

(* A limit that intercepts the repair closes the route. *)
LEMMA RouteClosedGood ==
    ASSUME NEW r, Good(r), NEW s \in Stages
    PROVE  Good(RouteClosedUnlessRunning(r, s))
<1> DEFINE gate == [r.gates[s] EXCEPT !.routedTo = NoStage]
<1>1. r.gates \in [Stages -> GateRecord] /\ Stored(r)
  BY DEF Good, Stored, RunState
<1>2. gate \in GateRecord
  <2>1. r.gates[s] \in GateRecord
    BY <1>1
  <2> QED
    BY <2>1 DEF GateRecord
<1> DEFINE gates == [r.gates EXCEPT ![s] = gate]
<1>3. gates \in [Stages -> GateRecord]
  BY <1>1, <1>2
<1>4. \/ RouteClosedUnlessRunning(r, s) = r
      \/ RouteClosedUnlessRunning(r, s) = [r EXCEPT !.gates = gates]
  BY <1>1 DEF RouteClosedUnlessRunning, Stored, RunState
<1> HIDE DEF gates
<1> QED
  BY <1>1, <1>3, <1>4, GatesStored

(* A failed entry gate pauses the run or sends it to repair. *)
LEMMA RefusedByGateGood ==
    ASSUME NEW r, Stored(r), r.stage # NoStage, NEW s \in Stages
    PROVE  Good(RefusedByGate(r, s))
<1> DEFINE gate == EntryGateOf[s]
           routedTo == IF gate.route = "direct" THEN gate.repair ELSE NoStage
           moved == ApplyTransition(GateFailed(r, s, routedTo), s, "failure", gate.repair, FALSE)
<1>1. gate.repair \in Stages
  BY DEF EntryGate
<1>2. routedTo \in Stages \cup {NoStage}
  BY <1>1
<1> HIDE DEF routedTo
<1>3. ASSUME NEW to \in Stages \cup {NoStage}
      PROVE  Stored(GateFailed(r, s, to)) /\ Pausable(GateFailed(r, s, to))
  <2>1. Stored(GateFailed(r, s, to)) /\ Beside(r, GateFailed(r, s, to))
    BY GateFailedStored
  <2> QED
    BY <2>1 DEF Beside, Pausable
<1>4. Good(PausedForOperatorOnly(GateFailed(r, s, NoStage)))
  BY <1>3, PausedForOperatorOnlyGood
<1>5. Good(moved)
  BY <1>1, <1>2, <1>3, ApplyTransitionGood DEF Targets, Outcomes
<1>6. Good(RouteClosedUnlessRunning(moved, s))
  BY <1>5, RouteClosedGood
<1>7. RefusedByGate(r, s) \in {PausedForOperatorOnly(GateFailed(r, s, NoStage)),
                               RouteClosedUnlessRunning(moved, s)}
  BY DEF RefusedByGate, routedTo
<1> HIDE DEF moved
<1> QED
  BY <1>4, <1>6, <1>7

(* A redirect closes every route and forgets every pass. *)
LEMMA ClearEntryGateRoutesStored ==
    ASSUME NEW r, Stored(r)
    PROVE  Stored(ClearEntryGateRoutes(r)) /\ Beside(r, ClearEntryGateRoutes(r))
<1> DEFINE gates == [s \in Stages |-> [NoGateRecord EXCEPT
                        !.result = IF r.gates[s].result = "failed" THEN "failed" ELSE "open"]]
<1>1. ASSUME NEW s \in Stages
      PROVE  [NoGateRecord EXCEPT !.result = IF r.gates[s].result = "failed" THEN "failed" ELSE "open"]
                \in GateRecord
  <2>1. ASSUME NEW result \in {"failed", "open"}
        PROVE [NoGateRecord EXCEPT !.result = result] \in GateRecord
    BY NoGateRecordTyped DEF GateRecord
  <2> QED
    BY <2>1
<1>2. gates \in [Stages -> GateRecord]
  BY <1>1
<1>3. ClearEntryGateRoutes(r) = [r EXCEPT !.gates = gates]
  BY DEF ClearEntryGateRoutes
<1> HIDE DEF gates
<1> QED
  BY <1>2, <1>3, GatesStored

(* prepare numbers the attempt before it runs the entry gate. *)
LEMMA NumberedStored ==
    ASSUME NEW r, Stored(r), r.stage \in Stages
    PROVE  /\ Stored(Numbered(r)) /\ Beside(r, Numbered(r))
           /\ Numbered(r).status = r.status
<1>1. r.attempts \in [Stages -> Nat]
  BY DEF Stored, RunState
<1>2. NextAttempt(r) \in Nat
  BY <1>1 DEF NextAttempt
<1>3. [r.attempts EXCEPT ![r.stage] = NextAttempt(r)] \in [Stages -> Nat]
  BY <1>1, <1>2
<1>4. Numbered(r) = [r EXCEPT !.attempts = [r.attempts EXCEPT ![r.stage] = NextAttempt(r)]]
  BY DEF Numbered, Stored, RunState
<1> QED
  BY <1>3, <1>4 DEF Stored, RunState, Beside

(* A new card is the last of the cards and waits for its worker. *)
LEMMA CardIssuedGood ==
    ASSUME NEW r, Stored(r), r.stage \in Stages, r.status = "running"
    PROVE  Good(CardIssued(r))
<1> DEFINE card == [stage |-> r.stage, attempt |-> r.attempts[r.stage]]
           q == CardIssued(r)
<1>1. card \in Card /\ Len(r.cards) \in Nat /\ r.cards \in Seq(Card)
  BY DEF Stored, RunState, Card
<1>2. Append(r.cards, card) \in Seq(Card) /\ Len(Append(r.cards, card)) = Len(r.cards) + 1
  BY <1>1
<1>3. q = [r EXCEPT !.cards = Append(r.cards, card), !.current = Len(r.cards) + 1,
                    !.pending = Pending("invoke_agent")]
  BY DEF CardIssued, Stored, RunState
<1>4. Pending("invoke_agent") \in PendingAction /\ Coherent("running", Pending("invoke_agent"))
  BY PendingTyped DEF PendingTypes, Coherent, Pending
<1> DEFINE cards == Append(r.cards, card)
           n == Len(r.cards) + 1
<1>4a. n \in Nat /\ cards \in Seq(Card)
  BY <1>1, <1>2
<1> HIDE DEF card, q, cards, n
<1>5. q \in RunState
  BY <1>4a, <1>3, <1>4 DEF cards, n, Stored, RunState
<1>6. /\ q.status = "running" /\ q.pending = Pending("invoke_agent") /\ q.stage = r.stage
      /\ q.current = Len(r.cards) + 1 /\ q.cards = Append(r.cards, card) /\ q.pause = r.pause
  BY <1>3 DEF Stored, RunState
<1>7. r.stage # NoStage
  OBVIOUS
<1> QED
  BY <1>1, <1>2, <1>4, <1>5, <1>6, <1>7 DEF q, Good, Stored, Named, Terminal

(* A redirect starts the attempts afresh from its target on. *)
LEMMA ResetAttemptsStored ==
    ASSUME NEW r, Stored(r), NEW from \in Stages
    PROVE  Stored(ResetAttemptsFrom(r, from)) /\ Beside(r, ResetAttemptsFrom(r, from))
<1> DEFINE attempts == [s \in Stages |-> IF Position[s] >= Position[from] THEN 0 ELSE r.attempts[s]]
<1>1. attempts \in [Stages -> Nat]
  BY DEF Stored, RunState
<1>2. ResetAttemptsFrom(r, from) = [r EXCEPT !.attempts = attempts]
  BY DEF ResetAttemptsFrom
<1> HIDE DEF attempts
<1> QED
  BY <1>1, <1>2 DEF Stored, RunState, Beside

(* A revision grants one attempt more and repeats the stage. *)
LEMMA RevisedByOperatorGood ==
    ASSUME NEW r, Stored(r), r.stage \in Stages
    PROVE  Good(RevisedByOperator(r))
<1> DEFINE cleared == ClearTracker(r, r.stage)
           revisions == [cleared.revisions EXCEPT ![r.stage] = cleared.revisions[r.stage] + 1]
           granted == [cleared EXCEPT !.revisions[r.stage] = @ + 1]
<1>1. Stored(cleared) /\ Beside(r, cleared)
  BY ClearTrackerStored
<1> HIDE DEF cleared
<1>2. revisions \in [Stages -> Nat]
  <2>1. cleared.revisions \in [Stages -> Nat]
    BY <1>1 DEF Stored, RunState
  <2> QED
    BY <2>1
<1>3. granted = [cleared EXCEPT !.revisions = revisions]
  BY <1>1 DEF Stored, RunState
<1> HIDE DEF revisions, granted
<1>4. Stored(granted) /\ Pausable(granted)
  BY <1>1, <1>2, <1>3 DEF Stored, RunState, Beside, Pausable
<1>5. Good(ApplyTransition(granted, r.stage, "failure", r.stage, TRUE))
  BY <1>4, ApplyTransitionGood DEF Targets, Outcomes
<1> QED
  BY <1>5 DEF RevisedByOperator, granted, cleared

(* A pause saves a status and a pending action that agree. *)
LEMMA SavePauseStored ==
    ASSUME NEW r, Good(r), r.status \notin Terminal
    PROVE  Stored(SavePause(r)) /\ Pausable(SavePause(r))
<1>1. CASE r.status = "paused"
  BY <1>1 DEF SavePause, Good
<1>2. CASE r.status # "paused"
  <2> DEFINE pause == [saved |-> TRUE, status |-> r.status, pending |-> r.pending,
                       since |-> Len(r.history)]
             q == SavePause(r)
  <2>0. Len(r.history) \in Nat
    BY DEF Good, Stored, RunState
  <2>1. pause \in SavedPause
    BY <2>0 DEF Good, Stored, RunState, SavedPause
  <2>2. q = [r EXCEPT !.pause = pause]
    BY <1>2 DEF SavePause
  <2>3. pause.status = r.status /\ pause.pending = r.pending
    OBVIOUS
  <2> HIDE DEF pause, q
  <2>4. q \in RunState
    BY <2>1, <2>2 DEF Good, Stored, RunState
  <2>5. q.pause = pause /\ q.stage = r.stage /\ q.current = r.current /\ q.cards = r.cards
    BY <2>2 DEF Good, Stored, RunState
  <2>6. Coherent(pause.status, pause.pending) /\ r.stage # NoStage
    BY <1>2, <2>3 DEF Good, Named
  <2> QED
    BY <1>2, <2>3, <2>4, <2>5, <2>6 DEF q, Good, Stored, Pausable
<1> QED
  BY <1>1, <1>2

(* What forgetting the saved pause keeps, with the counters of a run.      *)
LEMMA ForgottenGood ==
    ASSUME NEW r, Good(r), NEW failures \in Nat, NEW transitions \in Nat,
           NEW trackers \in [Stages -> Tracker]
    PROVE  Good([r EXCEPT !.pause = NoPause, !.failures = failures,
                          !.transitions = transitions, !.trackers = trackers])
<1> DEFINE q == [r EXCEPT !.pause = NoPause, !.failures = failures,
                          !.transitions = transitions, !.trackers = trackers]
<1>1. NoPause \in SavedPause /\ ~NoPause.saved
  BY PendingTyped DEF NoPause, SavedPause, Statuses, PendingTypes
<1>2. q \in RunState
  BY <1>1 DEF Good, Stored, RunState
<1>3. /\ q.status = r.status /\ q.pending = r.pending /\ q.stage = r.stage
      /\ q.current = r.current /\ q.cards = r.cards /\ q.pause = NoPause
  BY DEF Good, Stored, RunState
<1> HIDE DEF q
<1>4. Good(q)
  BY <1>1, <1>2, <1>3 DEF Good, Stored, Named, Pausable
<1> QED
  BY <1>4 DEF q

(* A run that is asked to prepare its stage again. *)
LEMMA ReadiedGood ==
    ASSUME NEW r, Stored(r), r.stage # NoStage
    PROVE  LET q == [r EXCEPT !.status = "running",
                              !.pending = Pending("prepare_invocation"),
                              !.current = NoInvocation]
           IN  Good(q) /\ Beside(r, q)
<1> DEFINE q == [r EXCEPT !.status = "running",
                          !.pending = Pending("prepare_invocation"),
                          !.current = NoInvocation]
<1>0. q \in RunState
  BY PendingTyped DEF Stored, RunState, Statuses, PendingTypes, NoInvocation
<1>1. /\ q.status = "running" /\ q.pending = Pending("prepare_invocation")
      /\ q.stage = r.stage /\ q.current = 0 /\ q.cards = r.cards /\ q.pause = r.pause
      /\ Len(r.cards) \in Nat
  BY DEF Stored, RunState, NoInvocation
<1>2. Coherent("running", Pending("prepare_invocation"))
  BY DEF Coherent, Pending
<1> HIDE DEF q
<1>3. Good(q) /\ Beside(r, q)
  BY <1>0, <1>1, <1>2 DEF Good, Stored, Named, Beside, Terminal
<1> QED
  BY <1>3 DEF q

(* An unused card is given back, which never takes an attempt below zero. *)
LEMMA InvalidatedGood ==
    ASSUME NEW r, Stored(r), r.stage # NoStage
    PROVE  Good(Invalidated(r)) /\ Beside(r, Invalidated(r))
<1> DEFINE attempts == [r.attempts EXCEPT ![r.stage] = r.attempts[r.stage] - 1]
           p == [r EXCEPT !.attempts[r.stage] = @ - 1]
<1>1. r.stage \in Stages /\ r.attempts \in [Stages -> Nat]
  BY DEF Stored, RunState
<1>2. r.attempts[r.stage] > 0 => Stored(p) /\ Beside(r, p)
  <2>1. SUFFICES ASSUME r.attempts[r.stage] > 0 PROVE Stored(p) /\ Beside(r, p)
    OBVIOUS
  <2>2. attempts \in [Stages -> Nat]
    BY <1>1, <2>1
  <2>3. p = [r EXCEPT !.attempts = attempts]
    BY DEF Stored, RunState
  <2> HIDE DEF attempts, p
  <2> QED
    BY <2>2, <2>3 DEF Stored, RunState, Beside
<1>3. PICK b \in {r, p} :
        /\ Stored(b) /\ Beside(r, b)
        /\ Invalidated(r) = [b EXCEPT !.status = "running",
                                      !.pending = Pending("prepare_invocation"),
                                      !.current = NoInvocation]
  <2> DEFINE unused == /\ r.current # NoInvocation /\ r.stage # NoStage
                       /\ ~HasOutcome(r, r.current) /\ r.attempts[r.stage] > 0
             b == IF unused THEN p ELSE r
  <2>1. Stored(b) /\ Beside(r, b)
    BY <1>2 DEF Beside
  <2>2. Invalidated(r) = [b EXCEPT !.status = "running",
                                   !.pending = Pending("prepare_invocation"),
                                   !.current = NoInvocation]
    BY DEF Invalidated
  <2> QED
    BY <2>1, <2>2
<1> HIDE DEF p
<1> QED
  BY <1>3, ReadiedGood DEF Beside

(* A resume in place brings back what the pause saved. *)
LEMMA RestoredGood ==
    ASSUME NEW r, Stored(r), r.pause.saved, r.stage # NoStage
    PROVE  Good(Restored(r))
<1> DEFINE q == Restored(r)
<1>1. r.pause \in SavedPause
  BY DEF Stored, RunState
<1>2. q \in RunState
  BY <1>1 DEF Restored, Stored, RunState, SavedPause
<1>3. /\ q.status = r.pause.status /\ q.pending = r.pause.pending /\ q.stage = r.stage
      /\ q.current = r.current /\ q.cards = r.cards /\ q.pause = r.pause
  BY DEF Restored, Stored, RunState
<1> HIDE DEF q
<1>4. Good(q)
  BY <1>2, <1>3 DEF Good, Stored, Named
<1> QED
  BY <1>4 DEF q

(* A resume without a stage. *)
LEMMA ResumedInPlaceGood ==
    ASSUME NEW r, Good(r), r.status = "paused", r.pause.saved, NEW discardCard \in BOOLEAN
    PROVE  Good(ResumedInPlace(r, discardCard))
<1> DEFINE q == IF discardCard THEN Invalidated(r) ELSE Restored(r)
<1>1. Good(q)
  BY InvalidatedGood, RestoredGood DEF Good, Pausable
<1>2. ResumedInPlace(r, discardCard) = [q EXCEPT !.pause = NoPause]
  BY DEF ResumedInPlace
<1> HIDE DEF q
<1>3. q.failures \in Nat /\ q.transitions \in Nat /\ q.trackers \in [Stages -> Tracker]
  BY <1>1 DEF Good, Stored, RunState
<1>4. [q EXCEPT !.pause = NoPause] =
        [q EXCEPT !.pause = NoPause, !.failures = q.failures,
                  !.transitions = q.transitions, !.trackers = q.trackers]
  BY <1>1 DEF Good, Stored, RunState
<1>5. Good([q EXCEPT !.pause = NoPause, !.failures = q.failures,
                     !.transitions = q.transitions, !.trackers = q.trackers])
  BY <1>1, <1>3, ForgottenGood
<1> QED
  BY <1>2, <1>4, <1>5

(* A resume at a stage. *)
LEMMA ResumedAtGood ==
    ASSUME NEW r, Good(r), r.status = "paused", NEW target \in Stages,
           NEW edited \in BOOLEAN, NEW clearRoutes \in BOOLEAN
    PROVE  Good(ResumedAt(r, target, edited, clearRoutes))
<1> DEFINE ratified == IF edited /\ r.pause.saved THEN Invalidated(r) ELSE r
           cleared == IF clearRoutes THEN ClearEntryGateRoutes(ratified) ELSE ratified
           q == Entered(cleared, target)
<1>1. Stored(ratified)
  BY InvalidatedGood DEF Good, Pausable
<1> HIDE DEF ratified
<1>2. Stored(cleared)
  BY <1>1, ClearEntryGateRoutesStored
<1> HIDE DEF cleared
<1>3. Good(q)
  BY <1>2, EnteredGood
<1>4. ResumedAt(r, target, edited, clearRoutes) = [q EXCEPT !.pause = NoPause, !.failures = 0]
  BY DEF ResumedAt, q, cleared, ratified
<1> HIDE DEF q
<1>5. q.transitions \in Nat /\ q.trackers \in [Stages -> Tracker]
  BY <1>3 DEF Good, Stored, RunState
<1>6. [q EXCEPT !.pause = NoPause, !.failures = 0] =
        [q EXCEPT !.pause = NoPause, !.failures = 0,
                  !.transitions = q.transitions, !.trackers = q.trackers]
  BY <1>3 DEF Good, Stored, RunState
<1>7. Good([q EXCEPT !.pause = NoPause, !.failures = 0,
                     !.transitions = q.transitions, !.trackers = q.trackers])
  BY <1>3, <1>5, ForgottenGood
<1> QED
  BY <1>4, <1>6, <1>7

(* set-stage, on a run in any status. *)
LEMMA StageSetGood ==
    ASSUME NEW r, Stored(r), NEW target \in Stages
    PROVE  Good(StageSet(r, target))
<1> DEFINE fresh == ClearEntryGateRoutes(ResetAttemptsFrom(r, target))
           q == Entered(fresh, target)
           trackers == [s \in Stages |-> NoTracker]
<1>1. Stored(fresh)
  BY ResetAttemptsStored, ClearEntryGateRoutesStored
<1> HIDE DEF fresh
<1>2. Good(q)
  BY <1>1, EnteredGood
<1>3. trackers \in [Stages -> Tracker]
  BY DEF NoTracker, Tracker, Signatures
<1>4. StageSet(r, target) = [q EXCEPT !.trackers = trackers, !.pause = NoPause,
                                      !.transitions = 0, !.failures = 0]
  BY DEF StageSet, q, fresh
<1> HIDE DEF q, trackers
<1>5. [q EXCEPT !.trackers = trackers, !.pause = NoPause, !.transitions = 0, !.failures = 0]
        = [q EXCEPT !.pause = NoPause, !.failures = 0, !.transitions = 0, !.trackers = trackers]
  BY <1>2 DEF Good, Stored, RunState
<1>6. Good([q EXCEPT !.pause = NoPause, !.failures = 0, !.transitions = 0, !.trackers = trackers])
  BY <1>2, <1>3, ForgottenGood
<1> QED
  BY <1>4, <1>5, <1>6

(* A waiver sets the run to running before it knows what is pending; it returns
   early only where the card it keeps is the one pending. *)
LEMMA GateWaivedGood ==
    ASSUME NEW r, Good(r), NEW s \in Stages, NEW target \in Targets,
           NEW coversGate \in BOOLEAN
    PROVE  Good(GateWaived(r, s, target, coversGate))
<1> DEFINE c == ClearTracker(r, s)
           waived == [c.waived EXCEPT ![s] = c.waived[s] \/ coversGate]
           directed == [c EXCEPT !.waived[s] = @ \/ coversGate, !.status = "running",
                                 !.pause = NoPause, !.failures = 0]
<1>1. Stored(c) /\ Beside(r, c)
  BY ClearTrackerStored DEF Good
<1>2. c.pending = r.pending /\ c.current = r.current
  BY DEF ClearTracker, Good, Stored, RunState
<1> HIDE DEF c
<1>3. c.waived \in [Stages -> BOOLEAN]
  BY <1>1 DEF Stored, RunState
<1>4. waived \in [Stages -> BOOLEAN]
  BY <1>3
<1>5. directed = [c EXCEPT !.waived = waived, !.status = "running",
                           !.pause = NoPause, !.failures = 0]
  BY <1>1 DEF Stored, RunState
<1>6. NoPause \in SavedPause /\ ~NoPause.saved
  BY PendingTyped DEF NoPause, SavedPause, Statuses, PendingTypes
<1> HIDE DEF waived, directed
<1>7. directed \in RunState
  BY <1>1, <1>4, <1>5, <1>6 DEF Stored, RunState, Statuses
<1>8. /\ directed.status = "running" /\ directed.pause = NoPause
      /\ directed.stage = c.stage /\ directed.pending = c.pending
      /\ directed.current = c.current /\ directed.cards = c.cards
  BY <1>1, <1>5 DEF Stored, RunState
<1>9. Stored(directed)
  BY <1>1, <1>6, <1>7, <1>8 DEF Stored
<1>10. CASE HoldsInvocation(r, s) /\ target = s /\ r.current # NoInvocation
  <2>1. Coherent("running", directed.pending)
    BY <1>2, <1>8, <1>10 DEF HoldsInvocation, Coherent
  <2>2. directed.stage = s /\ s # NoStage
    BY <1>1, <1>8, <1>10 DEF HoldsInvocation, Beside
  <2>3. Good(directed)
    BY <1>8, <1>9, <2>1, <2>2 DEF Good, Named, Terminal
  <2> QED
    BY <1>10, <2>3 DEF GateWaived, directed, c
<1>11. CASE ~(HoldsInvocation(r, s) /\ target = s /\ r.current # NoInvocation)
  <2> DEFINE bare == [directed EXCEPT !.current = NoInvocation]
  <2>1. Len(directed.cards) \in Nat
    BY <1>7 DEF RunState
  <2>2. bare \in RunState
    BY <1>7 DEF RunState, NoInvocation
  <2>3. bare.pause = NoPause /\ bare.current = 0 /\ bare.cards = directed.cards
    BY <1>7, <1>8 DEF RunState, NoInvocation
  <2> HIDE DEF bare
  <2>4. Stored(bare) /\ Pausable(bare)
    BY <1>6, <2>1, <2>2, <2>3 DEF Stored, Pausable
  <2>5. Good(ApplyTransition(bare, s, "success", target, TRUE))
    BY <2>4, ApplyTransitionGood DEF Outcomes
  <2> QED
    BY <1>11, <2>5 DEF GateWaived, directed, c, bare
<1> QED
  BY <1>10, <1>11

(* An abort closes the run and forgets card and pause. *)
LEMMA CanceledGood ==
    ASSUME NEW r, Stored(r)
    PROVE  Good(Canceled(r))
<1> DEFINE f == Finished(r, "canceled")
           d == [f EXCEPT !.current = NoInvocation]
<1>1. Good(f)
  BY FinishedGood DEF TerminalTargets
<1> HIDE DEF f
<1>2. Good(d)
  BY <1>1, DiscardedGood
<1>3. d.failures \in Nat /\ d.transitions \in Nat /\ d.trackers \in [Stages -> Tracker]
  BY <1>2 DEF Good, Stored, RunState
<1>4. Good([d EXCEPT !.pause = NoPause, !.failures = d.failures,
                     !.transitions = d.transitions, !.trackers = d.trackers])
  BY <1>2, <1>3, ForgottenGood
<1>5. Canceled(r) = [f EXCEPT !.current = NoInvocation, !.pause = NoPause]
  BY DEF Canceled, f
<1>6. [f EXCEPT !.current = NoInvocation, !.pause = NoPause] =
      [d EXCEPT !.pause = NoPause, !.failures = d.failures,
                !.transitions = d.transitions, !.trackers = d.trackers]
  BY <1>1 DEF Good, Stored, RunState
<1> QED
  BY <1>4, <1>5, <1>6

-----------------------------------------------------------------------------
RunInv ==
    /\ Good(run) /\ run.inbox # "throws"
    /\ plan \in Plan
    /\ plan.action = "set-stage" => plan.stage \in Stages
    /\ interventions \in 0 .. MaxInterventions

(* Where a run that is not at rest is.                                     *)
LEMMA AtAStage ==
    ASSUME NEW r, Good(r), r.status \notin Terminal \cup {"paused"}
    PROVE  r.stage \in Stages /\ r.stage # NoStage
BY DEF Good, Named, Stored, RunState

(* A command of the run itself persists a good state. *)
LEMMA ByTheRunInv ==
    ASSUME RunInv, NEW next, Good(next), ByTheRun(next)
    PROVE  RunInv'
BY DEF RunInv, ByTheRun, Persist

(* A command from outside does, and uses up one intervention. *)
LEMMA FromOutsideInv ==
    ASSUME RunInv, NEW next, Good(next), FromOutside(next),
           plan' \in {plan, NoPlan}
    PROVE  RunInv'
<1>1. NoPlan \in Plan /\ NoPlan.action # "set-stage"
  BY DEF NoPlan, Plan
<1>2. interventions' \in 0 .. MaxInterventions
  BY BoundsAssumption DEF RunInv, FromOutside
<1> QED
  BY <1>1, <1>2 DEF RunInv, FromOutside, Persist

(* createRun persists a good state. *)
LEMMA InitInv == Init => RunInv
<1> SUFFICES ASSUME Init PROVE RunInv
  OBVIOUS
<1>1. NoPlan \in Plan /\ NoPlan.action # "set-stage" /\ interventions \in 0 .. MaxInterventions
  BY BoundsAssumption DEF Init, NoPlan, Plan
<1>2. NoPause \in SavedPause /\ ~NoPause.saved
  BY PendingTyped DEF NoPause, SavedPause, Statuses, PendingTypes
<1>3. Pending("prepare_invocation") \in PendingAction /\ Coherent("running", Pending("prepare_invocation"))
  BY PendingTyped DEF PendingTypes, Coherent, Pending
<1>4. NoTracker \in Tracker /\ [retries |-> 0, switched |-> FALSE, last |-> {}] \in Ladder
  BY DEF NoTracker, Tracker, Signatures, Ladder
<1>5. InitialRun \in RunState
  BY <1>2, <1>3, <1>4, NoGateRecordTyped
     DEF InitialRun, RunState, Statuses, InboxStatuses, NoInvocation
<1>6. /\ InitialRun.status = "running" /\ InitialRun.stage = StartStage
      /\ InitialRun.pending = Pending("prepare_invocation")
      /\ InitialRun.current = 0 /\ InitialRun.cards = <<>>
      /\ InitialRun.pause = NoPause /\ InitialRun.inbox = "active"
  BY DEF InitialRun, NoInvocation
<1>7. Good(InitialRun)
  BY <1>2, <1>3, <1>5, <1>6 DEF Good, Stored, Named, Terminal
<1> QED
  BY <1>1, <1>6, <1>7 DEF Init, RunInv

(* prepareInvocation, on each of its ways out. *)
LEMMA PrepareInv == ASSUME RunInv, Prepare PROVE RunInv'
<1>1. /\ Stored(run) /\ run.status = "running"
      /\ run.stage \in Stages /\ run.stage # NoStage /\ Pausable(run)
  BY AtAStage DEF RunInv, Good, Prepare, PrepareExhausted, PrepareInterrupted,
     PrepareGateFailed, PrepareProfilesFailed, PrepareInvocation, ReadyToPrepare,
     Terminal, Pausable
<1> DEFINE n == Numbered(run)
<1>2. Stored(n) /\ n.status = "running" /\ n.stage = run.stage /\ Pausable(n)
  BY <1>1, NumberedStored DEF Beside, Pausable
<1> HIDE DEF n
<1>3. Stored(Admitted(n)) /\ Beside(n, Admitted(n)) /\ Admitted(n).status = "running"
  <2>1. Admitted(n).status = n.status
    BY <1>1, <1>2 DEF Admitted, Stored, RunState
  <2> QED
    BY <1>1, <1>2, <2>1, AdmittedStored
<1>4. CASE PrepareExhausted
  BY <1>1, <1>4, PauseForLimitGood, ByTheRunInv DEF PrepareExhausted
<1>5. CASE PrepareInterrupted
  BY <1>2, <1>5, PausedGood, ByTheRunInv DEF PrepareInterrupted, n
<1>6. CASE PrepareGateFailed
  BY <1>1, <1>2, <1>6, RefusedByGateGood, ByTheRunInv DEF PrepareGateFailed, n
<1>7. CASE PrepareProfilesFailed
  <2>1. Good(Follow(Admitted(n), run.stage, "failure"))
    BY <1>1, <1>2, <1>3, FollowGood DEF Beside, Pausable, Outcomes
  <2> QED
    BY <1>7, <2>1, ByTheRunInv DEF PrepareProfilesFailed, n
<1>8. CASE PrepareInvocation
  <2>1. Good(CardIssued(Admitted(n)))
    BY <1>1, <1>2, <1>3, CardIssuedGood DEF Beside
  <2> QED
    BY <1>8, <2>1, ByTheRunInv DEF PrepareInvocation, n
<1> QED
  BY <1>4, <1>5, <1>6, <1>7, <1>8 DEF Prepare

(* The outcomes of workers, supervisors and evidence watches. *)
LEMMA OutcomeInv == ASSUME RunInv, Worker \/ Supervisor \/ EvidenceWatch PROVE RunInv'
<1>1. CASE Worker
  <2>1. PICK outcome \in Outcomes :
            \E reason \in Reasons(outcome), environmentBlocked \in BOOLEAN :
                Submit(outcome, reason, environmentBlocked)
    BY <1>1 DEF Worker
  <2>2a. PICK reason \in Reasons(outcome), environmentBlocked \in BOOLEAN :
            Submit(outcome, reason, environmentBlocked)
    BY <2>1
  <2>2. /\ Stored(run) /\ run.stage \in Stages /\ run.stage # NoStage
        /\ run.current # NoInvocation
    BY <2>2a, AtAStage DEF RunInv, Good, Submit, CanSubmit, Terminal
  <2>3. reason \in Signatures
    BY DEF Reasons, Signatures
  <2> DEFINE r == Recorded(run, outcome, reason, TRUE)
  <2>4. Stored(r) /\ r.stage # NoStage
    BY <2>2, <2>3, RecordedStored DEF Beside
  <2> HIDE DEF r
  <2>5. Good(SettledSubmission(r, run.stage, outcome, reason, environmentBlocked))
    BY <2>2, <2>3, <2>4, SettledSubmissionGood
  <2> QED
    BY <2>2a, <2>5, ByTheRunInv DEF Submit, r
<1>2. CASE Supervisor
  <2>1. PICK verdict \in {"pass", "fail", "escalate"} : Assess(verdict)
    BY <1>2 DEF Supervisor
  <2>2. Stored(run) /\ run.stage \in Stages /\ Pausable(run)
    BY <2>1, AtAStage DEF RunInv, Good, Assess, Terminal, Pausable
  <2>3. Good(Paused(run))
    BY <2>2, PausedGood
  <2>4. \A outcome \in Outcomes : Good(Follow(run, run.stage, outcome))
    BY <2>2, FollowGood
  <2>5. (IF verdict = "pass" THEN "success" ELSE "failure") \in Outcomes
    BY DEF Outcomes
  <2> QED
    BY <2>1, <2>3, <2>4, <2>5, ByTheRunInv DEF Assess
<1>3. CASE EvidenceWatch
  <2>1. PICK failing \in Signatures : EvidenceGateFailure(failing)
    BY <1>3 DEF EvidenceWatch
  <2>2. /\ Stored(run) /\ run.stage \in Stages /\ run.stage # NoStage
        /\ run.current # NoInvocation
    BY <2>1 DEF RunInv, Good, Stored, RunState, EvidenceGateFailure
  <2> DEFINE r == Recorded(run, "failure", failing, FALSE)
  <2>3. Stored(r) /\ r.stage # NoStage
    BY <2>2, RecordedStored DEF Beside, Outcomes
  <2> HIDE DEF r
  <2>4. Good(FailedOutcome(r, run.stage, failing))
    BY <2>2, <2>3, FailedOutcomeGood
  <2> QED
    BY <2>1, <2>4, ByTheRunInv DEF EvidenceGateFailure, r
<1> QED
  BY <1>1, <1>2, <1>3

(* The decisions an operator gate waits for. *)
LEMMA DecisionGood ==
    ASSUME NEW r, Good(r), AwaitsDecision(r)
    PROVE  /\ Good(Approved(r)) /\ Good(Rejected(r))
           /\ Good(RevisedByOperator(r)) /\ Good(RevisedByAway(r))
           /\ \A target \in Stages : Good(RejectedTo(r, target))
<1>1. /\ Stored(r) /\ r.stage \in Stages /\ Pausable(r)
      /\ r.pending.outcome \in Outcomes
  BY AtAStage DEF Good, Named, AwaitsDecision, Coherent, Terminal, Pausable
<1>2. Good(Approved(r))
  BY <1>1, FollowGood DEF Approved
<1>3. Good(Rejected(r))
  <2>1. OnOutcome[r.stage]["failure"] \in Targets
    BY <1>1 DEF Outcomes
  <2> QED
    BY <1>1, <2>1, ApplyTransitionGood DEF Rejected, Outcomes
<1>4. Good(RevisedByOperator(r))
  BY <1>1, RevisedByOperatorGood
<1>5. Good(RevisedByAway(r))
  <2>1. Stored(ClearTracker(r, r.stage)) /\ Pausable(ClearTracker(r, r.stage))
    BY <1>1, ClearTrackerStored DEF Beside, Pausable
  <2> QED
    BY <1>1, <2>1, ApplyTransitionGood DEF RevisedByAway, Targets, Outcomes
<1>6. ASSUME NEW target \in Stages PROVE Good(RejectedTo(r, target))
  <2>1. Stored(ResetAttemptsFrom(r, target)) /\ Pausable(ResetAttemptsFrom(r, target))
    BY <1>1, ResetAttemptsStored DEF Beside, Pausable
  <2> QED
    BY <1>1, <2>1, ApplyTransitionGood DEF RejectedTo, Targets, Outcomes
<1> QED
  BY <1>2, <1>3, <1>4, <1>5, <1>6

(* A resume that names no stage goes to a stage of the workflow. *)
LEMMA DefaultStageTyped ==
    ASSUME NEW r, Stored(r) PROVE DefaultStage(r) \in Stages
BY DEF DefaultStage, Stored, RunState

(* The commands of the operator. *)
LEMMA OperatorInv == ASSUME RunInv, Operator PROVE RunInv'
<1>0. Good(run) /\ Stored(run)
  BY DEF RunInv, Good
<1>1. CASE Approve \/ Revise \/ Reject \/ \E target \in Stages : RejectTo(target)
  BY <1>0, <1>1, DecisionGood, FromOutsideInv DEF Approve, Revise, Reject, RejectTo
<1>2. CASE RecordLanded
  <2>1. run.stage \in Stages /\ Pausable(run)
    BY <1>0, <1>2 DEF RecordLanded, Stored, RunState, Pausable
  <2>2. Good(LandedByHand(run))
    BY <1>0, <2>1, ApplyTransitionGood DEF LandedByHand, Targets, TerminalTargets, Outcomes
  <2> QED
    BY <1>2, <2>2, FromOutsideInv DEF RecordLanded
<1>3. CASE PauseRun
  <2>1. Good(Paused(SavePause(run)))
    BY <1>0, <1>3, SavePauseStored, PausedGood DEF PauseRun
  <2> QED
    BY <1>3, <2>1, FromOutsideInv DEF PauseRun
<1>4. ASSUME NEW withNote \in BOOLEAN, NEW edited \in BOOLEAN, Resume(withNote, edited)
      PROVE  RunInv'
  <2>1. CASE run.pause.saved
    <3>1. Good(ResumedInPlace(run, withNote \/ edited))
      BY <1>0, <1>4, <2>1, ResumedInPlaceGood DEF Resume
    <3> QED
      BY <1>4, <2>1, <3>1, FromOutsideInv DEF Resume
  <2>2. CASE ~run.pause.saved
    <3>1. Good(ResumedAt(run, DefaultStage(run), FALSE, TRUE))
      BY <1>0, <1>4, DefaultStageTyped, ResumedAtGood DEF Resume
    <3> QED
      BY <1>4, <2>2, <3>1, FromOutsideInv DEF Resume
  <2> QED
    BY <2>1, <2>2
<1>5. ASSUME NEW target \in Stages, NEW edited \in BOOLEAN, ResumeAt(target, edited)
      PROVE  RunInv'
  BY <1>0, <1>5, ResumedAtGood, FromOutsideInv DEF ResumeAt
<1>6. ASSUME NEW target \in Stages, SetStage(target) PROVE RunInv'
  BY <1>0, <1>6, StageSetGood, FromOutsideInv DEF SetStage
<1>7. ASSUME NEW s \in Stages, NEW target \in Targets, NEW coversGate \in BOOLEAN,
             WaiveGate(s, target, coversGate)
      PROVE  RunInv'
  BY <1>0, <1>7, GateWaivedGood, FromOutsideInv DEF WaiveGate
<1>8. CASE AbortRun
  BY <1>0, <1>8, CanceledGood, FromOutsideInv DEF AbortRun
<1> QED
  BY <1>1, <1>2, <1>3, <1>4, <1>5, <1>6, <1>7, <1>8 DEF Operator

(* A waiver of away mode finds a stage and a target. *)
LEMMA WaiverStageTyped ==
    ASSUME NEW r, Stored(r), r.stage # NoStage \/ LastUnsuccessful(r) # {}
    PROVE  WaiverStage(r) \in Stages /\ WaiverTarget(r, WaiverStage(r)) \in Targets
<1>1. WaiverStage(r) \in Stages
  <2>1. CASE r.stage # NoStage
    BY <2>1 DEF WaiverStage, Stored, RunState
  <2>2. CASE r.stage = NoStage
    <3>1. PICK i \in 1 .. Len(r.history) : i \in LastUnsuccessful(r)
      BY <2>2 DEF LastUnsuccessful
    <3>2. r.history[i] \in HistoryItem
      BY DEF Stored, RunState
    <3>3. r.history[i].stage \in Stages
      BY <3>2 DEF HistoryItem
    <3> QED
      BY <2>2, <3>1, <3>3 DEF WaiverStage
  <2> QED
    BY <2>1, <2>2
<1>2. OnOutcome[WaiverStage(r)]["success"] \in Targets
  BY <1>1 DEF Outcomes
<1> QED
  BY <1>1, <1>2 DEF WaiverTarget, Targets

(* Away mode: what it decides from an older state, and what it applies to the
   stored one. *)
LEMMA AwayInv == ASSUME RunInv, Away PROVE RunInv'
<1>0. Good(run) /\ Stored(run) /\ NoPlan \in Plan /\ NoPlan.action # "set-stage"
  BY DEF RunInv, Good, NoPlan, Plan
<1>1. ASSUME NEW action \in AwayActions, NEW s \in Stages \cup {NoStage}, AwayDecide(action, s)
      PROVE  RunInv'
  (* Only a paused run has no stage to name, and such a run is resumed.    *)
  <2>1. s = NoStage => plan'.action # "set-stage"
    BY <1>0, <1>1 DEF AwayDecide, AwayTrigger, Good, Named, Coherent, Terminal
  <2>2. plan' \in Plan /\ plan'.stage = s
    BY <1>1 DEF AwayDecide, Plan, AwayActions
  <2> QED
    BY <1>1, <2>1, <2>2 DEF RunInv, AwayDecide
<1>2. ASSUME NEW coversGate \in BOOLEAN, AwayApply(coversGate) PROVE RunInv'
  <2>0. plan' = NoPlan /\ plan.action \in AwayActions \cup {"none"}
        /\ plan.stage \in Stages \cup {NoStage}
    BY <1>2 DEF AwayApply, RunInv, Plan
  <2>1. CASE plan.action \in {"approve", "reject", "revise"}
    BY <1>0, <1>2, <2>0, <2>1, DecisionGood, FromOutsideInv DEF AwayApply
  <2>2. CASE plan.action = "resume"
    <3>1. run.status = "paused" /\ FromOutside(ResumedByAway(run, plan.stage))
      BY <1>2, <2>2 DEF AwayApply
    <3>2. Good(ResumedByAway(run, plan.stage))
      BY <1>0, <2>0, <3>1, ResumedAtGood, ResumedInPlaceGood, DefaultStageTyped
         DEF ResumedByAway
    <3> QED
      BY <2>0, <3>1, <3>2, FromOutsideInv
  <2>3. CASE plan.action = "set-stage"
    <3>1. FromOutside(StageSet(run, plan.stage)) /\ plan.stage \in Stages
      BY <1>2, <2>3 DEF AwayApply, RunInv
    <3> QED
      BY <1>0, <2>0, <3>1, StageSetGood, FromOutsideInv
  <2>4. CASE plan.action \notin {"approve", "reject", "revise", "resume", "set-stage"}
    <3>1. AwayWaives(coversGate)
      BY <1>2, <2>4 DEF AwayApply
    <3>2. Good(GateWaived(run, WaiverStage(run), WaiverTarget(run, WaiverStage(run)), coversGate))
      BY <1>0, <3>1, WaiverStageTyped, GateWaivedGood DEF AwayWaives
    <3> QED
      BY <2>0, <3>1, <3>2, FromOutsideInv DEF AwayWaives
  <2> QED
    BY <2>1, <2>2, <2>3, <2>4
<1>3. CASE AwayRefused
  BY <1>0, <1>3 DEF AwayRefused, RunInv
<1>4. CASE LiftOperatorOnly
  <2> DEFINE q == [run EXCEPT !.pending = Pending("operator_decision")]
  <2>1. run.status = "paused"
    BY <1>0, <1>4 DEF LiftOperatorOnly, OperatorOnly, Good, Named, Coherent, Stored, RunState, Statuses
  <2>2. q = Paused(run)
    BY <1>0, <2>1 DEF Paused, Stored, RunState
  <2>3. Good(Paused(run))
    BY <1>0, <2>1, PausedGood DEF Good
  <2> HIDE DEF q
  <2> QED
    BY <1>4, <2>2, <2>3, FromOutsideInv DEF LiftOperatorOnly, q
<1> QED
  BY <1>1, <1>2, <1>3, <1>4 DEF Away

(* Every command keeps the stored state good. *)
LEMMA RunInvariant == Spec => []RunInv
<1>1. RunInv /\ [Next]_vars => RunInv'
  <2>1. ASSUME RunInv, UNCHANGED vars PROVE RunInv'
    BY <2>1 DEF RunInv, vars
  <2> QED
    BY <2>1, PrepareInv, OutcomeInv, OperatorInv, AwayInv DEF Next
<1> QED
  BY <1>1, InitInv, PTL DEF Spec

(* For every workflow and every number of interventions the stored state    *)
(* has the shape of RunState, whatever stage, target or saved status a      *)
(* command reads on the way.                                               *)
THEOREM RunStateTyped == Spec => []TypeOK
<1>1. RunInv => TypeOK
  BY DEF RunInv, Good, Stored, TypeOK
<1> QED
  BY <1>1, RunInvariant, PTL

(* Every handler leaves status, pending action and stage in step: the run   *)
(* always names the actor it waits for.                                    *)
THEOREM ActorNamed == Spec => []StatusNamesTheActor
<1>1. RunInv => StatusNamesTheActor
  BY DEF RunInv, Good, Named, StatusNamesTheActor
<1> QED
  BY <1>1, RunInvariant, PTL
=============================================================================
