---------------------------- MODULE RunCardsProofs ----------------------------
(***************************************************************************)
(* What RunLifecycle keeps of cards, outcomes, attempts, pauses and entry  *)
(* gates, for every workflow.  Few handlers touch them: all the others are *)
(* Quiet, and what is claimed survives every quiet step.  The last         *)
(* sections prove the refinement of StageCards and bound the repair loops  *)
(* and the failures of an unattended run.                                  *)
(***************************************************************************)
EXTENDS RunLifecycleProofs, SequenceTheorems, FiniteSetTheorems

USE StagesAssumption, GraphAssumption, LimitsAssumption, ContractAssumption

Within(r) == \A s \in Stages : r.attempts[s] <= AttemptCeiling(r, s)

(* Cards and outcomes stay; the current card is dropped or stays with its  *)
(* stage; the saved pause is forgotten or stays; no attempt exceeds its    *)
(* ceiling.                                                                *)
Quiet(r, q) ==
    /\ q.cards = r.cards /\ q.history = r.history
    /\ \/ q.current = NoInvocation
       \/ q.current = r.current /\ q.stage \in {r.stage, NoStage}
    /\ q.pause \in {r.pause, NoPause}
    /\ Within(r) => Within(q)

(* Quiet steps compose. *)
LEMMA QuietTransitive ==
    ASSUME NEW r, NEW q, NEW t, Quiet(r, q), Quiet(q, t)
    PROVE  Quiet(r, t)
BY DEF Quiet

(* A pause changes status and pending action only. *)
LEMMA PausedQuiet ==
    ASSUME NEW r, Stored(r)
    PROVE  Quiet(r, Paused(r)) /\ Quiet(r, PausedForOperatorOnly(r))
BY DEF Stored, RunState, Quiet, Within, AttemptCeiling, Paused, PausedForOperatorOnly

(* A limit pauses or closes the run. *)
LEMMA PauseForLimitQuiet ==
    ASSUME NEW r, Stored(r) PROVE Quiet(r, PauseForLimit(r))
<1>1. Quiet(r, CandidateFailed(r))
  BY DEF Stored, RunState, Quiet, Within, AttemptCeiling, CandidateFailed
<1> QED
  BY <1>1, PausedQuiet DEF PauseForLimit

(* The same-reason tracker is apart from cards and attempts. *)
LEMMA ClearTrackerQuiet ==
    ASSUME NEW r, Stored(r), NEW s \in Stages PROVE Quiet(r, ClearTracker(r, s))
BY DEF Stored, RunState, Quiet, Within, AttemptCeiling, ClearTracker

(* So are the counters of applyTransition, *)
LEMMA CountedQuiet ==
    ASSUME NEW r, Stored(r), NEW outcome, NEW directed
    PROVE  Quiet(r, Counted(r, outcome, directed))
BY DEF Stored, RunState, Quiet, Within, AttemptCeiling, Counted

(* and the routes of the entry gates. *)
LEMMA AnswerRouteQuiet ==
    ASSUME NEW r, Stored(r), NEW s, NEW outcome, NEW override
    PROVE  Quiet(r, AnswerRoute(r, s, outcome, override))
BY DEF Stored, RunState, Quiet, Within, AttemptCeiling, AnswerRoute

(* A closed run keeps its last card but has no stage. *)
LEMMA FinishedQuiet ==
    ASSUME NEW r, Stored(r), NEW target PROVE Quiet(r, Finished(r, target))
BY DEF Stored, RunState, Quiet, Within, AttemptCeiling, Finished

(* Leaving a stage resets its attempts together with its revisions. *)
LEMMA LeftQuiet ==
    ASSUME NEW r, Stored(r), NEW s \in Stages, NEW target
    PROVE  Quiet(r, Left(r, s, target))
<1> DEFINE q == [r EXCEPT !.attempts[s] = 0, !.revisions[s] = 0]
<1>1. r.attempts \in [Stages -> Nat] /\ r.revisions \in [Stages -> Nat]
  BY DEF Stored, RunState
<1>2. /\ q.attempts = [r.attempts EXCEPT ![s] = 0]
      /\ q.revisions = [r.revisions EXCEPT ![s] = 0]
      /\ q.cards = r.cards /\ q.history = r.history /\ q.current = r.current
      /\ q.stage = r.stage /\ q.pause = r.pause
  BY DEF Stored, RunState
<1> HIDE DEF q
<1>3. ASSUME Within(r) PROVE Within(q)
  <2> SUFFICES ASSUME NEW t \in Stages PROVE q.attempts[t] <= MaxAttempts + q.revisions[t]
    BY DEF Within, AttemptCeiling
  <2>1. CASE t = s
    BY <1>1, <1>2, <2>1
  <2>2. CASE t # s
    <3>1. q.attempts[t] = r.attempts[t] /\ q.revisions[t] = r.revisions[t]
      BY <1>1, <1>2, <2>2
    <3> QED
      BY <1>3, <3>1 DEF Within, AttemptCeiling
  <2> QED
    BY <2>1, <2>2
<1>4. Quiet(r, q)
  BY <1>2, <1>3 DEF Quiet
<1>5. Quiet(r, r)
  BY DEF Quiet
<1> QED
  BY <1>4, <1>5 DEF Left, q

(* Entering a stage drops the card. *)
LEMMA EnteredQuiet ==
    ASSUME NEW r, Stored(r), NEW target PROVE Quiet(r, Entered(r, target))
BY DEF Stored, RunState, Quiet, Within, AttemptCeiling, Entered

(* Every target of applyTransition is quiet. *)
LEMMA MovedQuiet ==
    ASSUME NEW r, Stored(r), NEW s \in Stages, NEW target \in Targets
    PROVE  Quiet(r, Moved(r, s, target))
<1>1. CASE target \in TerminalTargets
  BY <1>1, FinishedQuiet DEF Moved, TerminalTargets
<1>2. CASE target = "paused"
  BY <1>2, PausedQuiet DEF Moved, TerminalTargets
<1>3. CASE target \in Stages
  <2>1. Stored(Left(r, s, target)) /\ Quiet(r, Left(r, s, target))
    BY LeftStored, LeftQuiet
  <2> QED
    BY <1>3, <2>1, EnteredQuiet, QuietTransitive DEF Moved, TerminalTargets
<1> QED
  BY <1>1, <1>2, <1>3 DEF Targets

(* applyTransition as a whole is quiet. *)
LEMMA ApplyTransitionQuiet ==
    ASSUME NEW r, Stored(r), NEW s \in Stages, NEW outcome \in Outcomes,
           NEW override \in Targets \cup {NoOverride}, NEW directed \in BOOLEAN
    PROVE  Quiet(r, ApplyTransition(r, s, outcome, override, directed))
<1> DEFINE counted == Counted(r, outcome, directed)
           target == NextTarget(counted, s, outcome, override)
           answered == AnswerRoute(counted, s, outcome, override)
<1>1. Stored(counted) /\ Stored(answered) /\ target \in Targets
  BY CountedStored, AnswerRouteStored, NextTargetTyped
<1>2. Quiet(r, counted)
  BY CountedQuiet
<1>3. Quiet(counted, answered)
  BY <1>1, AnswerRouteQuiet
<1>4. Quiet(r, answered)
  BY <1>2, <1>3, QuietTransitive
<1>5. ApplyTransition(r, s, outcome, override, directed) =
        IF OverLimit(answered, directed) THEN PauseForLimit(answered)
                                         ELSE Moved(answered, s, target)
  BY DEF ApplyTransition
<1> HIDE DEF counted, target, answered
<1>6. Quiet(answered, PauseForLimit(answered)) /\ Quiet(answered, Moved(answered, s, target))
  BY <1>1, PauseForLimitQuiet, MovedQuiet
<1> QED
  BY <1>4, <1>5, <1>6, QuietTransitive

(* A stage that follows its own transition. *)
LEMMA FollowQuiet ==
    ASSUME NEW r, Stored(r), NEW s \in Stages, NEW outcome \in Outcomes
    PROVE  Quiet(r, Follow(r, s, outcome))
BY ApplyTransitionQuiet DEF Follow

(* A rung of the long-horizon ladder is recorded beside the cards. *)
LEMMA ClimbedQuiet ==
    ASSUME NEW r, Stored(r), NEW reason PROVE Quiet(r, Climbed(r, reason))
BY DEF Stored, RunState, Quiet, Within, AttemptCeiling, Climbed

(* A repeated reason is recorded beside the cards. *)
LEMMA TrackedQuiet ==
    ASSUME NEW r, Stored(r), NEW s \in Stages, NEW reason
    PROVE  Quiet(r, Tracked(r, s, reason))
BY DEF Stored, RunState, Quiet, Within, AttemptCeiling, Tracked

(* Waiting for an approval or an assessment keeps the card. *)
LEMMA AwaitQuiet ==
    ASSUME NEW r, Stored(r), NEW outcome
    PROVE  Quiet(r, AwaitApproval(r, outcome)) /\ Quiet(r, AwaitAssessment(r))
BY DEF Stored, RunState, Quiet, Within, AttemptCeiling, AwaitApproval, AwaitAssessment

(* Every rung of the ladder is quiet. *)
LEMMA HorizonFailureQuiet ==
    ASSUME NEW r, Stored(r), NEW s \in Stages, NEW reason \in Signatures
    PROVE  Quiet(r, HorizonFailure(r, s, reason))
<1> DEFINE climbed == Climbed(r, reason)
<1>1. Stored(climbed) /\ Quiet(r, climbed)
  BY ClimbedStored, ClimbedQuiet
<1> HIDE DEF climbed
<1>2. \A target \in Targets :
          Quiet(climbed, ApplyTransition(climbed, s, "failure", target, FALSE))
  BY <1>1, ApplyTransitionQuiet DEF Outcomes
<1>3. s \in Targets /\ OnOutcome[s]["failure"] \in Targets
  BY DEF Targets, Outcomes
<1>4. Quiet(climbed, [Paused(climbed) EXCEPT !.current = NoInvocation])
  BY <1>1 DEF Stored, RunState, Quiet, Within, AttemptCeiling, Paused
<1>5. \A q : Quiet(climbed, q) => Quiet(r, q)
  BY <1>1, QuietTransitive
<1> QED
  BY <1>2, <1>3, <1>4, <1>5 DEF HorizonFailure, climbed

(* An outcome of a stage with or without an operator gate. *)
LEMMA GatedQuiet ==
    ASSUME NEW r, Stored(r), NEW s \in Stages, NEW outcome \in Outcomes
    PROVE  Quiet(r, Gated(r, s, outcome))
BY AwaitQuiet, FollowQuiet DEF Gated

(* A failed outcome, whatever the contract of the run. *)
LEMMA FailedOutcomeQuiet ==
    ASSUME NEW r, Stored(r), NEW s \in Stages, NEW reason \in Signatures
    PROVE  Quiet(r, FailedOutcome(r, s, reason))
<1> DEFINE t == Tracked(r, s, reason)
<1>1. Stored(t) /\ Quiet(r, t)
  BY TrackedStored, TrackedQuiet
<1> HIDE DEF t
<1>2. Quiet(t, PauseForLimit(t)) /\ Quiet(t, Gated(t, s, "failure"))
  BY <1>1, PauseForLimitQuiet, GatedQuiet DEF Outcomes
<1>3. Quiet(r, PauseForLimit(t)) /\ Quiet(r, Gated(t, s, "failure"))
  BY <1>1, <1>2, QuietTransitive
<1>4. Quiet(r, Gated(r, s, "failure")) /\ Quiet(r, HorizonFailure(r, s, reason))
  BY GatedQuiet, HorizonFailureQuiet DEF Outcomes
<1> QED
  BY <1>3, <1>4 DEF FailedOutcome, t

(* A submission, once its outcome is recorded. *)
LEMMA SettledSubmissionQuiet ==
    ASSUME NEW r, Stored(r), NEW s \in Stages, NEW outcome \in Outcomes,
           NEW reason \in Signatures, NEW environmentBlocked \in BOOLEAN
    PROVE  Quiet(r, SettledSubmission(r, s, outcome, reason, environmentBlocked))
<1> DEFINE c == ClearTracker(r, s)
<1>1. Stored(c) /\ Quiet(r, c)
  BY ClearTrackerStored, ClearTrackerQuiet
<1> HIDE DEF c
<1>2. Quiet(r, Gated(c, s, outcome))
  BY <1>1, GatedQuiet, QuietTransitive
<1>3. /\ Quiet(r, Paused(r)) /\ Quiet(r, FailedOutcome(r, s, reason))
      /\ Quiet(r, AwaitAssessment(r)) /\ Quiet(r, Gated(r, s, outcome))
  BY PausedQuiet, FailedOutcomeQuiet, AwaitQuiet, GatedQuiet
<1> QED
  BY <1>2, <1>3 DEF SettledSubmission, c

(* The entry gates are apart from cards and attempts. *)
LEMMA GatesQuiet ==
    ASSUME NEW r, Stored(r), NEW gates PROVE Quiet(r, [r EXCEPT !.gates = gates])
BY DEF Stored, RunState, Quiet, Within, AttemptCeiling

(* A step that changes nothing is quiet. *)
LEMMA QuietItself == ASSUME NEW r PROVE Quiet(r, r)
BY DEF Quiet

(* The pass of an entry gate, *)
LEMMA AdmittedQuiet ==
    ASSUME NEW r, Stored(r) PROVE Quiet(r, Admitted(r))
BY DEF Stored, RunState, Quiet, Within, AttemptCeiling, Admitted

(* its failure, *)
LEMMA GateFailedQuiet ==
    ASSUME NEW r, Stored(r), NEW s, NEW routedTo PROVE Quiet(r, GateFailed(r, s, routedTo))
BY DEF Stored, RunState, Quiet, Within, AttemptCeiling, GateFailed

(* and the end of its route are quiet. *)
LEMMA RouteClosedQuiet ==
    ASSUME NEW r, Stored(r), NEW s PROVE Quiet(r, RouteClosedUnlessRunning(r, s))
BY DEF Stored, RunState, Quiet, Within, AttemptCeiling, RouteClosedUnlessRunning

(* A failed entry gate pauses the run or sends it to repair. *)
LEMMA RefusedByGateQuiet ==
    ASSUME NEW r, Stored(r), r.stage # NoStage, NEW s \in Stages
    PROVE  Quiet(r, RefusedByGate(r, s))
<1> DEFINE gate == EntryGateOf[s]
           routedTo == IF gate.route = "direct" THEN gate.repair ELSE NoStage
           failed == GateFailed(r, s, routedTo)
           moved == ApplyTransition(failed, s, "failure", gate.repair, FALSE)
<1>1. gate.repair \in Targets /\ routedTo \in Stages \cup {NoStage}
  BY DEF EntryGate, Targets
<1> HIDE DEF routedTo
<1>2. ASSUME NEW to \in Stages \cup {NoStage}
      PROVE  /\ Stored(GateFailed(r, s, to)) /\ Pausable(GateFailed(r, s, to))
             /\ Quiet(r, GateFailed(r, s, to))
  BY GateFailedStored, GateFailedQuiet DEF Beside, Pausable
<1>3. RefusedByGate(r, s) \in {PausedForOperatorOnly(GateFailed(r, s, NoStage)),
                               RouteClosedUnlessRunning(moved, s)}
  BY DEF RefusedByGate, routedTo
<1>4. Stored(failed) /\ Pausable(failed) /\ Quiet(r, failed)
  BY <1>1, <1>2
<1> HIDE DEF failed
<1>5. Good(moved) /\ Quiet(failed, moved)
  BY <1>1, <1>4, ApplyTransitionGood, ApplyTransitionQuiet DEF Outcomes
<1> HIDE DEF moved
<1>6. Quiet(moved, RouteClosedUnlessRunning(moved, s))
  BY <1>5, RouteClosedQuiet DEF Good
<1>7. Quiet(r, RouteClosedUnlessRunning(moved, s))
  BY <1>4, <1>5, <1>6, QuietTransitive
<1> DEFINE stopped == GateFailed(r, s, NoStage)
<1>8. Stored(stopped) /\ Quiet(r, stopped)
  BY <1>2
<1> HIDE DEF stopped
<1>9. Quiet(r, PausedForOperatorOnly(stopped))
  BY <1>8, PausedQuiet, QuietTransitive
<1> QED
  BY <1>3, <1>7, <1>9 DEF stopped

(* A redirect closes the routes of all gates. *)
LEMMA ClearEntryGateRoutesQuiet ==
    ASSUME NEW r, Stored(r) PROVE Quiet(r, ClearEntryGateRoutes(r))
BY GatesQuiet DEF ClearEntryGateRoutes

(* prepareInvocation numbers an attempt only below the ceiling. *)
LEMMA NumberedQuiet ==
    ASSUME NEW r, Stored(r), r.stage \in Stages, WithinAttempts(r)
    PROVE  Quiet(r, Numbered(r))
<1> DEFINE q == Numbered(r)
           n == NextAttempt(r)
<1>1. /\ q.attempts = [r.attempts EXCEPT ![r.stage] = n]
      /\ q.revisions = r.revisions
      /\ q.cards = r.cards /\ q.history = r.history /\ q.current = r.current
      /\ q.stage = r.stage /\ q.pause = r.pause
      /\ r.attempts \in [Stages -> Nat] /\ n <= AttemptCeiling(r, r.stage)
  BY DEF Stored, RunState, Numbered, WithinAttempts
<1> HIDE DEF q, n
<1>2. ASSUME Within(r) PROVE Within(q)
  <2> SUFFICES ASSUME NEW t \in Stages PROVE q.attempts[t] <= AttemptCeiling(q, t)
    BY DEF Within
  <2>1. AttemptCeiling(q, t) = AttemptCeiling(r, t)
    BY <1>1 DEF AttemptCeiling
  <2>2. q.attempts[t] = IF t = r.stage THEN n ELSE r.attempts[t]
    BY <1>1
  <2> QED
    BY <1>1, <1>2, <2>1, <2>2 DEF Within
<1> QED
  BY <1>1, <1>2 DEF Quiet, q

(* A redirect takes attempts back to zero, never up. *)
LEMMA ResetAttemptsQuiet ==
    ASSUME NEW r, Stored(r), NEW from \in Stages
    PROVE  Quiet(r, ResetAttemptsFrom(r, from))
<1> DEFINE q == ResetAttemptsFrom(r, from)
<1>1. /\ \A t \in Stages : q.attempts[t] \in {0, r.attempts[t]}
      /\ q.revisions = r.revisions /\ r.revisions \in [Stages -> Nat]
      /\ q.cards = r.cards /\ q.history = r.history /\ q.current = r.current
      /\ q.stage = r.stage /\ q.pause = r.pause
  BY DEF Stored, RunState, ResetAttemptsFrom
<1> HIDE DEF q
<1>2. ASSUME Within(r) PROVE Within(q)
  <2> SUFFICES ASSUME NEW t \in Stages PROVE q.attempts[t] <= MaxAttempts + q.revisions[t]
    BY DEF Within, AttemptCeiling
  <2>1. r.revisions[t] \in Nat /\ r.attempts[t] <= MaxAttempts + r.revisions[t]
    BY <1>1, <1>2 DEF Within, AttemptCeiling
  <2> QED
    BY <1>1, <2>1
<1> QED
  BY <1>1, <1>2 DEF Quiet, q

(* A revision raises the ceiling before it repeats the stage. *)
LEMMA RevisedByOperatorQuiet ==
    ASSUME NEW r, Stored(r), r.stage \in Stages
    PROVE  Quiet(r, RevisedByOperator(r))
<1> DEFINE c == ClearTracker(r, r.stage)
           granted == [c EXCEPT !.revisions[r.stage] = @ + 1]
           revisions == [c.revisions EXCEPT ![r.stage] = c.revisions[r.stage] + 1]
<1>1. Stored(c) /\ Quiet(r, c)
  BY ClearTrackerStored, ClearTrackerQuiet
<1> HIDE DEF c
<1>2. /\ c.revisions \in [Stages -> Nat] /\ c.attempts \in [Stages -> Nat]
      /\ c.revisions[r.stage] \in Nat
  BY <1>1 DEF Stored, RunState
<1>3. revisions \in [Stages -> Nat]
  BY <1>2
<1>4. granted = [c EXCEPT !.revisions = revisions]
  BY <1>1 DEF Stored, RunState
<1>5. \A t \in Stages : c.revisions[t] <= revisions[t]
  BY <1>2
<1> HIDE DEF granted, revisions
<1>6. Stored(granted)
  BY <1>1, <1>3, <1>4 DEF Stored, RunState
<1>7. /\ granted.revisions = revisions /\ granted.attempts = c.attempts
      /\ granted.cards = c.cards /\ granted.history = c.history
      /\ granted.current = c.current /\ granted.stage = c.stage
      /\ granted.pause = c.pause
  BY <1>1, <1>4 DEF Stored, RunState
<1>8. ASSUME Within(c) PROVE Within(granted)
  <2> SUFFICES ASSUME NEW t \in Stages
               PROVE  granted.attempts[t] <= MaxAttempts + granted.revisions[t]
    BY DEF Within, AttemptCeiling
  <2>1. /\ c.revisions[t] \in Nat /\ c.attempts[t] \in Nat /\ revisions[t] \in Nat
        /\ c.attempts[t] <= MaxAttempts + c.revisions[t]
    BY <1>2, <1>3, <1>8 DEF Within, AttemptCeiling
  <2> QED
    BY <1>5, <1>7, <2>1
<1>9. Quiet(c, granted)
  BY <1>7, <1>8 DEF Quiet
<1>10. Quiet(granted, ApplyTransition(granted, r.stage, "failure", r.stage, TRUE))
  BY <1>6, ApplyTransitionQuiet DEF Targets, Outcomes
<1> QED
  BY <1>1, <1>9, <1>10, QuietTransitive DEF RevisedByOperator, granted, c

(* The attempt of an unused card is given back with the card. *)
LEMMA InvalidatedQuiet ==
    ASSUME NEW r, Stored(r), r.stage # NoStage
    PROVE  Quiet(r, Invalidated(r))
<1> DEFINE q == Invalidated(r)
           p == [r EXCEPT !.attempts[r.stage] = @ - 1]
           refunded == [r.attempts EXCEPT ![r.stage] = r.attempts[r.stage] - 1]
<1>1. r.stage \in Stages /\ r.attempts \in [Stages -> Nat] /\ r.revisions \in [Stages -> Nat]
  BY DEF Stored, RunState
<1>2. /\ \/ q.attempts = r.attempts
         \/ q.attempts = refunded /\ r.attempts[r.stage] > 0
      /\ q.revisions = r.revisions /\ q.current = NoInvocation
      /\ q.cards = r.cards /\ q.history = r.history /\ q.pause = r.pause
  BY DEF Stored, RunState, Invalidated
<1>3. r.attempts[r.stage] > 0 =>
          \A t \in Stages : refunded[t] <= r.attempts[t] /\ refunded[t] \in Nat
  BY <1>1
<1> HIDE DEF q, refunded
<1>4. ASSUME Within(r) PROVE Within(q)
  <2> SUFFICES ASSUME NEW t \in Stages PROVE q.attempts[t] <= MaxAttempts + q.revisions[t]
    BY DEF Within, AttemptCeiling
  <2>1. /\ r.revisions[t] \in Nat /\ r.attempts[t] \in Nat
        /\ r.attempts[t] <= MaxAttempts + r.revisions[t]
    BY <1>1, <1>4 DEF Within, AttemptCeiling
  <2>2. q.attempts[t] <= r.attempts[t] /\ q.attempts[t] \in Nat
    BY <1>2, <1>3, <2>1
  <2> QED
    BY <1>2, <2>1, <2>2
<1> QED
  BY <1>2, <1>4 DEF Quiet, q

(* A resume in place restores status and pending action only. *)
LEMMA RestoredQuiet ==
    ASSUME NEW r, Stored(r) PROVE Quiet(r, Restored(r))
BY DEF Stored, RunState, Quiet, Within, AttemptCeiling, Restored

(* Quiet, and the saved pause is forgotten.                                *)
Forgets(r, q) == Quiet(r, q) /\ ~q.pause.saved

(* Forgetting the pause beside the counters is quiet. *)
LEMMA ForgottenQuiet ==
    ASSUME NEW r, Stored(r), NEW failures, NEW transitions, NEW trackers
    PROVE  /\ Forgets(r, [r EXCEPT !.pause = NoPause])
           /\ Forgets(r, [r EXCEPT !.pause = NoPause, !.failures = failures])
           /\ Forgets(r, [r EXCEPT !.trackers = trackers, !.pause = NoPause,
                                   !.transitions = transitions, !.failures = failures])
BY DEF Stored, RunState, Quiet, Forgets, Within, AttemptCeiling, NoPause

(* A pause forgotten after a quiet step is forgotten, *)
LEMMA ForgetsLast ==
    ASSUME NEW r, NEW q, NEW t, Quiet(r, q), Forgets(q, t)
    PROVE  Forgets(r, t)
BY QuietTransitive DEF Forgets

(* and no quiet step brings it back. *)
LEMMA ForgetsFirst ==
    ASSUME NEW r, NEW q, NEW t, Forgets(r, q), Quiet(q, t)
    PROVE  Forgets(r, t)
BY QuietTransitive DEF Forgets, Quiet, NoPause

(* A resume without a stage forgets the pause, *)
LEMMA ResumedInPlaceForgets ==
    ASSUME NEW r, Good(r), r.status = "paused", r.pause.saved, NEW discardCard \in BOOLEAN
    PROVE  Forgets(r, ResumedInPlace(r, discardCard))
<1> DEFINE q == IF discardCard THEN Invalidated(r) ELSE Restored(r)
<1>1. Good(q) /\ Quiet(r, q)
  BY InvalidatedGood, RestoredGood, InvalidatedQuiet, RestoredQuiet DEF Good, Pausable
<1>2. ResumedInPlace(r, discardCard) = [q EXCEPT !.pause = NoPause]
  BY DEF ResumedInPlace
<1> HIDE DEF q
<1> QED
  BY <1>1, <1>2, ForgottenQuiet, ForgetsLast DEF Good

(* as do a resume at a stage, *)
LEMMA ResumedAtForgets ==
    ASSUME NEW r, Good(r), r.status = "paused", NEW target \in Stages,
           NEW edited \in BOOLEAN, NEW clearRoutes \in BOOLEAN
    PROVE  Forgets(r, ResumedAt(r, target, edited, clearRoutes))
<1> DEFINE ratified == IF edited /\ r.pause.saved THEN Invalidated(r) ELSE r
           cleared == IF clearRoutes THEN ClearEntryGateRoutes(ratified) ELSE ratified
           q == Entered(cleared, target)
<1>1. Stored(ratified) /\ Quiet(r, ratified)
  BY InvalidatedGood, InvalidatedQuiet, QuietItself DEF Good, Pausable
<1> HIDE DEF ratified
<1>2. Stored(cleared) /\ Quiet(ratified, cleared)
  BY <1>1, ClearEntryGateRoutesStored, ClearEntryGateRoutesQuiet, QuietItself
<1> HIDE DEF cleared
<1>3. Stored(q) /\ Quiet(cleared, q)
  BY <1>2, EnteredGood, EnteredQuiet DEF Good
<1> HIDE DEF q
<1>4. Quiet(r, q)
  BY <1>1, <1>2, <1>3, QuietTransitive
<1>5. Forgets(q, [q EXCEPT !.pause = NoPause, !.failures = 0])
  BY <1>3, ForgottenQuiet
<1> QED
  BY <1>4, <1>5, ForgetsLast DEF ResumedAt, q, cleared, ratified

(* a redirect, *)
LEMMA StageSetForgets ==
    ASSUME NEW r, Good(r), NEW target \in Stages
    PROVE  Forgets(r, StageSet(r, target))
<1> DEFINE reset == ResetAttemptsFrom(r, target)
           fresh == ClearEntryGateRoutes(reset)
           q == Entered(fresh, target)
<1>1. Stored(reset) /\ Quiet(r, reset)
  BY ResetAttemptsStored, ResetAttemptsQuiet DEF Good
<1> HIDE DEF reset
<1>2. Stored(fresh) /\ Quiet(reset, fresh)
  BY <1>1, ClearEntryGateRoutesStored, ClearEntryGateRoutesQuiet
<1> HIDE DEF fresh
<1>3. Stored(q) /\ Quiet(fresh, q)
  BY <1>2, EnteredGood, EnteredQuiet DEF Good
<1> HIDE DEF q
<1>4. Quiet(r, q)
  BY <1>1, <1>2, <1>3, QuietTransitive
<1>5. Forgets(q, [q EXCEPT !.trackers = [s \in Stages |-> NoTracker], !.pause = NoPause,
                           !.transitions = 0, !.failures = 0])
  BY <1>3, ForgottenQuiet
<1> QED
  BY <1>4, <1>5, ForgetsLast DEF StageSet, q, fresh, reset

(* a waiver, whether it keeps the card or not, *)
LEMMA GateWaivedForgets ==
    ASSUME NEW r, Good(r), NEW s \in Stages, NEW target \in Targets,
           NEW coversGate \in BOOLEAN
    PROVE  Forgets(r, GateWaived(r, s, target, coversGate))
<1> DEFINE c == ClearTracker(r, s)
           waived == [c.waived EXCEPT ![s] = c.waived[s] \/ coversGate]
           directed == [c EXCEPT !.waived[s] = @ \/ coversGate, !.status = "running",
                                 !.pause = NoPause, !.failures = 0]
           bare == [directed EXCEPT !.current = NoInvocation]
<1>1. Stored(c) /\ Quiet(r, c)
  BY ClearTrackerStored, ClearTrackerQuiet DEF Good
<1> HIDE DEF c
<1>2. c.waived \in [Stages -> BOOLEAN]
  BY <1>1 DEF Stored, RunState
<1>3. waived \in [Stages -> BOOLEAN]
  BY <1>2
<1>4. directed = [c EXCEPT !.waived = waived, !.status = "running",
                           !.pause = NoPause, !.failures = 0]
  BY <1>1 DEF Stored, RunState
<1> HIDE DEF waived, directed
<1>5. NoPause \in SavedPause /\ ~NoPause.saved
  BY PendingTyped DEF NoPause, SavedPause, Statuses, PendingTypes
<1>6. directed \in RunState /\ directed.pause = NoPause
  BY <1>1, <1>3, <1>4, <1>5 DEF Stored, RunState, Statuses
<1>7. Forgets(c, directed)
  BY <1>1, <1>4, <1>5 DEF Stored, RunState, Forgets, Quiet, Within, AttemptCeiling
<1>8. bare \in RunState /\ bare.current = 0 /\ bare.pause = NoPause /\ bare.cards \in Seq(Card)
  BY <1>6 DEF RunState, NoInvocation
<1>9. Forgets(c, bare)
  BY <1>6, <1>7, QuietTransitive DEF RunState, Forgets, Quiet, Within, AttemptCeiling
<1>10. Stored(bare)
  BY <1>5, <1>8 DEF Stored
<1> HIDE DEF bare
<1>11. Quiet(bare, ApplyTransition(bare, s, "success", target, TRUE))
  BY <1>10, ApplyTransitionQuiet DEF Outcomes
<1>12. GateWaived(r, s, target, coversGate) \in
          {directed, ApplyTransition(bare, s, "success", target, TRUE)}
  BY DEF GateWaived, directed, bare, c
<1> QED
  BY <1>1, <1>7, <1>9, <1>11, <1>12, ForgetsFirst, ForgetsLast

(* and an abort. *)
LEMMA CanceledForgets ==
    ASSUME NEW r, Stored(r) PROVE Forgets(r, Canceled(r))
<1> DEFINE q == Finished(r, "canceled")
<1>1. Stored(q) /\ Quiet(r, q)
  BY FinishedGood, FinishedQuiet DEF Good, TerminalTargets
<1> HIDE DEF q
<1>2. Forgets(q, [q EXCEPT !.current = NoInvocation, !.pause = NoPause])
  BY <1>1 DEF Stored, RunState, Quiet, Forgets, Within, AttemptCeiling, NoPause
<1> QED
  BY <1>1, <1>2, ForgetsLast DEF Canceled, q

(* A landing by hand closes the run, and a closed run may keep its pause. *)
LEMMA LandedByHandCloses ==
    ASSUME NEW r, Stored(r), r.stage \in Stages
    PROVE  Quiet(r, LandedByHand(r)) /\ LandedByHand(r).status = "succeeded"
<1> DEFINE counted == Counted(r, "success", TRUE)
           answered == AnswerRoute(counted, r.stage, "success", "succeeded")
<1>1. Stored(counted) /\ Stored(answered)
  BY CountedStored, AnswerRouteStored DEF Outcomes
<1>2. LandedByHand(r) = Finished(answered, "succeeded")
  BY DEF LandedByHand, ApplyTransition, OverLimit, NextTarget, NoOverride, Moved, TerminalTargets
<1> HIDE DEF counted, answered
<1>3. Finished(answered, "succeeded").status = "succeeded"
  BY <1>1 DEF Stored, RunState, Finished
<1>4. Quiet(r, LandedByHand(r))
  BY ApplyTransitionQuiet DEF LandedByHand, Targets, TerminalTargets, Outcomes
<1> QED
  BY <1>2, <1>3, <1>4
-----------------------------------------------------------------------------
(* An outcome is the one of its card, and the current card belongs to the  *)
(* stage of the run, so that the next outcome will be.                     *)
Matches(cards, item) ==
    /\ item.id \in 1 .. Len(cards)
    /\ cards[item.id] = [stage |-> item.stage, attempt |-> item.attempt]

CardsMatch(r) ==
    /\ \A i \in 1 .. Len(r.history) : Matches(r.cards, r.history[i])
    /\ r.current # NoInvocation /\ r.stage # NoStage =>
           r.cards[r.current].stage = r.stage

(* What every command keeps of cards and attempts.                         *)
CardsKept(r) == CardsMatch(r) /\ Within(r)

(* What is claimed of cards survives every quiet step. *)
LEMMA QuietKeepsCards ==
    ASSUME NEW r, CardsKept(r), NEW q, Quiet(r, q)
    PROVE  CardsKept(q)
BY DEF CardsKept, CardsMatch, Quiet, NoInvocation

(* An outcome is recorded for the stage and attempt of the current card. *)
LEMMA RecordedKeepsCards ==
    ASSUME NEW r, Stored(r), CardsKept(r), r.stage \in Stages, r.current # NoInvocation,
           NEW outcome \in Outcomes, NEW reason \in Signatures, NEW hasRecord \in BOOLEAN
    PROVE  /\ CardsKept(Recorded(r, outcome, reason, hasRecord))
           /\ Recorded(r, outcome, reason, hasRecord).pause = r.pause
<1> DEFINE item == [stage |-> r.stage, attempt |-> r.cards[r.current].attempt,
                    id |-> r.current, outcome |-> outcome, reason |-> reason,
                    hasRecord |-> hasRecord]
           q == Recorded(r, outcome, reason, hasRecord)
<1>1. /\ q.history = Append(r.history, item)
      /\ q.cards = r.cards /\ q.current = r.current /\ q.stage = r.stage
      /\ q.attempts = r.attempts /\ q.revisions = r.revisions /\ q.pause = r.pause
  BY DEF Recorded, Stored, RunState
<1>2. item.id = r.current /\ item.stage = r.stage /\ item.attempt = r.cards[r.current].attempt
  OBVIOUS
<1>3. r.history \in Seq(HistoryItem) /\ r.cards \in Seq(Card) /\ r.current \in 1 .. Len(r.cards)
  BY DEF Stored, RunState, NoInvocation
<1>4. r.cards[r.current] \in Card
  BY <1>3
<1>5. r.stage # NoStage
  OBVIOUS
<1>6. Matches(r.cards, item)
  BY <1>2, <1>3, <1>4, <1>5 DEF Matches, CardsKept, CardsMatch, Card
<1> HIDE DEF item, q
<1>7. ASSUME NEW i \in 1 .. Len(q.history) PROVE Matches(q.cards, q.history[i])
  <2>1. q.history[i] = IF i = Len(r.history) + 1 THEN item ELSE r.history[i]
    BY <1>1, <1>3
  <2>2. i # Len(r.history) + 1 => i \in 1 .. Len(r.history)
    BY <1>1, <1>3
  <2> QED
    BY <1>1, <1>6, <2>1, <2>2 DEF CardsKept, CardsMatch
<1>8. Within(q)
  BY <1>1 DEF CardsKept, Within, AttemptCeiling
<1> QED
  BY <1>1, <1>7, <1>8 DEF q, CardsKept, CardsMatch

(* A new card is the one of the stage and attempt of the run. *)
LEMMA CardIssuedKeepsCards ==
    ASSUME NEW r, Stored(r), CardsKept(r), r.stage \in Stages
    PROVE  CardsKept(CardIssued(r)) /\ CardIssued(r).pause = r.pause
<1> DEFINE card == [stage |-> r.stage, attempt |-> r.attempts[r.stage]]
           q == CardIssued(r)
<1>1. /\ q.cards = Append(r.cards, card) /\ q.current = Len(r.cards) + 1
      /\ q.history = r.history /\ q.stage = r.stage
      /\ q.attempts = r.attempts /\ q.revisions = r.revisions /\ q.pause = r.pause
  BY DEF CardIssued, Stored, RunState
<1>2. r.cards \in Seq(Card) /\ card.stage = r.stage
  BY DEF Stored, RunState
<1>3. card \in Card
  BY DEF Stored, RunState, Card
<1> HIDE DEF card, q
<1>4. /\ Len(q.cards) = Len(r.cards) + 1 /\ q.cards[q.current] = card
      /\ \A i \in 1 .. Len(r.cards) : i \in 1 .. Len(q.cards) /\ q.cards[i] = r.cards[i]
  BY <1>1, <1>2, <1>3
<1>5. ASSUME NEW i \in 1 .. Len(q.history) PROVE Matches(q.cards, q.history[i])
  BY <1>1, <1>4 DEF CardsKept, CardsMatch, Matches
<1>6. Within(q)
  BY <1>1 DEF CardsKept, Within, AttemptCeiling
<1> QED
  BY <1>1, <1>2, <1>4, <1>5, <1>6 DEF q, CardsKept, CardsMatch

(* A pause saves status and pending action. *)
LEMMA SavePauseKeepsCards ==
    ASSUME NEW r, Stored(r), CardsKept(r)
    PROVE  CardsKept(SavePause(r))
BY DEF SavePause, CardsKept, CardsMatch, Within, AttemptCeiling, Stored, RunState

-----------------------------------------------------------------------------
AtRestStatuses == Terminal \cup {"paused"}

(* A run that moves on from a pause has forgotten it.                      *)
PauseEnds(r, q) ==
    \/ r.status \notin AtRestStatuses
    \/ ~q.pause.saved
    \/ q.status \in AtRestStatuses

(* What a command that issues no card and records no outcome does.         *)
QuietCommand == Quiet(run, run') /\ PauseEnds(run, run')

(* The ways out of prepareInvocation that issue no card. *)
LEMMA PrepareQuiet ==
    ASSUME RunInv, PrepareExhausted \/ PrepareInterrupted \/ PrepareGateFailed
                     \/ PrepareProfilesFailed
    PROVE  QuietCommand
<1>1. /\ Stored(run) /\ run.status = "running"
      /\ run.stage \in Stages /\ run.stage # NoStage
  BY AtAStage DEF RunInv, Good, PrepareExhausted, PrepareInterrupted,
     PrepareGateFailed, PrepareProfilesFailed, ReadyToPrepare, Terminal
<1> DEFINE n == Numbered(run)
<1>2. Stored(n) /\ n.stage = run.stage
  BY <1>1, NumberedStored DEF Beside
<1>3. WithinAttempts(run) => Quiet(run, n)
  BY <1>1, NumberedQuiet
<1> HIDE DEF n
<1>4. CASE PrepareExhausted
  BY <1>1, <1>4, PauseForLimitQuiet DEF PrepareExhausted, ByTheRun, Persist, QuietCommand,
     PauseEnds, AtRestStatuses, Terminal
<1>5. CASE PrepareInterrupted
  <2>1. Quiet(n, Paused(n))
    BY <1>2, PausedQuiet
  <2> QED
    BY <1>1, <1>3, <1>5, <2>1, QuietTransitive DEF PrepareInterrupted, ByTheRun, Persist,
       QuietCommand, PauseEnds, AtRestStatuses, Terminal, n
<1>6. CASE PrepareGateFailed
  <2>1. Quiet(n, RefusedByGate(n, run.stage))
    BY <1>1, <1>2, RefusedByGateQuiet
  <2> QED
    BY <1>1, <1>3, <1>6, <2>1, QuietTransitive DEF PrepareGateFailed, ByTheRun, Persist,
       QuietCommand, PauseEnds, AtRestStatuses, Terminal, n
<1>7. CASE PrepareProfilesFailed
  <2> DEFINE a == Admitted(n)
  <2>1. Stored(a) /\ Quiet(n, a)
    BY <1>1, <1>2, AdmittedStored, AdmittedQuiet
  <2> HIDE DEF a
  <2>2. Quiet(a, Follow(a, run.stage, "failure"))
    BY <1>1, <2>1, FollowQuiet DEF Outcomes
  <2>3. Quiet(n, Follow(a, run.stage, "failure"))
    BY <2>1, <2>2, QuietTransitive
  <2> QED
    BY <1>1, <1>3, <1>7, <2>3, QuietTransitive DEF PrepareProfilesFailed, ByTheRun, Persist,
       QuietCommand, PauseEnds, AtRestStatuses, Terminal, n, a
<1> QED
  BY <1>4, <1>5, <1>6, <1>7

(* An assessment records no outcome of its own. *)
LEMMA SupervisorQuiet == ASSUME RunInv, Supervisor PROVE QuietCommand
<1>1. PICK verdict \in {"pass", "fail", "escalate"} : Assess(verdict)
  BY DEF Supervisor
<1>2. /\ Stored(run) /\ run.stage \in Stages /\ run.status = "awaiting_supervisor"
  BY <1>1, AtAStage DEF RunInv, Good, Assess, Terminal
<1>3. /\ Quiet(run, Paused(run))
      /\ \A outcome \in Outcomes : Quiet(run, Follow(run, run.stage, outcome))
  BY <1>2, PausedQuiet, FollowQuiet
<1>4. (IF verdict = "pass" THEN "success" ELSE "failure") \in Outcomes
  BY DEF Outcomes
<1> QED
  BY <1>1, <1>2, <1>3, <1>4 DEF Assess, ByTheRun, Persist, QuietCommand, PauseEnds,
     AtRestStatuses, Terminal

(* The decisions an operator gate waits for. *)
LEMMA DecisionQuiet ==
    ASSUME NEW r, Good(r), AwaitsDecision(r)
    PROVE  /\ Quiet(r, Approved(r)) /\ Quiet(r, Rejected(r))
           /\ Quiet(r, RevisedByOperator(r)) /\ Quiet(r, RevisedByAway(r))
           /\ \A target \in Stages : Quiet(r, RejectedTo(r, target))
<1>1. Stored(r) /\ r.stage \in Stages /\ r.pending.outcome \in Outcomes
  BY AtAStage DEF Good, Named, AwaitsDecision, Coherent, Terminal
<1>2. Quiet(r, Approved(r))
  BY <1>1, FollowQuiet DEF Approved
<1>3. Quiet(r, Rejected(r))
  <2>1. OnOutcome[r.stage]["failure"] \in Targets
    BY <1>1 DEF Outcomes
  <2>2. Quiet(r, ApplyTransition(r, r.stage, "failure",
                                 OnOutcome[r.stage]["failure"], FALSE))
    BY <1>1, <2>1, ApplyTransitionQuiet DEF Outcomes
  <2> QED
    BY <2>2 DEF Rejected
<1>4. Quiet(r, RevisedByOperator(r))
  BY <1>1, RevisedByOperatorQuiet
<1>5. Quiet(r, RevisedByAway(r))
  <2> DEFINE c == ClearTracker(r, r.stage)
  <2>1. Stored(c) /\ Quiet(r, c)
    BY <1>1, ClearTrackerStored, ClearTrackerQuiet
  <2> HIDE DEF c
  <2>2. Quiet(c, ApplyTransition(c, r.stage, "failure", r.stage, FALSE))
    BY <1>1, <2>1, ApplyTransitionQuiet DEF Targets, Outcomes
  <2> QED
    BY <2>1, <2>2, QuietTransitive DEF RevisedByAway, c
<1>6. ASSUME NEW target \in Stages PROVE Quiet(r, RejectedTo(r, target))
  <2> DEFINE c == ResetAttemptsFrom(r, target)
  <2>1. Stored(c) /\ Quiet(r, c)
    BY <1>1, ResetAttemptsStored, ResetAttemptsQuiet
  <2> HIDE DEF c
  <2>2. Quiet(c, ApplyTransition(c, r.stage, "failure", target, TRUE))
    BY <1>1, <2>1, ApplyTransitionQuiet DEF Targets, Outcomes
  <2> QED
    BY <2>1, <2>2, QuietTransitive DEF RejectedTo, c
<1> QED
  BY <1>2, <1>3, <1>4, <1>5, <1>6

(* A command that forgets the pause cannot leave it behind. *)
LEMMA ForgetsIsQuiet ==
    ASSUME NEW next, Forgets(run, next), FromOutside(next) PROVE QuietCommand
BY DEF Forgets, FromOutside, Persist, QuietCommand, PauseEnds

(* Nor can a decision, which a paused run never waits for. *)
LEMMA DecisionIsQuiet ==
    ASSUME NEW next, AwaitsDecision(run), Quiet(run, next), FromOutside(next)
    PROVE  QuietCommand
BY DEF AwaitsDecision, FromOutside, Persist, QuietCommand, PauseEnds, AtRestStatuses, Terminal

(* The commands of the operator, except the pause. *)
LEMMA OperatorQuiet == ASSUME RunInv, Operator PROVE QuietCommand \/ PauseRun
<1>0. Good(run) /\ Stored(run)
  BY DEF RunInv, Good
<1>1. CASE Approve \/ Revise \/ Reject \/ \E target \in Stages : RejectTo(target)
  <2>1. AwaitsDecision(run)
    BY <1>1 DEF Approve, Revise, Reject, RejectTo
  <2> QED
    BY <1>0, <1>1, <2>1, DecisionQuiet, DecisionIsQuiet DEF Approve, Revise, Reject, RejectTo
<1>2. CASE RecordLanded
  <2>1. run.stage \in Stages
    BY <1>0, <1>2 DEF RecordLanded, Stored, RunState
  <2> QED
    BY <1>0, <1>2, <2>1, LandedByHandCloses DEF RecordLanded, FromOutside, Persist,
       QuietCommand, PauseEnds, AtRestStatuses, Terminal
<1>3. ASSUME NEW withNote \in BOOLEAN, NEW edited \in BOOLEAN, Resume(withNote, edited)
      PROVE  QuietCommand
  <2>1. CASE run.pause.saved
    <3>1. Forgets(run, ResumedInPlace(run, withNote \/ edited))
      BY <1>0, <1>3, <2>1, ResumedInPlaceForgets DEF Resume
    <3> QED
      BY <1>3, <2>1, <3>1, ForgetsIsQuiet DEF Resume
  <2>2. CASE ~run.pause.saved
    <3>1. Forgets(run, ResumedAt(run, DefaultStage(run), FALSE, TRUE))
      BY <1>0, <1>3, DefaultStageTyped, ResumedAtForgets DEF Resume
    <3> QED
      BY <1>3, <2>2, <3>1, ForgetsIsQuiet DEF Resume
  <2> QED
    BY <2>1, <2>2
<1>4. ASSUME NEW target \in Stages, NEW edited \in BOOLEAN, ResumeAt(target, edited)
      PROVE  QuietCommand
  BY <1>0, <1>4, ResumedAtForgets, ForgetsIsQuiet DEF ResumeAt
<1>5. ASSUME NEW target \in Stages, SetStage(target) PROVE QuietCommand
  BY <1>0, <1>5, StageSetForgets, ForgetsIsQuiet DEF SetStage
<1>6. ASSUME NEW s \in Stages, NEW target \in Targets, NEW coversGate \in BOOLEAN,
             WaiveGate(s, target, coversGate)
      PROVE  QuietCommand
  BY <1>0, <1>6, GateWaivedForgets, ForgetsIsQuiet DEF WaiveGate
<1>7. CASE AbortRun
  BY <1>0, <1>7, CanceledForgets, ForgetsIsQuiet DEF AbortRun
<1> QED
  BY <1>1, <1>2, <1>3, <1>4, <1>5, <1>6, <1>7 DEF Operator

(* Away mode answers with the operator's commands. *)
LEMMA AwayQuiet == ASSUME RunInv, Away PROVE QuietCommand
<1>0. Good(run) /\ Stored(run)
  BY DEF RunInv, Good
<1>1. ASSUME UNCHANGED run PROVE Quiet(run, run')
  BY <1>1, QuietItself
<1>2. ASSUME NEW action \in AwayActions, NEW s \in Stages \cup {NoStage}, AwayDecide(action, s)
      PROVE  QuietCommand
  <2>1. run.status = "awaiting_operator" \/ run.status = "paused"
    BY <1>0, <1>2 DEF AwayDecide, AwayTrigger, Good, Named, Coherent, Stored, RunState, Statuses
  <2> QED
    BY <1>1, <1>2, <2>1 DEF AwayDecide, QuietCommand, PauseEnds, AtRestStatuses, Terminal
<1>3. ASSUME NEW coversGate \in BOOLEAN, AwayApply(coversGate) PROVE QuietCommand
  <2>0. /\ plan.action \in AwayActions \cup {"none"}
        /\ plan.stage \in Stages \cup {NoStage}
    BY DEF RunInv, Plan
  <2>1. CASE plan.action \in {"approve", "reject", "revise"}
    <3>1. AwaitsDecision(run)
      BY <1>3, <2>1 DEF AwayApply
    <3> QED
      BY <1>0, <1>3, <2>1, <3>1, DecisionQuiet, DecisionIsQuiet DEF AwayApply
  <2>2. CASE plan.action = "resume"
    <3>1. run.status = "paused" /\ FromOutside(ResumedByAway(run, plan.stage))
      BY <1>3, <2>2 DEF AwayApply
    <3>2. Forgets(run, ResumedByAway(run, plan.stage))
      BY <1>0, <2>0, <3>1, ResumedAtForgets, ResumedInPlaceForgets, DefaultStageTyped
         DEF ResumedByAway
    <3> QED
      BY <3>1, <3>2, ForgetsIsQuiet
  <2>3. CASE plan.action = "set-stage"
    <3>1. FromOutside(StageSet(run, plan.stage)) /\ plan.stage \in Stages
      BY <1>3, <2>3 DEF AwayApply, RunInv
    <3> QED
      BY <1>0, <3>1, StageSetForgets, ForgetsIsQuiet
  <2>4. CASE plan.action \notin {"approve", "reject", "revise", "resume", "set-stage"}
    <3>1. AwayWaives(coversGate)
      BY <1>3, <2>4 DEF AwayApply
    <3>2. Forgets(run, GateWaived(run, WaiverStage(run),
                                  WaiverTarget(run, WaiverStage(run)), coversGate))
      BY <1>0, <3>1, WaiverStageTyped, GateWaivedForgets DEF AwayWaives
    <3> QED
      BY <3>1, <3>2, ForgetsIsQuiet DEF AwayWaives
  <2> QED
    BY <2>1, <2>2, <2>3, <2>4
<1>4. CASE AwayRefused
  BY <1>1, <1>4 DEF AwayRefused, QuietCommand, PauseEnds
<1>5. CASE LiftOperatorOnly
  <2> DEFINE q == [run EXCEPT !.pending = Pending("operator_decision")]
  <2>1. run.status = "paused"
    BY <1>0, <1>5 DEF LiftOperatorOnly, OperatorOnly, Good, Named, Coherent, Stored, RunState, Statuses
  <2>2. q = Paused(run) /\ q.status = "paused"
    BY <1>0, <2>1 DEF Paused, Stored, RunState
  <2>3. Quiet(run, Paused(run))
    BY <1>0, PausedQuiet
  <2> HIDE DEF q
  <2>4. run' = q
    BY <1>5 DEF LiftOperatorOnly, FromOutside, Persist, q
  <2> QED
    BY <2>2, <2>3, <2>4 DEF QuietCommand, PauseEnds, AtRestStatuses
<1> QED
  BY <1>2, <1>3, <1>4, <1>5 DEF Away

-----------------------------------------------------------------------------
(* The commands that do touch cards and outcomes: an outcome is recorded    *)
(* and then settled, a card is issued, a pause is saved.                    *)
LEMMA OutcomeCards ==
    ASSUME RunInv, CardsKept(run), Worker \/ EvidenceWatch
    PROVE  CardsKept(run') /\ (Worker => run'.pause \in {run.pause, NoPause})
<1>0. Good(run) /\ Stored(run)
  BY DEF RunInv, Good
<1>1. CASE Worker
  <2>1. PICK outcome \in Outcomes :
            \E reason \in Reasons(outcome), environmentBlocked \in BOOLEAN :
                Submit(outcome, reason, environmentBlocked)
    BY <1>1 DEF Worker
  <2>2. PICK reason \in Reasons(outcome), environmentBlocked \in BOOLEAN :
            Submit(outcome, reason, environmentBlocked)
    BY <2>1
  <2>3. run.stage \in Stages /\ run.current # NoInvocation
    BY <1>0, <2>2, AtAStage DEF Submit, CanSubmit, Terminal
  <2>4. reason \in Signatures
    BY DEF Reasons, Signatures
  <2> DEFINE r == Recorded(run, outcome, reason, TRUE)
  <2>5. Stored(r) /\ CardsKept(r) /\ r.pause = run.pause
    BY <1>0, <2>3, <2>4, RecordedStored, RecordedKeepsCards
  <2> HIDE DEF r
  <2>6. Quiet(r, SettledSubmission(r, run.stage, outcome, reason, environmentBlocked))
    BY <2>3, <2>4, <2>5, SettledSubmissionQuiet
  <2>7. Quiet(r, run')
    BY <2>2, <2>6 DEF Submit, ByTheRun, Persist, r
  <2> QED
    BY <2>5, <2>7, QuietKeepsCards DEF Quiet
<1>2. CASE EvidenceWatch /\ ~Worker
  <2>1. PICK failing \in Signatures : EvidenceGateFailure(failing)
    BY <1>2 DEF EvidenceWatch
  <2>2. run.stage \in Stages /\ run.current # NoInvocation
    BY <1>0, <2>1 DEF EvidenceGateFailure, Stored, RunState
  <2> DEFINE r == Recorded(run, "failure", failing, FALSE)
  <2>3. Stored(r) /\ CardsKept(r)
    BY <1>0, <2>2, RecordedStored, RecordedKeepsCards DEF Outcomes
  <2> HIDE DEF r
  <2>4. Quiet(r, FailedOutcome(r, run.stage, failing))
    BY <2>2, <2>3, FailedOutcomeQuiet
  <2>5. Quiet(r, run')
    BY <2>1, <2>4 DEF EvidenceGateFailure, ByTheRun, Persist, r
  <2> QED
    BY <1>2, <2>3, <2>5, QuietKeepsCards
<1> QED
  BY <1>1, <1>2

(* A card is issued for the stage and attempt it was numbered with. *)
LEMMA PrepareInvocationCards ==
    ASSUME RunInv, CardsKept(run), PrepareInvocation
    PROVE  CardsKept(run') /\ run'.pause \in {run.pause, NoPause}
<1>1. /\ Stored(run) /\ run.stage \in Stages /\ WithinAttempts(run)
  BY AtAStage DEF RunInv, Good, PrepareInvocation, ReadyToPrepare, Terminal
<1> DEFINE n == Numbered(run)
           a == Admitted(n)
<1>2. Stored(n) /\ n.stage = run.stage /\ Quiet(run, n)
  BY <1>1, NumberedStored, NumberedQuiet DEF Beside
<1> HIDE DEF n
<1>3. Stored(a) /\ a.stage \in Stages /\ Quiet(n, a)
  BY <1>1, <1>2, AdmittedStored, AdmittedQuiet DEF Beside
<1> HIDE DEF a
<1>4. CardsKept(a) /\ Quiet(run, a)
  BY <1>2, <1>3, QuietTransitive, QuietKeepsCards
<1>5. CardsKept(CardIssued(a)) /\ CardIssued(a).pause = a.pause
  BY <1>3, <1>4, CardIssuedKeepsCards
<1>6. run' = CardIssued(a)
  BY DEF PrepareInvocation, ByTheRun, Persist, a, n
<1> QED
  BY <1>4, <1>5, <1>6 DEF Quiet

(* A pause keeps card, stage and attempts. *)
LEMMA PauseRunCards ==
    ASSUME RunInv, CardsKept(run), PauseRun
    PROVE  CardsKept(run') /\ run'.status = "paused"
<1> DEFINE r == SavePause(run)
<1>1. Stored(r) /\ CardsKept(r)
  BY SavePauseStored, SavePauseKeepsCards DEF RunInv, Good, PauseRun
<1> HIDE DEF r
<1>2. Quiet(r, Paused(r)) /\ Paused(r).status = "paused"
  BY <1>1, PausedQuiet DEF Paused, Stored, RunState
<1>3. run' = Paused(r)
  BY DEF PauseRun, FromOutside, Persist, r
<1> QED
  BY <1>1, <1>2, <1>3, QuietKeepsCards

(* Every command of a run is one of these or quiet. *)
LEMMA CommandsSplit ==
    ASSUME RunInv, Next
    PROVE  QuietCommand \/ PrepareInvocation \/ Worker \/ EvidenceWatch \/ PauseRun
BY PrepareQuiet, SupervisorQuiet, OperatorQuiet, AwayQuiet DEF Next, Prepare

(* Cards, outcomes and attempts agree in every reachable state. *)
LEMMA CardsInvariant == Spec => []CardsKept(run)
<1>1. Init => CardsKept(run)
  BY DEF Init, InitialRun, CardsKept, CardsMatch, Within, AttemptCeiling, NoInvocation
<1>2. RunInv /\ CardsKept(run) /\ [Next]_vars => CardsKept(run')
  <2>1. ASSUME CardsKept(run), UNCHANGED vars PROVE CardsKept(run')
    BY <2>1 DEF vars
  <2>2. ASSUME CardsKept(run), QuietCommand PROVE CardsKept(run')
    BY <2>2, QuietKeepsCards DEF QuietCommand
  <2> QED
    BY <2>1, <2>2, CommandsSplit, OutcomeCards, PrepareInvocationCards, PauseRunCards
<1>3. (CardsKept(run))' <=> CardsKept(run')
  BY DEF CardsKept, CardsMatch, Within, Matches, AttemptCeiling
<1> QED
  BY <1>1, <1>2, <1>3, RunInvariant, PTL DEF Spec

(* Every recorded outcome names the stage and the attempt of the card it    *)
(* answers, for every workflow and also when an evidence watch that         *)
(* outlived a pause or a redirect records it.                               *)
THEOREM OutcomesAnswerCards == Spec => []OutcomesMatchCards
<1>1. CardsKept(run) => OutcomesMatchCards
  BY DEF CardsKept, CardsMatch, Matches, OutcomesMatchCards
<1> QED
  BY <1>1, CardsInvariant, PTL

(* No path back to a stage, no refund, revision or redirect takes its       *)
(* attempts past max_stage_attempts and the revisions the operator granted. *)
THEOREM AttemptsBounded == Spec => []AttemptsWithinCeiling
<1>1. CardsKept(run) => AttemptsWithinCeiling
  BY DEF CardsKept, Within, AttemptsWithinCeiling
<1> QED
  BY <1>1, CardsInvariant, PTL

-----------------------------------------------------------------------------
(* An outcome of a worker or of a watch is recorded for the current card,  *)
(* behind all the others, and then settled.                                *)
Answered(q, outcome, reason, hasRecord, environmentBlocked) ==
    /\ run.stage \in Stages /\ run.stage # NoStage /\ run.current # NoInvocation
    /\ outcome \in Outcomes /\ reason \in Signatures
    /\ hasRecord \in BOOLEAN /\ environmentBlocked \in BOOLEAN
    /\ hasRecord = FALSE => outcome = "failure" /\ EvidenceStages # {}
    /\ hasRecord = TRUE => run.status = "running" /\ ~HasRecord(run, run.current)
    /\ interventions' = interventions
    /\ q = SettledSubmission(Recorded(run, outcome, reason, hasRecord), run.stage, outcome,
                             reason, environmentBlocked)

(* Every answer to a card is of this form. *)
LEMMA AnswersRecorded ==
    ASSUME RunInv, Worker \/ EvidenceWatch
    PROVE  \E outcome, reason, hasRecord, environmentBlocked :
              /\ Answered(run', outcome, reason, hasRecord, environmentBlocked)
              /\ Worker \/ hasRecord = FALSE
              /\ EvidenceWatch \/ hasRecord = TRUE
<1>0. Good(run) /\ Stored(run)
  BY DEF RunInv, Good
<1>1. CASE Worker
  <2>1. PICK outcome \in Outcomes :
            \E reason \in Reasons(outcome), environmentBlocked \in BOOLEAN :
                Submit(outcome, reason, environmentBlocked)
    BY <1>1 DEF Worker
  <2>2. PICK reason \in Reasons(outcome), environmentBlocked \in BOOLEAN :
            Submit(outcome, reason, environmentBlocked)
    BY <2>1
  <2>3. /\ run.stage \in Stages /\ run.stage # NoStage /\ run.current # NoInvocation
        /\ ~HasRecord(run, run.current) /\ run.status = "running"
    BY <1>0, <2>2, AtAStage DEF Submit, CanSubmit, Terminal
  <2>4. reason \in Signatures
    BY DEF Reasons, Signatures
  <2>5. /\ run' = SettledSubmission(Recorded(run, outcome, reason, TRUE), run.stage, outcome,
                                    reason, environmentBlocked)
        /\ interventions' = interventions
    BY <2>2 DEF Submit, ByTheRun, Persist
  <2>6. Answered(run', outcome, reason, TRUE, environmentBlocked)
    BY <2>3, <2>4, <2>5 DEF Answered
  <2> QED
    BY <1>1, <2>6
<1>2. CASE EvidenceWatch
  <2>1. PICK failing \in Signatures : EvidenceGateFailure(failing)
    BY <1>2 DEF EvidenceWatch
  <2>2. /\ run.stage \in Stages /\ run.current # NoInvocation /\ run.stage # NoStage
        /\ EvidenceStages # {}
    BY <1>0, <2>1 DEF EvidenceGateFailure, Stored, RunState
  <2>3. run' = FailedOutcome(Recorded(run, "failure", failing, FALSE), run.stage, failing)
        /\ interventions' = interventions
    BY <2>1 DEF EvidenceGateFailure, ByTheRun, Persist
  <2>4. run' = SettledSubmission(Recorded(run, "failure", failing, FALSE), run.stage,
                                 "failure", failing, FALSE)
    BY <2>3 DEF SettledSubmission
  <2>5. Answered(run', "failure", failing, FALSE, FALSE)
    BY <2>2, <2>3, <2>4 DEF Answered, Outcomes
  <2> QED
    BY <1>2, <2>5
<1> QED
  BY <1>1, <1>2

(* The record of an outcome, *)
Outcome(outcome, reason, hasRecord) ==
    [stage |-> run.stage, attempt |-> run.cards[run.current].attempt, id |-> run.current,
     outcome |-> outcome, reason |-> reason, hasRecord |-> hasRecord]

(* which is all that changes before the outcome is settled. *)
LEMMA RecordedAppends ==
    ASSUME RunInv, NEW q, NEW outcome, NEW reason, NEW hasRecord, NEW environmentBlocked,
           Answered(q, outcome, reason, hasRecord, environmentBlocked)
    PROVE  LET r == Recorded(run, outcome, reason, hasRecord)
               item == Outcome(outcome, reason, hasRecord)
           IN /\ Stored(r) /\ item \in HistoryItem
              /\ item.id = run.current /\ item.stage = run.stage
              /\ item.outcome = outcome /\ item.reason = reason /\ item.hasRecord = hasRecord
              /\ run.history \in Seq(HistoryItem) /\ r.history = Append(run.history, item)
              /\ r.cards = run.cards /\ r.current = run.current /\ r.stage = run.stage
              /\ r.status = run.status /\ r.pending = run.pending /\ r.pause = run.pause
              /\ r.gates = run.gates /\ r.ladder = run.ladder /\ r.trackers = run.trackers
              /\ Quiet(r, q)
<1> DEFINE r == Recorded(run, outcome, reason, hasRecord)
           item == Outcome(outcome, reason, hasRecord)
<1>0. /\ Good(run) /\ Stored(run) /\ run.stage \in Stages /\ run.current # NoInvocation
      /\ run.stage # NoStage /\ outcome \in Outcomes /\ reason \in Signatures
      /\ hasRecord \in BOOLEAN /\ environmentBlocked \in BOOLEAN
      /\ q = SettledSubmission(r, run.stage, outcome, reason, environmentBlocked)
  BY DEF RunInv, Good, Answered
<1>1. /\ run.history \in Seq(HistoryItem) /\ r.history = Append(run.history, item)
      /\ r.cards = run.cards /\ r.current = run.current /\ r.stage = run.stage
      /\ r.status = run.status /\ r.pending = run.pending /\ r.pause = run.pause
      /\ r.gates = run.gates /\ r.ladder = run.ladder /\ r.trackers = run.trackers
  BY <1>0 DEF Recorded, Outcome, Stored, RunState
<1>2. item \in HistoryItem
  <2>1. run.current \in 1 .. Len(run.cards) /\ run.cards \in Seq(Card) /\ run.current \in Nat
    BY <1>0 DEF Stored, RunState, NoInvocation
  <2>2. run.cards[run.current] \in Card
    BY <2>1
  <2>3. run.cards[run.current].attempt \in Nat
    BY <2>2 DEF Card
  <2> QED
    BY <1>0, <2>1, <2>3 DEF HistoryItem, Outcome
<1>3. Stored(r)
  BY <1>0, RecordedStored
<1>4. /\ item.id = run.current /\ item.stage = run.stage /\ item.outcome = outcome
      /\ item.reason = reason /\ item.hasRecord = hasRecord
  BY DEF Outcome
<1> HIDE DEF r, item
<1>5. Quiet(r, q)
  BY <1>0, <1>3, SettledSubmissionQuiet
<1> QED
  BY <1>1, <1>2, <1>3, <1>4, <1>5 DEF r, item

(* An answer appends one outcome of the current card. *)
LEMMA AnswerAppends ==
    ASSUME RunInv, NEW q, NEW outcome, NEW reason, NEW hasRecord, NEW environmentBlocked,
           Answered(q, outcome, reason, hasRecord, environmentBlocked)
    PROVE  LET item == Outcome(outcome, reason, hasRecord)
           IN /\ item \in HistoryItem /\ run.history \in Seq(HistoryItem)
              /\ item.id = run.current /\ item.outcome = outcome
              /\ item.hasRecord = hasRecord
              /\ q.history = Append(run.history, item)
              /\ q.cards = run.cards /\ q.current \in {run.current, NoInvocation}
              /\ q.pause \in {run.pause, NoPause}
BY RecordedAppends DEF Quiet

(* A card is issued behind all the others, and no outcome with it. *)
LEMMA IssueAppends ==
    ASSUME RunInv, PrepareInvocation
    PROVE  /\ run'.history = run.history /\ Len(run'.cards) = Len(run.cards) + 1
           /\ run'.current = Len(run.cards) + 1 /\ run'.status = "running"
           /\ run.pending.type = "prepare_invocation"
<1>1. /\ Stored(run) /\ run.stage \in Stages /\ WithinAttempts(run)
      /\ run.status = "running" /\ run.pending.type = "prepare_invocation"
  BY AtAStage DEF RunInv, Good, PrepareInvocation, ReadyToPrepare, Terminal
<1> DEFINE n == Numbered(run)
           a == Admitted(n)
<1>2. Stored(n) /\ n.stage = run.stage /\ Quiet(run, n) /\ n.status = run.status
  BY <1>1, NumberedStored, NumberedQuiet DEF Beside
<1> HIDE DEF n
<1>3. Stored(a) /\ Quiet(n, a) /\ a.status = n.status
  <2>1. Stored(a) /\ Quiet(n, a)
    BY <1>1, <1>2, AdmittedStored, AdmittedQuiet
  <2> QED
    BY <1>2, <2>1 DEF Admitted, Stored, RunState
<1> HIDE DEF a
<1>4. a.history = run.history /\ a.cards = run.cards
  BY <1>2, <1>3 DEF Quiet
<1>5. run' = CardIssued(a)
  BY DEF PrepareInvocation, ByTheRun, Persist, a, n
<1>6. /\ run'.history = a.history /\ run'.current = Len(a.cards) + 1
      /\ run'.status = a.status
      /\ run'.cards = Append(a.cards, [stage |-> a.stage, attempt |-> a.attempts[a.stage]])
  BY <1>3, <1>5 DEF CardIssued, Stored, RunState
<1>7. a.cards \in Seq(Card)
  BY <1>3 DEF Stored, RunState
<1>8. Len(run'.cards) = Len(a.cards) + 1
  BY <1>6, <1>7
<1> QED
  BY <1>1, <1>2, <1>3, <1>4, <1>6, <1>8

(* A pause keeps card and outcomes. *)
LEMMA PauseRunKeeps ==
    ASSUME RunInv, PauseRun
    PROVE  /\ run'.history = run.history /\ run'.cards = run.cards
           /\ run'.current = run.current /\ run.status \notin Terminal
BY DEF RunInv, Good, Stored, RunState, PauseRun, FromOutside, Persist, SavePause, Paused

-----------------------------------------------------------------------------
(* A saved pause belongs to a run at rest, or to one that a watch moved on *)
(* after the pause.                                                        *)
Ends(r) ==
    r.pause.saved =>
        /\ r.pause.since <= Len(r.history)
        /\ r.status \in AtRestStatuses \/ WatchReportedSince(r, r.pause.since)

(* Only a watch takes a run on with a pause saved. *)
LEMMA EndsInvariant == Spec => []Ends(run)
<1>1. Init => Ends(run)
  BY DEF Init, InitialRun, NoPause, Ends
<1>2. RunInv /\ CardsKept(run) /\ Ends(run) /\ [Next]_vars => Ends(run')
  <2> SUFFICES ASSUME RunInv, CardsKept(run), Ends(run), [Next]_vars PROVE Ends(run')
    OBVIOUS
  <2>1. CASE UNCHANGED vars
    BY <2>1 DEF vars
  <2>2. ASSUME run'.history = run.history, run'.pause \in {run.pause, NoPause},
               PauseEnds(run, run')
        PROVE  Ends(run')
    BY <2>2 DEF NoPause, Ends, PauseEnds, WatchReportedSince
  <2>3. CASE QuietCommand
    BY <2>2, <2>3 DEF QuietCommand, Quiet
  <2>4. CASE PrepareInvocation
    <3>1. run.status \notin AtRestStatuses
      BY <2>4 DEF PrepareInvocation, ReadyToPrepare, AtRestStatuses, Terminal
    <3> QED
      BY <2>2, <2>4, <3>1, IssueAppends, PrepareInvocationCards DEF PauseEnds
  <2>5. CASE Worker \/ EvidenceWatch
    <3>1. PICK outcome, reason, hasRecord, environmentBlocked :
              /\ Answered(run', outcome, reason, hasRecord, environmentBlocked)
              /\ Worker \/ hasRecord = FALSE
      BY <2>5, AnswersRecorded
    <3>2. PICK item \in HistoryItem : item = Outcome(outcome, reason, hasRecord)
      BY <3>1, AnswerAppends
    <3>3. /\ run'.history = Append(run.history, item) /\ item.hasRecord = hasRecord
          /\ run.history \in Seq(HistoryItem) /\ run'.pause \in {run.pause, NoPause}
      BY <3>1, <3>2, AnswerAppends
    <3>4. CASE ~run'.pause.saved
      BY <3>4 DEF Ends
    <3>5. CASE run'.pause.saved
      <4>1. run'.pause = run.pause
        BY <3>3, <3>5 DEF NoPause
      <4>2. /\ Len(run'.history) = Len(run.history) + 1 /\ Len(run.history) \in Nat
            /\ run'.history[Len(run.history) + 1] = item
            /\ \A i \in 1 .. Len(run.history) : run'.history[i] = run.history[i]
        BY <3>3
      <4>3. run.pause.since \in Nat
        BY DEF RunInv, Good, Stored, RunState, SavedPause
      <4>4. run.pause.since <= Len(run.history)
        BY <3>5, <4>1 DEF Ends
      <4>5. CASE WatchReportedSince(run, run.pause.since)
        <5>1. PICK i \in run.pause.since + 1 .. Len(run.history) : ~run.history[i].hasRecord
          BY <4>5 DEF WatchReportedSince
        <5>2. /\ i \in 1 .. Len(run.history)
              /\ i \in run'.pause.since + 1 .. Len(run'.history)
          BY <4>1, <4>2, <4>3, <5>1
        <5>3. ~run'.history[i].hasRecord
          BY <4>2, <5>1, <5>2
        <5>4. WatchReportedSince(run', run'.pause.since)
          BY <5>2, <5>3 DEF WatchReportedSince
        <5> QED
          BY <4>1, <4>2, <4>3, <4>4, <5>4 DEF Ends
      <4>6. CASE hasRecord = FALSE
        <5>1. Len(run.history) + 1 \in run'.pause.since + 1 .. Len(run'.history)
          BY <4>1, <4>2, <4>3, <4>4
        <5>2. ~run'.history[Len(run.history) + 1].hasRecord
          BY <3>3, <4>2, <4>6
        <5>3. WatchReportedSince(run', run'.pause.since)
          BY <5>1, <5>2 DEF WatchReportedSince
        <5> QED
          BY <4>1, <4>2, <4>3, <4>4, <5>3 DEF Ends
      <4>7. CASE hasRecord # FALSE
        <5>1. run.status = "running"
          BY <3>1, <4>7 DEF Answered
        <5>2. WatchReportedSince(run, run.pause.since)
          BY <3>5, <4>1, <5>1 DEF Ends, AtRestStatuses, Terminal
        <5> QED
          BY <4>5, <5>2
      <4> QED
        BY <4>6, <4>7
    <3> QED
      BY <3>4, <3>5
  <2>6. CASE PauseRun
    <3>1. Stored(run) /\ run' = Paused(SavePause(run))
      BY <2>6 DEF RunInv, Good, PauseRun, FromOutside, Persist
    <3>2. /\ run'.status = "paused" /\ run'.history = run.history
          /\ run'.pause = run.pause \/ run'.pause.since = Len(run.history)
      BY <3>1 DEF SavePause, Paused, Stored, RunState
    <3>3. Len(run.history) \in Nat
      BY <3>1 DEF Stored, RunState
    <3> QED
      BY <3>2, <3>3 DEF Ends, AtRestStatuses
  <2> QED
    BY <2>1, <2>3, <2>4, <2>5, <2>6, CommandsSplit
<1>3. Ends(run)' <=> Ends(run')
  BY DEF Ends, AtRestStatuses, WatchReportedSince
<1> QED
  BY <1>1, <1>2, <1>3, RunInvariant, CardsInvariant, PTL DEF Spec

(* A saved pause lives as long as the pause: no resume, redirect, waiver or *)
(* away-mode command lets a run go on with one left behind.  Where a run    *)
(* goes on with one, an evidence watch has reported since the pause.        *)
THEOREM PausesEnd == Spec => []PauseIsForgotten
<1>1. RunInv /\ Ends(run) => PauseIsForgotten
  BY DEF RunInv, Good, Stored, PauseIsForgotten, AtRestStatuses, Ends
<1> QED
  BY <1>1, EndsInvariant, RunInvariant, PTL

-----------------------------------------------------------------------------
(* A card of a gated stage goes out under a pass of its entry gate.  Most  *)
(* commands leave no card out at all, and the next card is prepared only   *)
(* when none is current; the others keep what the pass says.               *)
NoCardOut(r) ==
    /\ r.pending.type # "invoke_agent"
    /\ r.pending.type = "prepare_invocation" => r.current = NoInvocation

(* The run waits for somebody else, or its next card is not issued yet. *)
LEMMA StoppedNoCardOut ==
    ASSUME NEW r, Stored(r), NEW target, NEW outcome
    PROVE  /\ NoCardOut(Paused(r)) /\ NoCardOut(PausedForOperatorOnly(r))
           /\ NoCardOut(PauseForLimit(r)) /\ NoCardOut(Finished(r, target))
           /\ NoCardOut(Entered(r, target)) /\ NoCardOut(AwaitApproval(r, outcome))
           /\ NoCardOut(AwaitAssessment(r))
<1>1. r \in RunState
  BY DEF Stored
<1>2. NoCardOut(Paused(r)) /\ NoCardOut(PausedForOperatorOnly(r))
  BY <1>1 DEF RunState, NoCardOut, Paused, PausedForOperatorOnly, Pending
<1>3. NoCardOut(PauseForLimit(r))
  BY <1>1, <1>2 DEF RunState, NoCardOut, PauseForLimit, CandidateFailed, Pending
<1>4. NoCardOut(Finished(r, target))
  BY <1>1 DEF RunState, NoCardOut, Finished, Pending
<1>5. NoCardOut(Entered(r, target))
  BY <1>1 DEF RunState, NoCardOut, Entered, Pending
<1>6. NoCardOut(AwaitApproval(r, outcome)) /\ NoCardOut(AwaitAssessment(r))
  BY <1>1 DEF RunState, NoCardOut, AwaitApproval, AwaitAssessment, Pending
<1> QED
  BY <1>2, <1>3, <1>4, <1>5, <1>6

(* applyTransition issues no card, wherever it leads. *)
LEMMA ApplyTransitionNoCardOut ==
    ASSUME NEW r, Stored(r), NEW s \in Stages, NEW outcome \in Outcomes,
           NEW override \in Targets \cup {NoOverride}, NEW directed \in BOOLEAN
    PROVE  NoCardOut(ApplyTransition(r, s, outcome, override, directed))
<1> DEFINE counted == Counted(r, outcome, directed)
           target == NextTarget(counted, s, outcome, override)
           answered == AnswerRoute(counted, s, outcome, override)
<1>1. Stored(counted) /\ Stored(answered) /\ target \in Targets
  BY CountedStored, AnswerRouteStored, NextTargetTyped
<1>2. ApplyTransition(r, s, outcome, override, directed) =
        IF OverLimit(answered, directed) THEN PauseForLimit(answered)
                                         ELSE Moved(answered, s, target)
  BY DEF ApplyTransition
<1> HIDE DEF counted, target, answered
<1>3. Stored(Left(answered, s, target))
  BY <1>1, LeftStored
<1>4. NoCardOut(Moved(answered, s, target))
  BY <1>1, <1>3, StoppedNoCardOut DEF Moved
<1> QED
  BY <1>1, <1>2, <1>4, StoppedNoCardOut

(* Nor does an outcome, whatever gate, contract or ladder settles it. *)
LEMMA GatedNoCardOut ==
    ASSUME NEW r, Stored(r), NEW s \in Stages, NEW outcome \in Outcomes
    PROVE  NoCardOut(Gated(r, s, outcome)) /\ NoCardOut(Follow(r, s, outcome))
BY StoppedNoCardOut, ApplyTransitionNoCardOut DEF Gated, Follow

(* Every rung of the ladder leaves the stage. *)
LEMMA HorizonFailureNoCardOut ==
    ASSUME NEW r, Stored(r), NEW s \in Stages, NEW reason \in Signatures
    PROVE  NoCardOut(HorizonFailure(r, s, reason))
<1> DEFINE climbed == Climbed(r, reason)
<1>1. Stored(climbed)
  BY ClimbedStored
<1> HIDE DEF climbed
<1>2. \A target \in Targets : NoCardOut(ApplyTransition(climbed, s, "failure", target, FALSE))
  BY <1>1, ApplyTransitionNoCardOut DEF Outcomes
<1>3. s \in Targets /\ OnOutcome[s]["failure"] \in Targets
  BY DEF Targets, Outcomes
<1>4. NoCardOut([Paused(climbed) EXCEPT !.current = NoInvocation])
  BY <1>1 DEF Stored, RunState, NoCardOut, Paused, Pending
<1> QED
  BY <1>2, <1>3, <1>4 DEF HorizonFailure, climbed

(* A failed outcome repeats, repairs or stops; it issues nothing. *)
LEMMA FailedOutcomeNoCardOut ==
    ASSUME NEW r, Stored(r), NEW s \in Stages, NEW reason \in Signatures
    PROVE  NoCardOut(FailedOutcome(r, s, reason))
<1> DEFINE t == Tracked(r, s, reason)
<1>1. Stored(t)
  BY TrackedStored
<1> HIDE DEF t
<1>2. NoCardOut(PauseForLimit(t)) /\ NoCardOut(Gated(t, s, "failure"))
  BY <1>1, StoppedNoCardOut, GatedNoCardOut DEF Outcomes
<1>3. NoCardOut(Gated(r, s, "failure")) /\ NoCardOut(HorizonFailure(r, s, reason))
  BY GatedNoCardOut, HorizonFailureNoCardOut DEF Outcomes
<1> QED
  BY <1>2, <1>3 DEF FailedOutcome, t

(* A submission closes its card. *)
LEMMA SettledNoCardOut ==
    ASSUME NEW r, Stored(r), NEW s \in Stages, NEW outcome \in Outcomes,
           NEW reason \in Signatures, NEW environmentBlocked \in BOOLEAN
    PROVE  NoCardOut(SettledSubmission(r, s, outcome, reason, environmentBlocked))
<1> DEFINE c == ClearTracker(r, s)
<1>1. Stored(c)
  BY ClearTrackerStored
<1> HIDE DEF c
<1>2. NoCardOut(Gated(c, s, outcome))
  BY <1>1, GatedNoCardOut
<1> QED
  BY <1>2, StoppedNoCardOut, FailedOutcomeNoCardOut, GatedNoCardOut DEF SettledSubmission, c

(* A failed entry gate issues nothing. *)
LEMMA RefusedNoCardOut ==
    ASSUME NEW r, Stored(r), r.stage # NoStage, NEW s \in Stages
    PROVE  NoCardOut(RefusedByGate(r, s))
<1> DEFINE gate == EntryGateOf[s]
           routedTo == IF gate.route = "direct" THEN gate.repair ELSE NoStage
           failed == GateFailed(r, s, routedTo)
           stopped == GateFailed(r, s, NoStage)
           moved == ApplyTransition(failed, s, "failure", gate.repair, FALSE)
<1>1. gate.repair \in Targets /\ routedTo \in Stages \cup {NoStage}
  BY DEF EntryGate, Targets
<1>2. RefusedByGate(r, s) \in {PausedForOperatorOnly(stopped),
                               RouteClosedUnlessRunning(moved, s)}
  BY DEF RefusedByGate
<1> HIDE DEF routedTo
<1>3. Stored(failed) /\ Stored(stopped) /\ Pausable(failed)
  BY <1>1, GateFailedStored DEF Beside, Pausable
<1> HIDE DEF failed, stopped
<1>4. NoCardOut(PausedForOperatorOnly(stopped))
  BY <1>3, StoppedNoCardOut
<1>5. NoCardOut(moved) /\ Good(moved)
  BY <1>1, <1>3, ApplyTransitionNoCardOut, ApplyTransitionGood DEF Outcomes
<1> HIDE DEF moved
<1>6. NoCardOut(RouteClosedUnlessRunning(moved, s))
  BY <1>5 DEF Good, Stored, RunState, NoCardOut, RouteClosedUnlessRunning
<1> QED
  BY <1>2, <1>4, <1>6

(* The decisions at a gate issue nothing. *)
LEMMA DecisionNoCardOut ==
    ASSUME NEW r, Good(r), AwaitsDecision(r)
    PROVE  /\ NoCardOut(Approved(r)) /\ NoCardOut(Rejected(r))
           /\ NoCardOut(RevisedByOperator(r)) /\ NoCardOut(RevisedByAway(r))
           /\ \A target \in Stages : NoCardOut(RejectedTo(r, target))
<1>1. Stored(r) /\ r.stage \in Stages /\ r.pending.outcome \in Outcomes
  BY AtAStage DEF Good, Named, AwaitsDecision, Coherent, Terminal
<1>2. NoCardOut(Approved(r))
  BY <1>1, GatedNoCardOut DEF Approved
<1>3. NoCardOut(Rejected(r))
  <2>1. OnOutcome[r.stage]["failure"] \in Targets
    BY <1>1 DEF Outcomes
  <2> QED
    BY <1>1, <2>1, ApplyTransitionNoCardOut DEF Rejected, Outcomes
<1> DEFINE c == ClearTracker(r, r.stage)
           granted == [c EXCEPT !.revisions[r.stage] = @ + 1]
<1>4. Stored(c)
  BY <1>1, ClearTrackerStored
<1>5. NoCardOut(RevisedByAway(r))
  <2> HIDE DEF c
  <2>1. NoCardOut(ApplyTransition(c, r.stage, "failure", r.stage, FALSE))
    BY <1>1, <1>4, ApplyTransitionNoCardOut DEF Targets, Outcomes
  <2> QED
    BY <2>1 DEF RevisedByAway, c
<1>6. NoCardOut(RevisedByOperator(r))
  <2> HIDE DEF c
  <2> DEFINE revisions == [c.revisions EXCEPT ![r.stage] = c.revisions[r.stage] + 1]
  <2>1. c.revisions \in [Stages -> Nat]
    BY <1>4 DEF Stored, RunState
  <2>2. revisions \in [Stages -> Nat]
    BY <1>1, <2>1
  <2>3. granted = [c EXCEPT !.revisions = revisions]
    BY <1>4 DEF Stored, RunState
  <2> HIDE DEF granted, revisions
  <2>4. Stored(granted)
    BY <1>4, <2>2, <2>3 DEF Stored, RunState
  <2>5. NoCardOut(ApplyTransition(granted, r.stage, "failure", r.stage, TRUE))
    BY <1>1, <2>4, ApplyTransitionNoCardOut DEF Targets, Outcomes
  <2> QED
    BY <2>5 DEF RevisedByOperator, granted, c
<1>7. ASSUME NEW target \in Stages PROVE NoCardOut(RejectedTo(r, target))
  <2>1. Stored(ResetAttemptsFrom(r, target))
    BY <1>1, ResetAttemptsStored
  <2> QED
    BY <1>1, <2>1, ApplyTransitionNoCardOut DEF RejectedTo, Targets, Outcomes
<1> QED
  BY <1>2, <1>3, <1>5, <1>6, <1>7

(* The redirects of an operator enter a stage anew. *)
LEMMA RedirectNoCardOut ==
    ASSUME NEW r, Good(r), NEW target \in Stages, NEW edited \in BOOLEAN,
           NEW clearRoutes \in BOOLEAN
    PROVE  /\ r.status = "paused" => NoCardOut(ResumedAt(r, target, edited, clearRoutes))
           /\ NoCardOut(StageSet(r, target))
           /\ NoCardOut(Canceled(r))
<1>1. Stored(r)
  BY DEF Good
<1>2. ASSUME r.status = "paused"
      PROVE  NoCardOut(ResumedAt(r, target, edited, clearRoutes))
  <2> DEFINE ratified == IF edited /\ r.pause.saved THEN Invalidated(r) ELSE r
             cleared == IF clearRoutes THEN ClearEntryGateRoutes(ratified) ELSE ratified
  <2>1. Stored(ratified)
    BY <1>2, InvalidatedGood DEF Good, Pausable
  <2> HIDE DEF ratified
  <2>2. Stored(cleared)
    BY <2>1, ClearEntryGateRoutesStored
  <2> HIDE DEF cleared
  <2>3. NoCardOut([Entered(cleared, target) EXCEPT !.pause = NoPause, !.failures = 0])
    BY <2>2 DEF Stored, RunState, NoCardOut, Entered, Pending
  <2> QED
    BY <2>3 DEF ResumedAt, cleared, ratified
<1>3. NoCardOut(StageSet(r, target))
  <2> DEFINE fresh == ClearEntryGateRoutes(ResetAttemptsFrom(r, target))
             q == Entered(fresh, target)
  <2>1. Stored(fresh)
    BY <1>1, ResetAttemptsStored, ClearEntryGateRoutesStored
  <2> HIDE DEF fresh
  <2>2. q \in RunState /\ NoCardOut(q)
    BY <2>1, EnteredGood, StoppedNoCardOut DEF Good, Stored
  <2> HIDE DEF q
  <2>3. NoCardOut([q EXCEPT !.trackers = [s \in Stages |-> NoTracker], !.pause = NoPause,
                            !.transitions = 0, !.failures = 0])
    BY <2>2 DEF RunState, NoCardOut
  <2> QED
    BY <2>3 DEF StageSet, q, fresh
<1>4. NoCardOut(Canceled(r))
  <2>1. NoCardOut(Finished(r, "canceled")) /\ Finished(r, "canceled") \in RunState
    BY <1>1, StoppedNoCardOut, FinishedGood DEF Good, Stored, TerminalTargets
  <2> QED
    BY <2>1 DEF Canceled, RunState, NoCardOut
<1> QED
  BY <1>2, <1>3, <1>4

(* What GateAnswered reads.                                                *)
SameGate(r, q) ==
    q.stage = r.stage /\ q.gates = r.gates /\ q.history = r.history

(* It is about nothing else. *)
LEMMA SameGateAnswered ==
    ASSUME NEW r, NEW q, SameGate(r, q), GateAnswered(r) PROVE GateAnswered(q)
BY DEF SameGate, GateAnswered, CurrentPass

(* What is admitted has an answered gate. *)
LEMMA AdmittedAnswered ==
    ASSUME NEW r, Stored(r), r.stage \in Stages PROVE GateAnswered(Admitted(r))
<1>1. CASE GateAnswered(r)
  BY <1>1 DEF Admitted
<1>2. CASE ~GateAnswered(r)
  <2> DEFINE q == Admitted(r)
  <2>1. /\ q.gates[r.stage].result = "passed" /\ q.gates[r.stage].passedAt = Len(r.history)
        /\ q.history = r.history /\ q.stage = r.stage
    BY <1>2 DEF Admitted, NoGateRecord, Stored, RunState
  <2>2. Len(r.history) \in Nat
    BY DEF Stored, RunState
  <2> HIDE DEF q
  <2>3. CurrentPass(q, q.stage)
    BY <2>1, <2>2 DEF CurrentPass
  <2> QED
    BY <2>3 DEF GateAnswered, q
<1> QED
  BY <1>1, <1>2

(* A step keeps the gate of its card: where it keeps the card at a stage,  *)
(* it keeps the stage and what the pass of its gate says.                  *)
KeepsGate(r, q) ==
    q.current # NoInvocation /\ q.stage # NoStage =>
        /\ r.current # NoInvocation /\ q.stage = r.stage /\ q.history = r.history
        /\ q.gates[q.stage].result = r.gates[q.stage].result
        /\ q.gates[q.stage].passedAt = r.gates[q.stage].passedAt

(* Such steps compose. *)
LEMMA KeepsGateThen ==
    ASSUME NEW r, NEW q, NEW t, KeepsGate(r, q), KeepsGate(q, t) PROVE KeepsGate(r, t)
BY DEF KeepsGate

(* The steps that leave the gates alone, *)
LEMMA SimpleKeepsGate ==
    ASSUME NEW r, Stored(r), NEW s \in Stages, NEW target, NEW outcome, NEW directed,
           NEW reason
    PROVE  /\ KeepsGate(r, Paused(r)) /\ KeepsGate(r, PauseForLimit(r))
           /\ KeepsGate(r, Finished(r, target)) /\ KeepsGate(r, Entered(r, target))
           /\ KeepsGate(r, AwaitApproval(r, outcome)) /\ KeepsGate(r, AwaitAssessment(r))
           /\ KeepsGate(r, ClearTracker(r, s)) /\ KeepsGate(r, Tracked(r, s, reason))
           /\ KeepsGate(r, Counted(r, outcome, directed)) /\ KeepsGate(r, Climbed(r, reason))
<1>1. r \in RunState
  BY DEF Stored
<1>2. KeepsGate(r, Paused(r)) /\ KeepsGate(r, CandidateFailed(r))
  BY <1>1 DEF RunState, KeepsGate, Paused, CandidateFailed
<1>3. KeepsGate(r, PauseForLimit(r))
  BY <1>2 DEF PauseForLimit
<1>4. KeepsGate(r, Finished(r, target)) /\ KeepsGate(r, Entered(r, target))
  BY <1>1 DEF RunState, KeepsGate, Finished, Entered
<1>5. KeepsGate(r, AwaitApproval(r, outcome)) /\ KeepsGate(r, AwaitAssessment(r))
  BY <1>1 DEF RunState, KeepsGate, AwaitApproval, AwaitAssessment
<1>6. KeepsGate(r, ClearTracker(r, s)) /\ KeepsGate(r, Tracked(r, s, reason))
  BY <1>1 DEF RunState, KeepsGate, ClearTracker, Tracked
<1>7. KeepsGate(r, Counted(r, outcome, directed)) /\ KeepsGate(r, Climbed(r, reason))
  BY <1>1 DEF RunState, KeepsGate, Counted, Climbed
<1> QED
  BY <1>2, <1>3, <1>4, <1>5, <1>6, <1>7

(* and the one that answers a route, which is no part of a pass. *)
LEMMA AnswerRouteKeepsGate ==
    ASSUME NEW r, Stored(r), NEW s, NEW outcome, NEW override
    PROVE  KeepsGate(r, AnswerRoute(r, s, outcome, override))
<1> DEFINE q == AnswerRoute(r, s, outcome, override)
<1>1. r.gates \in [Stages -> GateRecord] /\ r.stage \in Stages \cup {NoStage}
  BY DEF Stored, RunState
<1>2. q = r \/ q = [r EXCEPT !.gates[GateThatRouted(r, s)].routedTo = NoStage]
  BY DEF AnswerRoute
<1>3. /\ q.current = r.current /\ q.stage = r.stage /\ q.history = r.history
      /\ q.gates = r.gates
         \/ q.gates = [r.gates EXCEPT ![GateThatRouted(r, s)].routedTo = NoStage]
  BY <1>2 DEF Stored, RunState
<1> HIDE DEF q
<1>4. ASSUME NEW g \in Stages
      PROVE  q.gates[g].result = r.gates[g].result /\ q.gates[g].passedAt = r.gates[g].passedAt
  <2>1. PICK h : h = GateThatRouted(r, s)
    OBVIOUS
  <2>2. PICK kept : kept = [r.gates[g] EXCEPT !.routedTo = NoStage]
    OBVIOUS
  <2>3. r.gates[g] \in GateRecord
    BY <1>1
  <2>4. kept.result = r.gates[g].result /\ kept.passedAt = r.gates[g].passedAt
    BY <2>2, <2>3 DEF GateRecord
  <2>5. q.gates[g] \in {r.gates[g], kept}
    BY <1>1, <1>3, <2>1, <2>2
  <2> QED
    BY <2>4, <2>5
<1> QED
  BY <1>1, <1>3, <1>4 DEF KeepsGate, q

(* applyTransition keeps the card only where a limit or a target pauses. *)
LEMMA ApplyTransitionKeepsGate ==
    ASSUME NEW r, Stored(r), NEW s \in Stages, NEW outcome \in Outcomes,
           NEW override \in Targets \cup {NoOverride}, NEW directed \in BOOLEAN
    PROVE  KeepsGate(r, ApplyTransition(r, s, outcome, override, directed))
<1> DEFINE counted == Counted(r, outcome, directed)
           target == NextTarget(counted, s, outcome, override)
           answered == AnswerRoute(counted, s, outcome, override)
<1>1. Stored(counted) /\ Stored(answered) /\ target \in Targets
  BY CountedStored, AnswerRouteStored, NextTargetTyped
<1>2. KeepsGate(r, counted)
  BY SimpleKeepsGate
<1>3. KeepsGate(counted, answered)
  BY <1>1, AnswerRouteKeepsGate
<1>4. KeepsGate(r, answered)
  BY <1>2, <1>3, KeepsGateThen
<1>5. ApplyTransition(r, s, outcome, override, directed) =
        IF OverLimit(answered, directed) THEN PauseForLimit(answered)
                                         ELSE Moved(answered, s, target)
  BY DEF ApplyTransition
<1> HIDE DEF counted, target, answered
<1>6. KeepsGate(answered, PauseForLimit(answered))
  BY <1>1, SimpleKeepsGate
<1>7. KeepsGate(answered, Moved(answered, s, target))
  <2>1. Entered(Left(answered, s, target), target).current = NoInvocation
    <3>1. Stored(Left(answered, s, target))
      BY <1>1, LeftStored
    <3> QED
      BY <3>1 DEF Entered, Stored, RunState
  <2>2. KeepsGate(answered, Entered(Left(answered, s, target), target))
    BY <2>1 DEF KeepsGate
  <2> QED
    BY <1>1, <2>2, SimpleKeepsGate DEF Moved
<1> QED
  BY <1>4, <1>5, <1>6, <1>7, KeepsGateThen

(* The outcome of a stage, *)
LEMMA GatedKeepsGate ==
    ASSUME NEW r, Stored(r), NEW s \in Stages, NEW outcome \in Outcomes
    PROVE  KeepsGate(r, Gated(r, s, outcome)) /\ KeepsGate(r, Follow(r, s, outcome))
BY SimpleKeepsGate, ApplyTransitionKeepsGate DEF Gated, Follow

(* a rung of the ladder, *)
LEMMA HorizonFailureKeepsGate ==
    ASSUME NEW r, Stored(r), NEW s \in Stages, NEW reason \in Signatures
    PROVE  KeepsGate(r, HorizonFailure(r, s, reason))
<1> DEFINE climbed == Climbed(r, reason)
<1>1. Stored(climbed) /\ KeepsGate(r, climbed)
  BY ClimbedStored, SimpleKeepsGate
<1> HIDE DEF climbed
<1>2. \A target \in Targets :
          KeepsGate(climbed, ApplyTransition(climbed, s, "failure", target, FALSE))
  BY <1>1, ApplyTransitionKeepsGate DEF Outcomes
<1>3. s \in Targets /\ OnOutcome[s]["failure"] \in Targets
  BY DEF Targets, Outcomes
<1>4. KeepsGate(climbed, [Paused(climbed) EXCEPT !.current = NoInvocation])
  BY <1>1 DEF Stored, RunState, KeepsGate, Paused
<1>5. \A q : KeepsGate(climbed, q) => KeepsGate(r, q)
  BY <1>1, KeepsGateThen
<1> QED
  BY <1>2, <1>3, <1>4, <1>5 DEF HorizonFailure, climbed

(* a failed outcome *)
LEMMA FailedOutcomeKeepsGate ==
    ASSUME NEW r, Stored(r), NEW s \in Stages, NEW reason \in Signatures
    PROVE  KeepsGate(r, FailedOutcome(r, s, reason))
<1> DEFINE t == Tracked(r, s, reason)
<1>1. Stored(t) /\ KeepsGate(r, t)
  BY TrackedStored, SimpleKeepsGate
<1> HIDE DEF t
<1>2. KeepsGate(t, PauseForLimit(t)) /\ KeepsGate(t, Gated(t, s, "failure"))
  BY <1>1, SimpleKeepsGate, GatedKeepsGate DEF Outcomes
<1>3. KeepsGate(r, PauseForLimit(t)) /\ KeepsGate(r, Gated(t, s, "failure"))
  BY <1>1, <1>2, KeepsGateThen
<1>4. KeepsGate(r, Gated(r, s, "failure")) /\ KeepsGate(r, HorizonFailure(r, s, reason))
  BY GatedKeepsGate, HorizonFailureKeepsGate DEF Outcomes
<1> QED
  BY <1>3, <1>4 DEF FailedOutcome, t

(* and a submission keep it. *)
LEMMA SettledKeepsGate ==
    ASSUME NEW r, Stored(r), NEW s \in Stages, NEW outcome \in Outcomes,
           NEW reason \in Signatures, NEW environmentBlocked \in BOOLEAN
    PROVE  KeepsGate(r, SettledSubmission(r, s, outcome, reason, environmentBlocked))
<1> DEFINE c == ClearTracker(r, s)
<1>1. Stored(c) /\ KeepsGate(r, c)
  BY ClearTrackerStored, SimpleKeepsGate
<1> HIDE DEF c
<1>2. KeepsGate(r, Gated(c, s, outcome))
  BY <1>1, GatedKeepsGate, KeepsGateThen
<1> QED
  BY <1>2, SimpleKeepsGate, FailedOutcomeKeepsGate, GatedKeepsGate DEF SettledSubmission, c

(* So do the decisions at a gate. *)
LEMMA DecisionKeepsGate ==
    ASSUME NEW r, Good(r), AwaitsDecision(r)
    PROVE  /\ KeepsGate(r, Approved(r)) /\ KeepsGate(r, Rejected(r))
           /\ KeepsGate(r, RevisedByOperator(r)) /\ KeepsGate(r, RevisedByAway(r))
           /\ \A target \in Stages : KeepsGate(r, RejectedTo(r, target))
<1>1. Stored(r) /\ r.stage \in Stages /\ r.pending.outcome \in Outcomes
  BY AtAStage DEF Good, Named, AwaitsDecision, Coherent, Terminal
<1>2. KeepsGate(r, Approved(r))
  BY <1>1, GatedKeepsGate DEF Approved
<1>3. KeepsGate(r, Rejected(r))
  <2>1. OnOutcome[r.stage]["failure"] \in Targets
    BY <1>1 DEF Outcomes
  <2> QED
    BY <1>1, <2>1, ApplyTransitionKeepsGate DEF Rejected, Outcomes
<1> DEFINE c == ClearTracker(r, r.stage)
           granted == [c EXCEPT !.revisions[r.stage] = @ + 1]
<1>4. Stored(c) /\ KeepsGate(r, c)
  BY <1>1, ClearTrackerStored, SimpleKeepsGate
<1>5. KeepsGate(r, RevisedByAway(r))
  <2> HIDE DEF c
  <2>1. KeepsGate(c, ApplyTransition(c, r.stage, "failure", r.stage, FALSE))
    BY <1>1, <1>4, ApplyTransitionKeepsGate DEF Targets, Outcomes
  <2> QED
    BY <1>4, <2>1, KeepsGateThen DEF RevisedByAway, c
<1>6. KeepsGate(r, RevisedByOperator(r))
  <2> HIDE DEF c
  <2> DEFINE revisions == [c.revisions EXCEPT ![r.stage] = c.revisions[r.stage] + 1]
  <2>1. c.revisions \in [Stages -> Nat]
    BY <1>4 DEF Stored, RunState
  <2>2. revisions \in [Stages -> Nat]
    BY <1>1, <2>1
  <2>3. granted = [c EXCEPT !.revisions = revisions]
    BY <1>4 DEF Stored, RunState
  <2> HIDE DEF granted, revisions
  <2>4. Stored(granted) /\ KeepsGate(c, granted)
    BY <1>4, <2>2, <2>3 DEF Stored, RunState, KeepsGate
  <2>5. KeepsGate(granted, ApplyTransition(granted, r.stage, "failure", r.stage, TRUE))
    BY <1>1, <2>4, ApplyTransitionKeepsGate DEF Targets, Outcomes
  <2> QED
    BY <1>4, <2>4, <2>5, KeepsGateThen DEF RevisedByOperator, granted, c
<1>7. ASSUME NEW target \in Stages PROVE KeepsGate(r, RejectedTo(r, target))
  <2> DEFINE q == ResetAttemptsFrom(r, target)
  <2>1. Stored(q) /\ KeepsGate(r, q)
    BY <1>1, ResetAttemptsStored DEF ResetAttemptsFrom, KeepsGate, Stored, RunState
  <2> HIDE DEF q
  <2>2. KeepsGate(q, ApplyTransition(q, r.stage, "failure", target, TRUE))
    BY <1>1, <2>1, ApplyTransitionKeepsGate DEF Targets, Outcomes
  <2> QED
    BY <2>1, <2>2, KeepsGateThen DEF RejectedTo, q
<1> QED
  BY <1>2, <1>3, <1>5, <1>6, <1>7

(* The redirects drop the card. *)
LEMMA RedirectDropsCard ==
    ASSUME NEW r, Good(r), NEW target \in Stages, NEW edited \in BOOLEAN,
           NEW clearRoutes \in BOOLEAN
    PROVE  /\ r.status = "paused"
                 => ResumedAt(r, target, edited, clearRoutes).current = NoInvocation
           /\ StageSet(r, target).current = NoInvocation
           /\ Canceled(r).current = NoInvocation
<1>1. Stored(r)
  BY DEF Good
<1>2. ASSUME r.status = "paused"
      PROVE  ResumedAt(r, target, edited, clearRoutes).current = NoInvocation
  <2> DEFINE ratified == IF edited /\ r.pause.saved THEN Invalidated(r) ELSE r
             cleared == IF clearRoutes THEN ClearEntryGateRoutes(ratified) ELSE ratified
             q == Entered(cleared, target)
  <2>1. Stored(ratified)
    BY <1>2, InvalidatedGood DEF Good, Pausable
  <2> HIDE DEF ratified
  <2>2. Stored(cleared)
    BY <2>1, ClearEntryGateRoutesStored
  <2> HIDE DEF cleared
  <2>3. q \in RunState /\ q.current = NoInvocation
    BY <2>2, EnteredGood DEF Good, Stored, Entered, RunState
  <2> HIDE DEF q
  <2>4. [q EXCEPT !.pause = NoPause, !.failures = 0].current = NoInvocation
    BY <2>3 DEF RunState
  <2> QED
    BY <2>4 DEF ResumedAt, q, cleared, ratified
<1>3. StageSet(r, target).current = NoInvocation
  <2> DEFINE fresh == ClearEntryGateRoutes(ResetAttemptsFrom(r, target))
             q == Entered(fresh, target)
  <2>1. Stored(fresh)
    BY <1>1, ResetAttemptsStored, ClearEntryGateRoutesStored
  <2> HIDE DEF fresh
  <2>2. q \in RunState /\ q.current = NoInvocation
    BY <2>1, EnteredGood DEF Good, Stored, Entered, RunState
  <2> HIDE DEF q
  <2> QED
    BY <2>2 DEF StageSet, RunState, q, fresh
<1>4. Canceled(r).current = NoInvocation
  <2>1. Finished(r, "canceled") \in RunState
    BY <1>1, FinishedGood DEF Good, Stored, TerminalTargets
  <2> QED
    BY <2>1 DEF Canceled, RunState
<1> QED
  BY <1>2, <1>3, <1>4

(* A waiver keeps the card of the stage it waives, or drops it. *)
LEMMA GateWaivedKeeps ==
    ASSUME NEW r, Good(r), NEW s \in Stages, NEW target \in Targets,
           NEW coversGate \in BOOLEAN
    PROVE  LET q == GateWaived(r, s, target, coversGate) IN
           /\ KeepsGate(r, q)
           /\ q.current = NoInvocation \/ q.pending.type = "invoke_agent"
           /\ r.pending.type # "invoke_agent" => q.current = NoInvocation
<1> DEFINE c == ClearTracker(r, s)
           waived == [c.waived EXCEPT ![s] = c.waived[s] \/ coversGate]
           directed == [c EXCEPT !.waived[s] = @ \/ coversGate, !.status = "running",
                                 !.pause = NoPause, !.failures = 0]
           bare == [directed EXCEPT !.current = NoInvocation]
           q == GateWaived(r, s, target, coversGate)
<1>2. Stored(c) /\ c.pending = r.pending /\ KeepsGate(r, c)
  BY ClearTrackerStored, SimpleKeepsGate DEF ClearTracker, Good, Stored, RunState
<1> HIDE DEF c
<1>3. waived \in [Stages -> BOOLEAN]
  <2>1. c.waived \in [Stages -> BOOLEAN]
    BY <1>2 DEF Stored, RunState
  <2> QED
    BY <2>1
<1>4. directed = [c EXCEPT !.waived = waived, !.status = "running",
                           !.pause = NoPause, !.failures = 0]
  BY <1>2 DEF Stored, RunState
<1> HIDE DEF waived, directed
<1>5. NoPause \in SavedPause /\ ~NoPause.saved
  BY PendingTyped DEF NoPause, SavedPause, Statuses, PendingTypes
<1>6. /\ directed \in RunState /\ directed.pause = NoPause
      /\ KeepsGate(c, directed) /\ directed.pending = c.pending
  BY <1>2, <1>3, <1>4, <1>5 DEF Stored, RunState, Statuses, KeepsGate
<1>7. bare \in RunState /\ bare.current = 0 /\ bare.pause = NoPause /\ bare.cards \in Seq(Card)
  BY <1>6 DEF RunState, NoInvocation
<1>8. Stored(bare)
  BY <1>5, <1>7 DEF Stored
<1>9. \/ q = directed /\ r.pending.type = "invoke_agent"
      \/ q = ApplyTransition(bare, s, "success", target, TRUE)
  BY DEF GateWaived, HoldsInvocation, directed, bare, c
<1> HIDE DEF bare
<1>10. ApplyTransition(bare, s, "success", target, TRUE).current = NoInvocation
  <2>1. Quiet(bare, ApplyTransition(bare, s, "success", target, TRUE))
    BY <1>8, ApplyTransitionQuiet DEF Outcomes
  <2> QED
    BY <1>7, <2>1 DEF Quiet, NoInvocation
<1> HIDE DEF q
<1>11. KeepsGate(r, q)
  BY <1>2, <1>6, <1>9, <1>10, KeepsGateThen DEF KeepsGate
<1> QED
  BY <1>2, <1>6, <1>9, <1>10, <1>11 DEF q

(* The current card is the newest; none is current while the next is to be *)
(* prepared, also when a resume goes back to that; and a card that a        *)
(* worker or a watch may still answer is covered by a pass of its gate.    *)
CardFits(r) ==
    /\ r.current # NoInvocation => r.current = Len(r.cards)
    /\ r.pending.type = "prepare_invocation" => r.current = NoInvocation
    /\ r.pause.saved /\ r.pause.pending.type = "prepare_invocation" =>
           r.current = NoInvocation /\ r.status \in AtRestStatuses
    /\ r.current # NoInvocation /\ r.stage # NoStage => GateAnswered(r)

(* A step that keeps card and gate keeps all of it. *)
LEMMA QuietFits ==
    ASSUME NEW r, NEW q, CardFits(r), Quiet(r, q), KeepsGate(r, q),
           PauseEnds(r, q) \/ r.current # NoInvocation,
           q.pending.type = "prepare_invocation" => q.current = NoInvocation
    PROVE  CardFits(q)
<1>1. q.current # NoInvocation => q.current = Len(q.cards)
  BY DEF CardFits, Quiet
<1>2. ASSUME q.pause.saved, q.pause.pending.type = "prepare_invocation"
      PROVE  q.current = NoInvocation /\ q.status \in AtRestStatuses
  BY <1>2 DEF CardFits, Quiet, NoPause, PauseEnds
<1>3. ASSUME q.current # NoInvocation, q.stage # NoStage PROVE GateAnswered(q)
  <2>1. /\ q.stage = r.stage /\ q.history = r.history /\ GateAnswered(r)
        /\ q.gates[q.stage].result = r.gates[q.stage].result
        /\ q.gates[q.stage].passedAt = r.gates[q.stage].passedAt
    BY <1>3 DEF CardFits, KeepsGate
  <2> QED
    BY <2>1 DEF GateAnswered, CurrentPass
<1> QED
  BY <1>1, <1>2, <1>3 DEF CardFits

(* A step without a card has nothing to cover. *)
LEMMA DroppedFits ==
    ASSUME CardFits(run), QuietCommand, run'.current = NoInvocation PROVE CardFits(run')
BY QuietFits DEF QuietCommand, KeepsGate

(* prepareInvocation: a card goes out admitted, or none does. *)
LEMMA PrepareFits ==
    ASSUME RunInv, CardsKept(run), CardFits(run), Prepare PROVE CardFits(run')
<1>1. /\ Stored(run) /\ run.status = "running" /\ run.status \notin AtRestStatuses
      /\ run.stage \in Stages /\ run.stage # NoStage /\ run.current = NoInvocation
  BY AtAStage DEF RunInv, Good, Prepare, PrepareExhausted, PrepareInterrupted, AtRestStatuses,
     PrepareGateFailed, PrepareProfilesFailed, PrepareInvocation, ReadyToPrepare, Terminal,
     CardFits
<1>2. CASE PrepareInvocation
  <2> DEFINE n == Numbered(run)
             a == Admitted(n)
  <2>1. Stored(n) /\ n.stage = run.stage
    BY <1>1, NumberedStored DEF Beside
  <2> HIDE DEF n
  <2>2. Stored(a) /\ a.stage = run.stage /\ GateAnswered(a)
    BY <1>1, <2>1, AdmittedStored, AdmittedAnswered DEF Beside
  <2> HIDE DEF a
  <2>3. run' = CardIssued(a)
    BY <1>2 DEF PrepareInvocation, ByTheRun, Persist, a, n
  <2>4. SameGate(a, run') /\ run'.pending.type = "invoke_agent"
    BY <2>2, <2>3 DEF CardIssued, Pending, Stored, RunState, SameGate
  <2>5. run'.pause \in {run.pause, NoPause}
    BY <1>2, PrepareInvocationCards
  <2>6. ~(run'.pause.saved /\ run'.pause.pending.type = "prepare_invocation")
    BY <1>1, <2>5 DEF CardFits, NoPause
  <2>7. run'.current = Len(run'.cards)
    BY <1>2, IssueAppends
  <2> QED
    BY <2>2, <2>4, <2>6, <2>7, SameGateAnswered DEF CardFits
<1>3. CASE ~PrepareInvocation
  <2>1. QuietCommand
    BY <1>3, PrepareQuiet DEF Prepare
  <2> QED
    BY <1>1, <2>1, DroppedFits DEF QuietCommand, Quiet
<1> QED
  BY <1>2, <1>3

(* An outcome is one more of the visit its card belongs to. *)
LEMMA AnswerFits ==
    ASSUME RunInv, CardFits(run), Worker \/ EvidenceWatch PROVE CardFits(run')
<1>1. PICK outcome, reason, hasRecord, environmentBlocked :
          Answered(run', outcome, reason, hasRecord, environmentBlocked)
  BY AnswersRecorded
<1> DEFINE r == Recorded(run, outcome, reason, hasRecord)
<1>2. PICK item \in HistoryItem : item = Outcome(outcome, reason, hasRecord)
  BY <1>1, RecordedAppends
<1>3. /\ Stored(r) /\ item.stage = run.stage
      /\ run.history \in Seq(HistoryItem) /\ r.history = Append(run.history, item)
      /\ r.cards = run.cards /\ r.current = run.current /\ r.stage = run.stage
      /\ r.status = run.status /\ r.pending = run.pending /\ r.pause = run.pause
      /\ r.gates = run.gates /\ Quiet(r, run')
  BY <1>1, <1>2, RecordedAppends
<1>4. /\ run.stage \in Stages /\ run.current # NoInvocation /\ run.stage # NoStage
      /\ outcome \in Outcomes /\ reason \in Signatures /\ environmentBlocked \in BOOLEAN
      /\ run' = SettledSubmission(r, run.stage, outcome, reason, environmentBlocked)
  BY <1>1 DEF Answered
<1> HIDE DEF r
<1>5. GateAnswered(r)
  <2>1. GateAnswered(run)
    BY <1>4 DEF CardFits
  <2>2. CASE ~HasEntryGate(run.stage)
    BY <1>3, <2>2 DEF GateAnswered
  <2>3. CASE CurrentPass(run, run.stage)
    <3>1. /\ Len(r.history) = Len(run.history) + 1 /\ Len(run.history) \in Nat
          /\ r.history[Len(run.history) + 1] = item
          /\ \A i \in 1 .. Len(run.history) : r.history[i] = run.history[i]
      BY <1>3
    <3>2. run.gates[run.stage].passedAt \in Nat
      BY <1>4 DEF RunInv, Good, Stored, RunState, GateRecord
    <3>3. CurrentPass(r, r.stage)
      BY <1>3, <2>3, <3>1, <3>2 DEF CurrentPass
    <3> QED
      BY <3>3 DEF GateAnswered
  <2> QED
    BY <2>1, <2>2, <2>3 DEF GateAnswered
<1>6. CardFits(r)
  BY <1>3, <1>5 DEF CardFits
<1>7. KeepsGate(r, run') /\ NoCardOut(run')
  BY <1>3, <1>4, SettledKeepsGate, SettledNoCardOut
<1> QED
  BY <1>3, <1>4, <1>6, <1>7, QuietFits DEF NoCardOut

(* An assessment. *)
LEMMA SupervisorFits ==
    ASSUME RunInv, CardFits(run), Supervisor PROVE CardFits(run')
<1>1. PICK verdict \in {"pass", "fail", "escalate"} : Assess(verdict)
  BY DEF Supervisor
<1>2. Stored(run) /\ run.stage \in Stages
  BY <1>1, AtAStage DEF Assess, Terminal, RunInv, Good
<1>3. /\ NoCardOut(Paused(run)) /\ KeepsGate(run, Paused(run))
      /\ \A outcome \in Outcomes : /\ NoCardOut(Follow(run, run.stage, outcome))
                                    /\ KeepsGate(run, Follow(run, run.stage, outcome))
  BY <1>2, StoppedNoCardOut, GatedNoCardOut, SimpleKeepsGate, GatedKeepsGate
<1>4. (IF verdict = "pass" THEN "success" ELSE "failure") \in Outcomes
  BY DEF Outcomes
<1>5. NoCardOut(run') /\ KeepsGate(run, run')
  BY <1>1, <1>3, <1>4 DEF Assess, ByTheRun, Persist
<1> QED
  BY <1>5, SupervisorQuiet, QuietFits DEF QuietCommand, NoCardOut

(* A resume in place restores the card of the pause or discards it. *)
LEMMA ResumedInPlaceFits ==
    ASSUME NEW r, Good(r), CardFits(r), r.status = "paused", r.pause.saved,
           NEW discardCard \in BOOLEAN
    PROVE  CardFits(ResumedInPlace(r, discardCard))
<1> DEFINE q == ResumedInPlace(r, discardCard)
<1>1. Quiet(r, q) /\ ~q.pause.saved
  BY ResumedInPlaceForgets DEF Forgets
<1>2. CASE discardCard
  <2>1. Invalidated(r) \in RunState
    BY InvalidatedGood DEF Good, Stored, Pausable
  <2>2. Invalidated(r).current = NoInvocation
    BY DEF Invalidated, Good, Stored, RunState
  <2>3. q.current = NoInvocation
    BY <1>2, <2>1, <2>2 DEF ResumedInPlace, RunState
  <2> HIDE DEF q
  <2> QED
    BY <1>1, <2>3, QuietFits DEF q, KeepsGate, PauseEnds
<1>3. CASE ~discardCard
  <2>1. SameGate(r, q) /\ q.pending = r.pause.pending /\ q.current = r.current
    BY <1>3 DEF ResumedInPlace, Restored, SameGate, Good, Stored, RunState
  <2> HIDE DEF q
  <2>2. KeepsGate(r, q)
    BY <2>1 DEF SameGate, KeepsGate
  <2>3. q.pending.type = "prepare_invocation" => q.current = NoInvocation
    BY <2>1 DEF CardFits
  <2> QED
    BY <1>1, <2>2, <2>3, QuietFits DEF q, PauseEnds
<1> QED
  BY <1>2, <1>3

(* A waiver that keeps the card keeps its gate. *)
LEMMA GateWaivedFits ==
    ASSUME NEW r, Good(r), CardFits(r), NEW s \in Stages, NEW target \in Targets,
           NEW coversGate \in BOOLEAN
    PROVE  CardFits(GateWaived(r, s, target, coversGate))
<1> DEFINE q == GateWaived(r, s, target, coversGate)
<1>1. Quiet(r, q) /\ ~q.pause.saved
  BY GateWaivedForgets DEF Forgets
<1>2. KeepsGate(r, q) /\ (q.current = NoInvocation \/ q.pending.type = "invoke_agent")
  BY GateWaivedKeeps
<1> HIDE DEF q
<1> QED
  BY <1>1, <1>2, QuietFits DEF q, PauseEnds

(* A pause keeps the card with its gate. *)
LEMMA PauseRunFits ==
    ASSUME RunInv, CardFits(run), PauseRun PROVE CardFits(run')
<1>1. Stored(run) /\ run' = Paused(SavePause(run))
  BY DEF RunInv, Good, PauseRun, FromOutside, Persist
<1>2. /\ SameGate(run, run') /\ run'.current = run.current /\ run'.cards = run.cards
      /\ run'.status = "paused" /\ run'.pending.type = "operator_decision"
      /\ run'.pause = run.pause \/ run'.pause.pending = run.pending
  BY <1>1 DEF SavePause, Paused, Pending, SameGate, Stored, RunState
<1>3. run.current # NoInvocation /\ run.stage # NoStage => GateAnswered(run')
  BY <1>2, SameGateAnswered DEF CardFits
<1> QED
  BY <1>2, <1>3 DEF CardFits, AtRestStatuses, SameGate

(* A decision at a gate. *)
LEMMA DecisionFits ==
    ASSUME NEW next, CardFits(run), AwaitsDecision(run), Quiet(run, next), NoCardOut(next),
           KeepsGate(run, next), FromOutside(next)
    PROVE  CardFits(run')
<1>1. QuietCommand /\ run' = next
  BY DecisionIsQuiet DEF FromOutside, Persist
<1> QED
  BY <1>1, QuietFits DEF QuietCommand, NoCardOut

(* A redirect drops the card. *)
LEMMA RedirectFits ==
    ASSUME NEW next, CardFits(run), Forgets(run, next), next.current = NoInvocation,
           FromOutside(next)
    PROVE  CardFits(run')
BY ForgetsIsQuiet, DroppedFits DEF FromOutside, Persist

(* The commands of the operator. *)
LEMMA OperatorFits ==
    ASSUME RunInv, CardFits(run), Operator PROVE CardFits(run')
<1>0. Good(run) /\ Stored(run)
  BY DEF RunInv, Good
<1>1. CASE Approve \/ Revise \/ Reject \/ \E target \in Stages : RejectTo(target)
  <2>1. AwaitsDecision(run)
    BY <1>1 DEF Approve, Revise, Reject, RejectTo
  <2> QED
    BY <1>0, <1>1, <2>1, DecisionQuiet, DecisionNoCardOut, DecisionKeepsGate, DecisionFits
       DEF Approve, Revise, Reject, RejectTo
<1>2. CASE RecordLanded
  <2>1. run.stage \in Stages /\ run' = LandedByHand(run)
    BY <1>0, <1>2 DEF RecordLanded, Stored, RunState, FromOutside, Persist
  <2>2. NoCardOut(LandedByHand(run)) /\ KeepsGate(run, LandedByHand(run))
    BY <1>0, <2>1, ApplyTransitionNoCardOut, ApplyTransitionKeepsGate
       DEF LandedByHand, Targets, TerminalTargets, Outcomes
  <2>3. Quiet(run, run') /\ run'.status = "succeeded"
    BY <1>0, <2>1, LandedByHandCloses
  <2> QED
    BY <2>1, <2>2, <2>3, QuietFits DEF NoCardOut, PauseEnds, AtRestStatuses, Terminal
<1>3. ASSUME NEW withNote \in BOOLEAN, NEW edited \in BOOLEAN, Resume(withNote, edited)
      PROVE  CardFits(run')
  <2>1. CASE run.pause.saved
    <3>1. run' = ResumedInPlace(run, withNote \/ edited) /\ run.status = "paused"
      BY <1>3, <2>1 DEF Resume, FromOutside, Persist
    <3>2. (withNote \/ edited) \in BOOLEAN
      OBVIOUS
    <3> QED
      BY <1>0, <2>1, <3>1, <3>2, ResumedInPlaceFits
  <2>2. CASE ~run.pause.saved
    <3>1. FromOutside(ResumedAt(run, DefaultStage(run), FALSE, TRUE)) /\ run.status = "paused"
      BY <1>3, <2>2 DEF Resume
    <3>2. DefaultStage(run) \in Stages
      BY <1>0, DefaultStageTyped
    <3> QED
      BY <1>0, <3>1, <3>2, ResumedAtForgets, RedirectDropsCard, RedirectFits
  <2> QED
    BY <2>1, <2>2
<1>4. ASSUME NEW target \in Stages, NEW edited \in BOOLEAN, ResumeAt(target, edited)
      PROVE  CardFits(run')
  BY <1>0, <1>4, ResumedAtForgets, RedirectDropsCard, RedirectFits DEF ResumeAt
<1>5. ASSUME NEW target \in Stages, SetStage(target) PROVE CardFits(run')
  BY <1>0, <1>5, StageSetForgets, RedirectDropsCard, RedirectFits DEF SetStage
<1>6. ASSUME NEW s \in Stages, NEW target \in Targets, NEW coversGate \in BOOLEAN,
             WaiveGate(s, target, coversGate)
      PROVE  CardFits(run')
  BY <1>0, <1>6, GateWaivedFits DEF WaiveGate, FromOutside, Persist
<1>7. CASE AbortRun
  <2>1. FromOutside(Canceled(run)) /\ Canceled(run).current = NoInvocation
    BY <1>0, <1>7, RedirectDropsCard DEF AbortRun
  <2> QED
    BY <1>0, <2>1, CanceledForgets, RedirectFits
<1> QED
  BY <1>1, <1>2, <1>3, <1>4, <1>5, <1>6, <1>7, PauseRunFits DEF Operator

(* Away mode, whose command was decided from a state read earlier. *)
LEMMA AwayFits ==
    ASSUME RunInv, CardFits(run), Away PROVE CardFits(run')
<1>0. Good(run) /\ Stored(run)
  BY DEF RunInv, Good
<1>1. CASE AwayRefused \/ \E action \in AwayActions, s \in Stages \cup {NoStage} :
                              AwayDecide(action, s)
  BY <1>1 DEF AwayRefused, AwayDecide
<1>2. ASSUME NEW coversGate \in BOOLEAN, AwayApply(coversGate) PROVE CardFits(run')
  <2>0. /\ plan.action \in AwayActions \cup {"none"}
        /\ plan.stage \in Stages \cup {NoStage}
    BY DEF RunInv, Plan
  <2>1. CASE plan.action \in {"approve", "reject", "revise"}
    <3>1. AwaitsDecision(run)
      BY <1>2, <2>1 DEF AwayApply
    <3> QED
      BY <1>0, <1>2, <2>1, <3>1, DecisionQuiet, DecisionNoCardOut, DecisionKeepsGate,
         DecisionFits DEF AwayApply
  <2>2. CASE plan.action = "resume"
    <3>1. run.status = "paused" /\ FromOutside(ResumedByAway(run, plan.stage))
      BY <1>2, <2>2 DEF AwayApply
    <3>2. DefaultStage(run) \in Stages
      BY <1>0, DefaultStageTyped
    <3>3. CASE plan.stage # NoStage \/ ~run.pause.saved
      BY <1>0, <2>0, <3>1, <3>2, <3>3, ResumedAtForgets, RedirectDropsCard, RedirectFits
         DEF ResumedByAway
    <3>4. CASE plan.stage = NoStage /\ run.pause.saved
      BY <1>0, <3>1, <3>4, ResumedInPlaceFits DEF ResumedByAway, FromOutside, Persist
    <3> QED
      BY <3>3, <3>4
  <2>3. CASE plan.action = "set-stage"
    <3>1. FromOutside(StageSet(run, plan.stage)) /\ plan.stage \in Stages
      BY <1>2, <2>3 DEF AwayApply, RunInv
    <3> QED
      BY <1>0, <3>1, StageSetForgets, RedirectDropsCard, RedirectFits
  <2>4. CASE plan.action \notin {"approve", "reject", "revise", "resume", "set-stage"}
    <3>1. AwayWaives(coversGate)
      BY <1>2, <2>4 DEF AwayApply
    <3> QED
      BY <1>0, <3>1, WaiverStageTyped, GateWaivedFits DEF AwayWaives, FromOutside, Persist
  <2> QED
    BY <2>1, <2>2, <2>3, <2>4
<1>3. CASE LiftOperatorOnly
  <2>1. run.status = "paused"
    BY <1>0, <1>3 DEF LiftOperatorOnly, OperatorOnly, Good, Named, Coherent, Stored, RunState, Statuses
  <2>2. run' = Paused(run)
    BY <1>0, <1>3, <2>1 DEF LiftOperatorOnly, FromOutside, Persist, Paused, Stored, RunState
  <2>3. /\ Quiet(run, Paused(run)) /\ KeepsGate(run, Paused(run)) /\ NoCardOut(Paused(run))
        /\ Paused(run).status = "paused"
    BY <1>0, PausedQuiet, SimpleKeepsGate, StoppedNoCardOut DEF Paused, Stored, RunState
  <2> QED
    BY <2>2, <2>3, QuietFits DEF PauseEnds, AtRestStatuses, NoCardOut
<1> QED
  BY <1>1, <1>2, <1>3 DEF Away

(* In every state the current card is the newest, and covered. *)
LEMMA FitsInvariant == Spec => []CardFits(run)
<1>1. Init => CardFits(run)
  <2> SUFFICES ASSUME Init PROVE CardFits(run)
    OBVIOUS
  <2>1. run.current = NoInvocation /\ run.pause = NoPause
    BY DEF Init, InitialRun
  <2> QED
    BY <2>1 DEF CardFits, NoPause
<1>2. RunInv /\ CardsKept(run) /\ CardFits(run) /\ [Next]_vars => CardFits(run')
  <2>1. ASSUME CardFits(run), UNCHANGED vars PROVE CardFits(run')
    BY <2>1 DEF vars
  <2> QED
    BY <2>1, PrepareFits, AnswerFits, SupervisorFits, OperatorFits, AwayFits DEF Next
<1>3. (CardFits(run))' <=> CardFits(run')
  BY DEF CardFits, GateAnswered, CurrentPass, AtRestStatuses
<1> QED
  BY <1>1, <1>2, <1>3, RunInvariant, CardsInvariant, PTL DEF Spec

(* A card of a gated stage that a worker or a watch may still answer is    *)
(* covered by a pass of its entry gate for this visit, also when a pause   *)
(* kept the card, a resume restored it, a waiver kept it or a watch        *)
(* reported on it.                                                         *)
THEOREM CardsAreCovered == Spec => []GateCoversCard
<1>1. CardFits(run) => GateCoversCard
  BY DEF CardFits, GateCoversCard
<1> QED
  BY <1>1, FitsInvariant, PTL

-----------------------------------------------------------------------------
(* A waiver of a closed run cannot hold a card. *)
LEMMA ClosedRunWaived ==
    ASSUME NEW r, Good(r), r.pending.type = "none", NEW s \in Stages,
           NEW target \in Targets, NEW coversGate \in BOOLEAN
    PROVE  GateWaived(r, s, target, coversGate).current = NoInvocation
<1> DEFINE c == ClearTracker(r, s)
           waived == [c.waived EXCEPT ![s] = c.waived[s] \/ coversGate]
           directed == [c EXCEPT !.waived[s] = @ \/ coversGate, !.status = "running",
                                 !.pause = NoPause, !.failures = 0]
           bare == [directed EXCEPT !.current = NoInvocation]
<1>1. Stored(c)
  BY ClearTrackerStored DEF Good
<1> HIDE DEF c
<1>2. waived \in [Stages -> BOOLEAN]
  <2>1. c.waived \in [Stages -> BOOLEAN]
    BY <1>1 DEF Stored, RunState
  <2> QED
    BY <2>1
<1>3. directed = [c EXCEPT !.waived = waived, !.status = "running",
                           !.pause = NoPause, !.failures = 0]
  BY <1>1 DEF Stored, RunState
<1> HIDE DEF waived, directed
<1>4. NoPause \in SavedPause /\ ~NoPause.saved
  BY PendingTyped DEF NoPause, SavedPause, Statuses, PendingTypes
<1>5. directed \in RunState /\ directed.pause = NoPause
  BY <1>1, <1>2, <1>3, <1>4 DEF Stored, RunState, Statuses
<1>6. bare \in RunState /\ bare.current = 0 /\ bare.pause = NoPause /\ bare.cards \in Seq(Card)
  BY <1>5 DEF RunState, NoInvocation
<1>7. Stored(bare)
  BY <1>4, <1>6 DEF Stored
<1>8. GateWaived(r, s, target, coversGate) = ApplyTransition(bare, s, "success", target, TRUE)
  BY DEF GateWaived, HoldsInvocation, directed, bare, c
<1> HIDE DEF bare
<1>9. Quiet(bare, ApplyTransition(bare, s, "success", target, TRUE))
  BY <1>7, ApplyTransitionQuiet DEF Outcomes
<1> QED
  BY <1>6, <1>8, <1>9 DEF Quiet, NoInvocation

(* The refinement of StageCards.  A closed run that goes on has dropped    *)
(* its card, so no command opens a card again that was closed.             *)
LEMMA ReopenedDropsCard ==
    ASSUME RunInv, run.status \in Terminal, Next
    PROVE  run' = run \/ run'.current = NoInvocation
<1>0. /\ Good(run) /\ Stored(run) /\ run.stage = NoStage /\ run.pending.type = "none"
      /\ run.status \notin {"running", "paused", "awaiting_operator", "awaiting_supervisor"}
  BY DEF RunInv, Good, Named, Coherent, Terminal
<1>1. ASSUME NEW target \in Stages PROVE StageSet(run, target).current = NoInvocation
  <2> DEFINE fresh == ClearEntryGateRoutes(ResetAttemptsFrom(run, target))
             q == Entered(fresh, target)
  <2>1. Stored(fresh)
    BY <1>0, ResetAttemptsStored, ClearEntryGateRoutesStored
  <2> HIDE DEF fresh
  <2>2. q \in RunState /\ q.current = NoInvocation
    BY <2>1, EnteredGood DEF Good, Stored, Entered, RunState
  <2> HIDE DEF q
  <2> QED
    BY <2>2 DEF StageSet, RunState, q, fresh
<1>2. ASSUME NEW s \in Stages, NEW target \in Targets, NEW coversGate \in BOOLEAN
      PROVE  GateWaived(run, s, target, coversGate).current = NoInvocation
  <2> QED
    BY <1>0, ClosedRunWaived
<1>3. ~Prepare /\ ~Worker /\ ~Supervisor /\ ~EvidenceWatch
  BY <1>0 DEF Prepare, PrepareExhausted, PrepareInterrupted, PrepareGateFailed,
     PrepareProfilesFailed, PrepareInvocation, ReadyToPrepare, Worker, Submit, CanSubmit,
     Supervisor, Assess, EvidenceWatch, EvidenceGateFailure
<1>4. CASE Operator
  <2>1. \/ \E target \in Stages : SetStage(target)
        \/ \E s \in Stages, target \in Targets, coversGate \in BOOLEAN :
               WaiveGate(s, target, coversGate)
    BY <1>0, <1>4 DEF Operator, Approve, Revise, Reject, RejectTo, AwaitsDecision, RecordLanded,
       PauseRun, Resume, ResumeAt, AbortRun
  <2> QED
    BY <1>1, <1>2, <2>1 DEF SetStage, WaiveGate, FromOutside, Persist
<1>5. ASSUME NEW coversGate \in BOOLEAN, AwayApply(coversGate)
      PROVE  run'.current = NoInvocation
  <2>1. plan.action = "set-stage" \/ AwayWaives(coversGate)
    BY <1>0, <1>5 DEF AwayApply, AwaitsDecision, RunInv, Plan, AwayActions
  <2>2. CASE plan.action = "set-stage"
    BY <1>1, <1>5, <2>2 DEF AwayApply, FromOutside, Persist, RunInv
  <2>3. CASE AwayWaives(coversGate)
    BY <1>0, <1>2, <2>3, WaiverStageTyped DEF AwayWaives, FromOutside, Persist
  <2> QED
    BY <2>1, <2>2, <2>3
<1>6. CASE Away
  BY <1>0, <1>5, <1>6 DEF Away, AwayDecide, AwayRefused, LiftOperatorOnly, OperatorOnly
<1> QED
  BY <1>3, <1>4, <1>6 DEF Next

(* OpenCard and the outcomes of a record.                                  *)
OpenOf(r) ==
    IF r.status \notin Terminal /\ ~HasOutcome(r, r.current)
    THEN r.current ELSE NoInvocation
AnswersOf(r) == [i \in DOMAIN r.history |-> r.history[i].id]

(* Every outcome has its record: the answer of a worker.                   *)
AllRecorded(r) == \A i \in 1 .. Len(r.history) : r.history[i].hasRecord

(* Only evidence watches record outcomes without one. *)
LEMMA RecordsInvariant ==
    Spec => [](EvidenceStages = {} => AllRecorded(run))
<1> DEFINE Unwatched == EvidenceStages = {} => AllRecorded(run)
<1>1. Init => Unwatched
  BY DEF Init, InitialRun, AllRecorded
<1>2. RunInv /\ Unwatched /\ [Next]_vars => (EvidenceStages = {} => AllRecorded(run'))
  <2> SUFFICES ASSUME RunInv, EvidenceStages = {}, AllRecorded(run), [Next]_vars
               PROVE  AllRecorded(run')
    OBVIOUS
  <2>1. CASE Worker
    <3>1. PICK outcome, reason, hasRecord, environmentBlocked :
              Answered(run', outcome, reason, hasRecord, environmentBlocked)
      BY <2>1, AnswersRecorded
    <3>2. PICK item \in HistoryItem : item = Outcome(outcome, reason, hasRecord)
      BY <3>1, AnswerAppends
    <3>3. /\ item.hasRecord = hasRecord /\ run.history \in Seq(HistoryItem)
          /\ run'.history = Append(run.history, item)
      BY <3>1, <3>2, AnswerAppends
    <3>4. hasRecord = TRUE
      BY <3>1 DEF Answered
    <3>5. /\ Len(run'.history) = Len(run.history) + 1 /\ Len(run.history) \in Nat
          /\ run'.history[Len(run.history) + 1] = item
          /\ \A i \in 1 .. Len(run.history) : run'.history[i] = run.history[i]
      BY <3>3
    <3>6. ASSUME NEW i \in 1 .. Len(run'.history) PROVE run'.history[i].hasRecord
      <4>1. CASE i = Len(run.history) + 1
        BY <3>3, <3>4, <3>5, <4>1
      <4>2. CASE i \in 1 .. Len(run.history)
        BY <3>5, <4>2 DEF AllRecorded
      <4> QED
        BY <3>5, <4>1, <4>2
    <3> QED
      BY <3>6 DEF AllRecorded
  <2>2. ASSUME run'.history = run.history PROVE AllRecorded(run')
    BY <2>2 DEF AllRecorded
  <2>3. CASE UNCHANGED vars
    BY <2>2, <2>3 DEF vars
  <2>4. CASE QuietCommand
    BY <2>2, <2>4 DEF QuietCommand, Quiet
  <2>5. CASE PrepareInvocation
    BY <2>2, <2>5, IssueAppends
  <2>6. CASE PauseRun
    BY <2>2, <2>6, PauseRunKeeps
  <2>7. ~EvidenceWatch
    BY DEF EvidenceWatch, EvidenceGateFailure
  <2> QED
    BY <2>1, <2>3, <2>4, <2>5, <2>6, <2>7, CommandsSplit
<1>3. (Unwatched)' <=> (EvidenceStages = {} => AllRecorded(run'))
  BY DEF AllRecorded
<1> QED
  BY <1>1, <1>2, <1>3, RunInvariant, PTL DEF Spec

(* The variables of StageCards, as functions of the run. *)
LEMMA CardsOf ==
    /\ OpenCard = OpenOf(run) /\ OpenCard' = OpenOf(run')
    /\ Cards!vars = <<Len(run.cards), OpenOf(run), AnswersOf(run)>>
    /\ (Cards!vars)' = <<Len(run'.cards), OpenOf(run'), AnswersOf(run')>>
BY DEF OpenCard, OpenOf, AnswersOf, HasOutcome, Cards!vars

(* A quiet command or a pause changes nothing, or discards the card. *)
LEMMA QuietDiscards ==
    ASSUME run'.cards = run.cards, run'.history = run.history,
           run'.current \in {run.current, NoInvocation},
           run' = run \/ run.status \notin Terminal \/ run'.current = NoInvocation
    PROVE  [Cards!Next]_(Cards!vars)
<1>1. OpenOf(run') \in {OpenOf(run), NoInvocation}
  BY DEF OpenOf, HasOutcome
<1>2. AnswersOf(run') = AnswersOf(run)
  BY DEF AnswersOf
<1>3. CASE OpenOf(run') = OpenOf(run)
  BY <1>2, <1>3, CardsOf
<1>4. CASE OpenOf(run') = NoInvocation /\ OpenOf(run) # NoInvocation
  BY <1>2, <1>4, CardsOf DEF Cards!Next, Cards!Discard, NoInvocation, AnswersOf
<1> QED
  BY <1>1, <1>3, <1>4

(* A prepared stage issues the next card when none is open. *)
LEMMA PrepareIssues ==
    ASSUME RunInv, CardsKept(run), CardFits(run), PrepareInvocation
    PROVE  Cards!Next
<1>1. OpenOf(run) = NoInvocation
  BY IssueAppends DEF CardFits, OpenOf
<1>2. run.cards \in Seq(Card) /\ run.history \in Seq(HistoryItem)
  BY DEF RunInv, Good, Stored, RunState
<1>3. ~HasOutcome(run', Len(run.cards) + 1)
  <2>1. \A i \in 1 .. Len(run.history) : run.history[i].id \in 1 .. Len(run.cards)
    BY DEF CardsKept, CardsMatch, Matches
  <2>2. Len(run.cards) + 1 \notin 1 .. Len(run.cards)
    BY <1>2
  <2>3. run'.history = run.history
    BY IssueAppends
  <2> QED
    BY <2>1, <2>2, <2>3 DEF HasOutcome
<1>4. OpenOf(run') = Len(run.cards) + 1
  BY <1>3, IssueAppends DEF OpenOf, Terminal
<1>5. AnswersOf(run') = AnswersOf(run)
  BY IssueAppends DEF AnswersOf
<1> QED
  BY <1>1, <1>4, <1>5, IssueAppends, CardsOf DEF Cards!Next, Cards!Issue, NoInvocation, AnswersOf

(* An answer records its outcome for the open card and closes it, or for    *)
(* the newest card again where a watch reports on it too.                   *)
LEMMA AnswerRecords ==
    ASSUME RunInv, CardFits(run), EvidenceStages = {} => AllRecorded(run),
           Worker \/ EvidenceWatch
    PROVE  Cards!Next
<1>1. PICK outcome, reason, hasRecord, environmentBlocked :
          Answered(run', outcome, reason, hasRecord, environmentBlocked)
  BY AnswersRecorded
<1>2. PICK item \in HistoryItem : item = Outcome(outcome, reason, hasRecord)
  BY <1>1, AnswerAppends
<1>3. /\ item.id = run.current /\ run'.history = Append(run.history, item)
      /\ run.history \in Seq(HistoryItem) /\ run'.cards = run.cards
      /\ run'.current \in {run.current, NoInvocation}
  BY <1>1, <1>2, AnswerAppends
<1>4. HasOutcome(run', run.current)
  <2>1. /\ Len(run.history) + 1 \in 1 .. Len(run'.history)
        /\ run'.history[Len(run.history) + 1] = item
    BY <1>3
  <2> QED
    BY <1>3, <2>1 DEF HasOutcome
<1>5. OpenOf(run') = NoInvocation
  BY <1>3, <1>4 DEF OpenOf
<1>6. AnswersOf(run') = Append(AnswersOf(run), run.current)
  <2> DEFINE a == AnswersOf(run)
             b == AnswersOf(run')
             n == Len(run.history)
  <2>1. /\ n \in Nat /\ a \in Seq(Nat) /\ Len(a) = n
        /\ \A i \in 1 .. n : a[i] = run.history[i].id
    <3>1. n \in Nat /\ DOMAIN run.history = 1 .. n
      BY <1>3
    <3>2. ASSUME NEW i \in 1 .. n PROVE run.history[i].id \in Nat
      <4>1. run.history[i] \in HistoryItem
        BY <1>3, <3>2
      <4> QED
        BY <4>1 DEF HistoryItem
    <3>3. a \in [1 .. n -> Nat] /\ \A i \in 1 .. n : a[i] = run.history[i].id
      BY <3>1, <3>2 DEF AnswersOf
    <3> HIDE DEF a, n
    <3>4. a \in Seq(Nat)
      BY <3>1, <3>3, SeqDef
    <3>5. Len(a) = n
      BY <3>1, <3>3, <3>4
    <3> QED
      BY <3>1, <3>3, <3>4, <3>5
  <2>2. /\ b \in [1 .. n + 1 -> Nat]
        /\ \A i \in 1 .. n : b[i] = run.history[i].id
        /\ b[n + 1] = run.current
    <3>1. /\ DOMAIN run'.history = 1 .. n + 1 /\ run'.history[n + 1] = item
          /\ \A i \in 1 .. n : run'.history[i] = run.history[i]
      BY <1>3
    <3>2. ASSUME NEW i \in 1 .. n + 1 PROVE run'.history[i].id \in Nat
      <4>1. run'.history[i] \in HistoryItem
        BY <1>3, <3>1, <3>2
      <4> QED
        BY <4>1 DEF HistoryItem
    <3>3. b \in [1 .. n + 1 -> Nat] /\ \A i \in 1 .. n + 1 : b[i] = run'.history[i].id
      BY <3>1, <3>2 DEF AnswersOf
    <3>4. n + 1 \in 1 .. n + 1 /\ \A i \in 1 .. n : i \in 1 .. n + 1
      BY <2>1
    <3> QED
      BY <1>3, <3>1, <3>3, <3>4
  <2> HIDE DEF a, b, n
  <2>3. run.current \in Nat
    BY DEF RunInv, Good, Stored, RunState
  <2>4. /\ Append(a, run.current) \in Seq(Nat) /\ Len(Append(a, run.current)) = n + 1
        /\ \A i \in 1 .. n : Append(a, run.current)[i] = a[i]
        /\ Append(a, run.current)[n + 1] = run.current
    BY <2>1, <2>3, AppendProperties
  <2>5. b \in Seq(Nat) /\ Len(b) = n + 1
    <3>1. n + 1 \in Nat
      BY <2>1
    <3>2. b \in Seq(Nat)
      BY <2>2, <3>1, SeqDef
    <3> QED
      BY <2>2, <3>1, <3>2
  <2>6. ASSUME NEW i \in 1 .. n + 1 PROVE b[i] = Append(a, run.current)[i]
    <3>1. i \in 1 .. n \/ i = n + 1
      BY <2>1
    <3> QED
      BY <2>1, <2>2, <2>4, <3>1
  <2>7. b = Append(a, run.current)
    BY <2>4, <2>5, <2>6, SeqEqual
  <2> QED
    BY <2>7 DEF a, b
<1>7. /\ run.status \notin Terminal /\ run.current # NoInvocation
      /\ run.current = Len(run.cards)
      /\ hasRecord = FALSE => EvidenceStages # {}
      /\ hasRecord = TRUE => ~HasRecord(run, run.current)
      /\ hasRecord \in BOOLEAN
  BY <1>1 DEF Answered, RunInv, Good, Named, Coherent, Terminal, CardFits
<1>8. CASE ~HasOutcome(run, run.current)
  <2>1. OpenOf(run) = run.current
    BY <1>7, <1>8 DEF OpenOf
  <2> QED
    BY <1>3, <1>5, <1>6, <1>7, <2>1, CardsOf
       DEF Cards!Next, Cards!Record, NoInvocation, AnswersOf
<1>9. CASE HasOutcome(run, run.current)
  <2>1. OpenOf(run) = NoInvocation
    BY <1>9 DEF OpenOf
  <2>2. EvidenceStages # {}
    <3>1. PICK i \in 1 .. Len(run.history) : run.history[i].id = run.current
      BY <1>9 DEF HasOutcome
    <3>2. CASE hasRecord = TRUE
      <4>1. ~run.history[i].hasRecord
        BY <1>7, <3>1, <3>2 DEF HasRecord
      <4>2. ~AllRecorded(run)
        BY <3>1, <4>1 DEF AllRecorded
      <4> QED
        BY <4>2
    <3> QED
      BY <1>7, <3>2
  <2>3. \E i \in 1 .. Len(AnswersOf(run)) : AnswersOf(run)[i] = Len(run.cards)
    <3>1. PICK i \in 1 .. Len(run.history) : run.history[i].id = run.current
      BY <1>9 DEF HasOutcome
    <3>2. AnswersOf(run)[i] = run.current /\ Len(AnswersOf(run)) = Len(run.history)
      BY <1>3, <3>1 DEF AnswersOf
    <3> DEFINE b == AnswersOf(run)
    <3>3. i \in 1 .. Len(b) /\ b[i] = Len(run.cards)
      BY <1>7, <3>1, <3>2
    <3> HIDE DEF b
    <3>4. \E k \in 1 .. Len(b) : b[k] = Len(run.cards)
      BY <3>3
    <3> QED
      BY <3>4 DEF b
  <2>4. Cards!RecordAgain
    <3>1. /\ OpenCard = 0 /\ OpenCard' = 0 /\ EvidenceStages # {}
          /\ Len(run'.cards) = Len(run.cards) /\ run.current = Len(run.cards)
      BY <1>3, <1>5, <1>7, <2>1, <2>2, CardsOf DEF NoInvocation
    <3>2. [i \in DOMAIN run'.history |-> run'.history[i].id]
            = Append([i \in DOMAIN run.history |-> run.history[i].id], Len(run.cards))
      BY <1>6, <3>1 DEF AnswersOf
    <3>3. \E i \in 1 .. Len([k \in DOMAIN run.history |-> run.history[k].id]) :
             [k \in DOMAIN run.history |-> run.history[k].id][i] = Len(run.cards)
      BY <2>3 DEF AnswersOf
    <3> QED
      BY <3>1, <3>2, <3>3 DEF Cards!RecordAgain
  <2> QED
    BY <2>4 DEF Cards!Next
<1> QED
  BY <1>8, <1>9

(* The run implements StageCards: a card is issued only when no other can  *)
(* still be answered, an outcome is recorded for the open card and closes  *)
(* it, a card that a pause, a redirect or a waiver took away is never      *)
(* answered later, and a watch that reports beside the worker, however     *)
(* late, reports on the newest card.                                       *)
THEOREM CardsInOrder == Spec => AnswersItsCards
<1>1. Init => Cards!Init
  <2> SUFFICES ASSUME Init PROVE Cards!Init
    OBVIOUS
  <2>1. run.cards = <<>> /\ run.history = <<>> /\ run.current = NoInvocation
    BY DEF Init, InitialRun
  <2>2. OpenOf(run) = NoInvocation /\ AnswersOf(run) = <<>>
    BY <2>1 DEF OpenOf, AnswersOf
  <2> QED
    BY <2>1, <2>2, CardsOf DEF Cards!Init, NoInvocation, AnswersOf
<1>2. /\ RunInv /\ CardsKept(run) /\ CardFits(run)
      /\ (EvidenceStages = {} => AllRecorded(run)) /\ [Next]_vars
      => [Cards!Next]_(Cards!vars)
  <2> SUFFICES ASSUME RunInv, CardsKept(run), CardFits(run),
                      EvidenceStages = {} => AllRecorded(run), [Next]_vars
               PROVE  [Cards!Next]_(Cards!vars)
    OBVIOUS
  <2>1. CASE UNCHANGED vars
    BY <2>1, QuietDiscards DEF vars
  <2>2. CASE QuietCommand /\ Next
    <3>1. run' = run \/ run.status \notin Terminal \/ run'.current = NoInvocation
      BY <2>2, ReopenedDropsCard
    <3> QED
      BY <2>2, <3>1, QuietDiscards DEF QuietCommand, Quiet
  <2>3. CASE PauseRun
    BY <2>3, PauseRunKeeps, QuietDiscards
  <2>4. CASE PrepareInvocation
    BY <2>4, PrepareIssues
  <2>5. CASE Worker \/ EvidenceWatch
    BY <2>5, AnswerRecords
  <2> QED
    BY <2>1, <2>2, <2>3, <2>4, <2>5, CommandsSplit
<1> QED
  BY <1>1, <1>2, RunInvariant, CardsInvariant, FitsInvariant, RecordsInvariant, PTL
     DEF Spec, AnswersItsCards, Cards!Spec

-----------------------------------------------------------------------------
(* Repair loops.  Only a failed entry gate counts one; every other operator *)
(* is Tame: it keeps the counts of the gates or resets them.               *)
Tame(r, q) == \A g \in Stages : q.gates[g].failures <= r.gates[g].failures

(* Counts are numbers, so a step that keeps the gates is tame. *)
LEMMA SameGatesTame ==
    ASSUME NEW r, Stored(r), NEW q, q.gates = r.gates
    PROVE  Tame(r, q)
<1> SUFFICES ASSUME NEW g \in Stages PROVE r.gates[g].failures <= r.gates[g].failures
  BY DEF Tame
<1>1. r.gates[g] \in GateRecord
  BY DEF Stored, RunState
<1> QED
  BY <1>1 DEF GateRecord

(* Tame steps compose. *)
LEMMA TameTransitive ==
    ASSUME NEW r, Stored(r), NEW q, Stored(q), NEW t, t.gates \in [Stages -> GateRecord],
           Tame(r, q), Tame(q, t)
    PROVE  Tame(r, t)
<1> SUFFICES ASSUME NEW g \in Stages PROVE t.gates[g].failures <= r.gates[g].failures
  BY DEF Tame
<1>1. r.gates[g] \in GateRecord /\ q.gates[g] \in GateRecord /\ t.gates[g] \in GateRecord
  BY DEF Stored, RunState
<1>2. /\ q.gates[g].failures <= r.gates[g].failures
      /\ t.gates[g].failures <= q.gates[g].failures
  BY DEF Tame
<1> QED
  BY <1>1, <1>2 DEF GateRecord

(* Pauses, ends and counters are apart from the gates. *)
LEMMA StopsTame ==
    ASSUME NEW r, Stored(r), NEW s, NEW target, NEW outcome, NEW reason, NEW directed
    PROVE  /\ Tame(r, Paused(r)) /\ Tame(r, PausedForOperatorOnly(r))
           /\ Tame(r, PauseForLimit(r)) /\ Tame(r, Finished(r, target))
           /\ Tame(r, Left(r, s, target)) /\ Tame(r, Entered(r, target))
           /\ Tame(r, AwaitApproval(r, outcome)) /\ Tame(r, AwaitAssessment(r))
<1>1. r \in RunState
  BY DEF Stored
<1>2. Paused(r).gates = r.gates /\ PausedForOperatorOnly(r).gates = r.gates
  BY <1>1 DEF RunState, Paused, PausedForOperatorOnly
<1>3. PauseForLimit(r).gates = r.gates
  BY <1>1, <1>2 DEF RunState, PauseForLimit, CandidateFailed
<1>4. Finished(r, target).gates = r.gates
  BY <1>1 DEF RunState, Finished
<1>5. Left(r, s, target).gates = r.gates
  BY <1>1 DEF RunState, Left
<1>6. Entered(r, target).gates = r.gates
  BY <1>1 DEF RunState, Entered
<1>7. AwaitApproval(r, outcome).gates = r.gates /\ AwaitAssessment(r).gates = r.gates
  BY <1>1 DEF RunState, AwaitApproval, AwaitAssessment
<1> QED
  BY <1>2, <1>3, <1>4, <1>5, <1>6, <1>7, SameGatesTame

(* So are trackers, ladder, attempts and history. *)
LEMMA CountersTame ==
    ASSUME NEW r, Stored(r), NEW s, NEW outcome, NEW reason, NEW directed, NEW hasRecord
    PROVE  /\ Tame(r, Counted(r, outcome, directed)) /\ Tame(r, ClearTracker(r, s))
           /\ Tame(r, Climbed(r, reason)) /\ Tame(r, Tracked(r, s, reason))
           /\ Tame(r, Recorded(r, outcome, reason, hasRecord))
           /\ Tame(r, Numbered(r)) /\ Tame(r, ResetAttemptsFrom(r, s))
           /\ Tame(r, CardIssued(r)) /\ Tame(r, SavePause(r))
           /\ Tame(r, Restored(r)) /\ Tame(r, Invalidated(r))
<1>1. r \in RunState
  BY DEF Stored
<1>2. /\ Counted(r, outcome, directed).gates = r.gates
      /\ ClearTracker(r, s).gates = r.gates
  BY <1>1 DEF RunState, Counted, ClearTracker
<1>3. Climbed(r, reason).gates = r.gates /\ Tracked(r, s, reason).gates = r.gates
  BY <1>1 DEF RunState, Climbed, Tracked
<1>4. Recorded(r, outcome, reason, hasRecord).gates = r.gates
  BY <1>1 DEF RunState, Recorded
<1>5. Numbered(r).gates = r.gates /\ ResetAttemptsFrom(r, s).gates = r.gates
  BY <1>1 DEF RunState, Numbered, ResetAttemptsFrom
<1>6. CardIssued(r).gates = r.gates /\ SavePause(r).gates = r.gates
  BY <1>1 DEF RunState, CardIssued, SavePause
<1>7. Restored(r).gates = r.gates /\ Invalidated(r).gates = r.gates
  BY <1>1 DEF RunState, Restored, Invalidated
<1> QED
  BY <1>2, <1>3, <1>4, <1>5, <1>6, <1>7, SameGatesTame

(* Closing a route keeps the count of its gate. *)
LEMMA RouteTame ==
    ASSUME NEW r, Stored(r), NEW g \in Stages
    PROVE  Tame(r, [r EXCEPT !.gates[g].routedTo = NoStage])
<1> DEFINE gate == [r.gates[g] EXCEPT !.routedTo = NoStage]
           gates == [r.gates EXCEPT ![g] = gate]
           q == [r EXCEPT !.gates[g].routedTo = NoStage]
<1>1. r.gates \in [Stages -> GateRecord] /\ q.gates = gates
  BY DEF Stored, RunState
<1>2. gate.failures = r.gates[g].failures
  <2>1. r.gates[g] \in GateRecord
    BY <1>1
  <2> QED
    BY <2>1 DEF GateRecord
<1> HIDE DEF gate, q
<1> SUFFICES ASSUME NEW h \in Stages PROVE q.gates[h].failures <= r.gates[h].failures
  BY DEF Tame, q
<1>3. q.gates[h].failures = r.gates[h].failures
  BY <1>1, <1>2
<1>4. r.gates[h] \in GateRecord
  BY <1>1
<1> QED
  BY <1>3, <1>4 DEF GateRecord

(* A pass starts the count anew, *)
LEMMA AdmittedTame ==
    ASSUME NEW r, Stored(r), r.stage \in Stages PROVE Tame(r, Admitted(r))
<1>1. CASE GateAnswered(r)
  BY <1>1, SameGatesTame DEF Admitted
<1>2. CASE ~GateAnswered(r)
  <2> DEFINE pass == [NoGateRecord EXCEPT !.result = "passed", !.passedAt = Len(r.history)]
             q == Admitted(r)
  <2>1. r.gates \in [Stages -> GateRecord] /\ q.gates = [r.gates EXCEPT ![r.stage] = pass]
    BY <1>2 DEF Admitted, Stored, RunState
  <2>2. pass.failures = 0
    BY DEF NoGateRecord
  <2> HIDE DEF pass, q
  <2> SUFFICES ASSUME NEW h \in Stages PROVE q.gates[h].failures <= r.gates[h].failures
    BY DEF Tame, q
  <2>3. q.gates[h].failures \in {0, r.gates[h].failures}
    BY <2>1, <2>2
  <2>4. r.gates[h] \in GateRecord
    BY <2>1
  <2> QED
    BY <2>3, <2>4 DEF GateRecord
<1> QED
  BY <1>1, <1>2

(* and so does a redirect. *)
LEMMA ClearEntryGateRoutesTame ==
    ASSUME NEW r, Stored(r) PROVE Tame(r, ClearEntryGateRoutes(r))
<1> SUFFICES ASSUME NEW h \in Stages
             PROVE  ClearEntryGateRoutes(r).gates[h].failures <= r.gates[h].failures
  BY DEF Tame
<1>1. ClearEntryGateRoutes(r).gates[h].failures = 0
  BY DEF ClearEntryGateRoutes, NoGateRecord, Stored, RunState
<1>2. r.gates[h] \in GateRecord
  BY DEF Stored, RunState
<1> QED
  BY <1>1, <1>2 DEF GateRecord

(* The answer to a gate's route closes it. *)
LEMMA AnswerRouteTame ==
    ASSUME NEW r, Stored(r), NEW s \in Stages, NEW outcome, NEW override
    PROVE  Tame(r, AnswerRoute(r, s, outcome, override))
<1>1. CASE ReturnsToGate(r, s, outcome, override)
  <2>1. GateThatRouted(r, s) \in Stages
    BY <1>1 DEF ReturnsToGate, GateThatRouted, RoutesTo
  <2> QED
    BY <1>1, <2>1, RouteTame DEF AnswerRoute
<1>2. CASE ~ReturnsToGate(r, s, outcome, override)
  BY <1>2, SameGatesTame DEF AnswerRoute
<1> QED
  BY <1>1, <1>2

(* applyTransition as a whole is tame. *)
LEMMA ApplyTransitionTame ==
    ASSUME NEW r, Stored(r), Pausable(r), NEW s \in Stages, NEW outcome \in Outcomes,
           NEW override \in Targets \cup {NoOverride}, NEW directed \in BOOLEAN
    PROVE  Tame(r, ApplyTransition(r, s, outcome, override, directed))
<1> DEFINE counted == Counted(r, outcome, directed)
           target == NextTarget(counted, s, outcome, override)
           answered == AnswerRoute(counted, s, outcome, override)
           q == ApplyTransition(r, s, outcome, override, directed)
<1>1. Stored(counted) /\ Stored(answered) /\ target \in Targets
  BY CountedStored, AnswerRouteStored, NextTargetTyped
<1>2. Tame(r, counted) /\ Tame(counted, answered)
  BY <1>1, CountersTame, AnswerRouteTame
<1>3. q = IF OverLimit(answered, directed) THEN PauseForLimit(answered)
                                           ELSE Moved(answered, s, target)
  BY DEF ApplyTransition
<1>4. Stored(q) /\ q.gates \in [Stages -> GateRecord]
  BY ApplyTransitionGood DEF Good, Stored, RunState
<1> HIDE DEF counted, target, answered, q
<1>5. Stored(Left(answered, s, target))
  BY <1>1, LeftStored
<1>6. Tame(answered, Moved(answered, s, target))
  <2>1. CASE target \in TerminalTargets \/ target = "paused"
    BY <1>1, <2>1, StopsTame DEF Moved
  <2>2. CASE ~(target \in TerminalTargets \/ target = "paused")
    <3>1. Moved(answered, s, target) = Entered(Left(answered, s, target), target)
      BY <2>2 DEF Moved
    <3>2. Entered(Left(answered, s, target), target).gates = answered.gates
      <4>1. Left(answered, s, target).gates = answered.gates
        BY <1>1 DEF Left, Stored, RunState
      <4> QED
        BY <1>5, <4>1 DEF Entered, Stored, RunState
    <3> QED
      BY <1>1, <3>1, <3>2, SameGatesTame
  <2> QED
    BY <2>1, <2>2
<1>7. Tame(answered, q)
  BY <1>1, <1>3, <1>6, StopsTame
<1>8. answered.gates \in [Stages -> GateRecord]
  BY <1>1 DEF Stored, RunState
<1>9. Tame(r, answered)
  BY <1>1, <1>2, <1>8, TameTransitive
<1> QED
  BY <1>1, <1>4, <1>7, <1>9, TameTransitive DEF q

(* Tame steps between stored runs compose. *)
LEMMA TameThen ==
    ASSUME NEW r, Stored(r), NEW q, Stored(q), NEW t, Stored(t), Tame(r, q), Tame(q, t)
    PROVE  Tame(r, t)
BY TameTransitive DEF Stored, RunState

(* An outcome of a stage with or without an operator gate, *)
LEMMA GatedTame ==
    ASSUME NEW r, Stored(r), r.stage # NoStage, NEW s \in Stages, NEW outcome \in Outcomes
    PROVE  Tame(r, Gated(r, s, outcome)) /\ Tame(r, Follow(r, s, outcome))
BY StopsTame, ApplyTransitionTame DEF Gated, Follow, Pausable

(* a rung of the ladder, *)
LEMMA HorizonFailureTame ==
    ASSUME NEW r, Stored(r), r.stage # NoStage, NEW s \in Stages, NEW reason \in Signatures
    PROVE  Tame(r, HorizonFailure(r, s, reason))
<1> DEFINE climbed == Climbed(r, reason)
<1>1. Stored(climbed) /\ Pausable(climbed) /\ Tame(r, climbed)
  BY ClimbedStored, CountersTame DEF Beside, Pausable
<1> HIDE DEF climbed
<1>2. \A target \in Targets :
          Tame(climbed, ApplyTransition(climbed, s, "failure", target, FALSE))
  BY <1>1, ApplyTransitionTame DEF Outcomes
<1>3. s \in Targets /\ OnOutcome[s]["failure"] \in Targets
  BY DEF Targets, Outcomes
<1>4. Tame(climbed, [Paused(climbed) EXCEPT !.current = NoInvocation])
  <2>1. [Paused(climbed) EXCEPT !.current = NoInvocation].gates = climbed.gates
    BY <1>1 DEF Stored, RunState, Paused
  <2> QED
    BY <1>1, <2>1, SameGatesTame
<1>5. Tame(climbed, HorizonFailure(r, s, reason))
  BY <1>2, <1>3, <1>4 DEF HorizonFailure, climbed
<1>6. Stored(HorizonFailure(r, s, reason))
  BY HorizonFailureGood DEF Good
<1> QED
  BY <1>1, <1>5, <1>6, TameThen

(* a failed outcome *)
LEMMA FailedOutcomeTame ==
    ASSUME NEW r, Stored(r), r.stage # NoStage, NEW s \in Stages, NEW reason \in Signatures
    PROVE  Tame(r, FailedOutcome(r, s, reason))
<1> DEFINE t == Tracked(r, s, reason)
           q == FailedOutcome(r, s, reason)
<1>1. Stored(t) /\ t.stage # NoStage /\ Tame(r, t)
  BY TrackedStored, CountersTame DEF Beside
<1>2. Stored(q)
  BY FailedOutcomeGood DEF Good
<1>3. \/ q \in {HorizonFailure(r, s, reason), Gated(r, s, "failure")}
      \/ q \in {PauseForLimit(t), Gated(t, s, "failure")}
  BY DEF FailedOutcome
<1> HIDE DEF t, q
<1>4. Tame(t, PauseForLimit(t)) /\ Tame(t, Gated(t, s, "failure"))
  BY <1>1, StopsTame, GatedTame DEF Outcomes
<1>5. Tame(r, HorizonFailure(r, s, reason)) /\ Tame(r, Gated(r, s, "failure"))
  BY HorizonFailureTame, GatedTame DEF Outcomes
<1> QED
  BY <1>1, <1>2, <1>3, <1>4, <1>5, TameThen DEF q

(* and a submission count no repair loop. *)
LEMMA SettledTame ==
    ASSUME NEW r, Stored(r), r.stage # NoStage, NEW s \in Stages, NEW outcome \in Outcomes,
           NEW reason \in Signatures, NEW environmentBlocked \in BOOLEAN
    PROVE  Tame(r, SettledSubmission(r, s, outcome, reason, environmentBlocked))
<1> DEFINE c == ClearTracker(r, s)
<1>1. Stored(c) /\ c.stage # NoStage /\ Tame(r, c)
  BY ClearTrackerStored, CountersTame DEF Beside
<1> HIDE DEF c
<1>2. Tame(c, Gated(c, s, outcome)) /\ Stored(Gated(c, s, outcome))
  BY <1>1, GatedTame, GatedGood DEF Good
<1>3. Tame(r, Gated(c, s, outcome))
  BY <1>1, <1>2, TameThen
<1> QED
  BY <1>3, StopsTame, FailedOutcomeTame, GatedTame DEF SettledSubmission, c

(* Beyond max_loops a count costs a pause, and no card is out in it that a  *)
(* watch could report on.                                                  *)
Held(r) == r.status = "paused" /\ r.current = NoInvocation
CountsLoop(r, q, g) ==
    \/ q.gates[g].failures <= r.gates[g].failures
    \/ q.gates[g].failures <= EntryGateOf[g].maxLoops
    \/ (Held(q) /\ q.gates[g].failures <= r.gates[g].failures + 1)

(* So every count beyond max_loops was paid for, by a command or by the    *)
(* pause the run is held in.                                               *)
LoopsPaid(r, n) ==
    \A s \in Stages :
        r.gates[s].failures <= EntryGateOf[s].maxLoops + n + (IF Held(r) THEN 1 ELSE 0)
LoopInv == LoopsPaid(run, interventions)

(* A failed entry gate counts one, and beyond max_loops it pauses the run. *)
LEMMA RefusedCounts ==
    ASSUME NEW r, Stored(r), r.stage # NoStage, r.current = NoInvocation,
           NEW s \in Stages, NEW g \in Stages
    PROVE  CountsLoop(r, RefusedByGate(r, s), g)
<1> DEFINE gate == EntryGateOf[s]
           routedTo == IF gate.route = "direct" THEN gate.repair ELSE NoStage
           repairs == r.gates[s].failures + 1 <= gate.maxLoops
           failed(to) == GateFailed(r, s, to)
           moved == ApplyTransition(failed(routedTo), s, "failure", gate.repair, FALSE)
           q == RefusedByGate(r, s)
<1>1. gate.repair \in Targets /\ routedTo \in Stages \cup {NoStage}
  BY DEF EntryGate, Targets
<1>2. \/ q = PausedForOperatorOnly(failed(NoStage))
      \/ (repairs /\ q = RouteClosedUnlessRunning(moved, s))
  BY DEF RefusedByGate
<1>3. r.gates \in [Stages -> GateRecord] /\ r.gates[g] \in GateRecord /\ r.gates[s] \in GateRecord
  BY DEF Stored, RunState
<1>4. ASSUME NEW to \in Stages \cup {NoStage}
      PROVE  /\ Stored(failed(to)) /\ Pausable(failed(to))
             /\ failed(to).current = NoInvocation
             /\ failed(to).gates[g].failures = IF g = s THEN r.gates[s].failures + 1
                                                        ELSE r.gates[g].failures
  <2>1. Stored(failed(to)) /\ Pausable(failed(to))
    BY <1>4, GateFailedStored DEF Beside, Pausable
  <2> DEFINE fail == [result |-> "failed", failures |-> r.gates[s].failures + 1,
                      passedAt |-> 0, routedTo |-> to]
  <2>2. failed(to).gates = [r.gates EXCEPT ![s] = fail] /\ failed(to).current = NoInvocation
    BY DEF GateFailed, Stored, RunState
  <2>3. fail.failures = r.gates[s].failures + 1
    OBVIOUS
  <2> HIDE DEF fail, failed
  <2> QED
    BY <1>3, <2>1, <2>2, <2>3
<1>5. failed(NoStage).gates[g].failures <= r.gates[g].failures + 1
  BY <1>3, <1>4 DEF GateRecord
<1>6. PausedForOperatorOnly(failed(NoStage)).gates = failed(NoStage).gates
      /\ PausedForOperatorOnly(failed(NoStage)).status = "paused"
      /\ PausedForOperatorOnly(failed(NoStage)).current = NoInvocation
  BY <1>4 DEF PausedForOperatorOnly, Stored, RunState
<1> HIDE DEF routedTo
<1>7. Good(moved) /\ Tame(failed(routedTo), moved)
  BY <1>1, <1>4, ApplyTransitionGood, ApplyTransitionTame DEF Outcomes
<1>8. failed(routedTo).gates[g].failures = IF g = s THEN r.gates[s].failures + 1
                                                    ELSE r.gates[g].failures
  BY <1>1, <1>4
<1>9. failed(routedTo).gates[g].failures \in Nat
  BY <1>3, <1>8 DEF GateRecord
<1>10. moved.gates[g].failures <= failed(routedTo).gates[g].failures
  BY <1>7 DEF Tame
<1> HIDE DEF failed, moved
<1>11. Tame(moved, RouteClosedUnlessRunning(moved, s))
  BY <1>7, RouteTame, SameGatesTame DEF RouteClosedUnlessRunning, Good
<1>12. RouteClosedUnlessRunning(moved, s).gates[g].failures <= moved.gates[g].failures
  BY <1>11 DEF Tame
<1>13. moved.gates[g] \in GateRecord /\ RouteClosedUnlessRunning(moved, s).gates[g] \in GateRecord
  <2>1. Good(RouteClosedUnlessRunning(moved, s))
    BY <1>7, RouteClosedGood
  <2> QED
    BY <1>7, <2>1 DEF Good, Stored, RunState
<1>14. RouteClosedUnlessRunning(moved, s).gates[g].failures
           <= failed(routedTo).gates[g].failures
  BY <1>9, <1>10, <1>12, <1>13 DEF GateRecord
<1> HIDE DEF q
<1> SUFFICES CountsLoop(r, q, g)
  BY DEF q
<1>15. CASE q = PausedForOperatorOnly(failed(NoStage))
  BY <1>5, <1>6, <1>15 DEF CountsLoop, Held
<1>16. CASE repairs /\ q = RouteClosedUnlessRunning(moved, s)
  <2>1. q.gates[g].failures <= failed(routedTo).gates[g].failures
    BY <1>14, <1>16
  <2>2. CASE g = s
    <3>1. q.gates[g].failures \in Nat /\ EntryGateOf[g].maxLoops \in Nat
      BY <1>13, <1>16 DEF GateRecord, EntryGate
    <3>2. q.gates[g].failures <= r.gates[g].failures + 1
      BY <1>8, <2>1, <2>2
    <3>3. r.gates[g].failures + 1 <= EntryGateOf[g].maxLoops
      BY <1>16, <2>2
    <3>4. r.gates[g].failures \in Nat
      BY <1>3 DEF GateRecord
    <3> QED
      BY <3>1, <3>2, <3>3, <3>4 DEF CountsLoop
  <2>3. CASE g # s
    BY <1>8, <2>1, <2>3 DEF CountsLoop
  <2> QED
    BY <2>2, <2>3
<1> QED
  BY <1>2, <1>15, <1>16

(* The decisions of an operator gate, *)
LEMMA DecisionTame ==
    ASSUME NEW r, Good(r), AwaitsDecision(r)
    PROVE  /\ Tame(r, Approved(r)) /\ Tame(r, Rejected(r))
           /\ Tame(r, RevisedByOperator(r)) /\ Tame(r, RevisedByAway(r))
           /\ \A target \in Stages : Tame(r, RejectedTo(r, target))
<1>1. /\ Stored(r) /\ r.stage \in Stages /\ r.stage # NoStage
      /\ r.pending.outcome \in Outcomes
  BY AtAStage DEF Good, Named, AwaitsDecision, Coherent, Terminal
<1>2. Tame(r, Approved(r))
  BY <1>1, GatedTame DEF Approved
<1>3. Tame(r, Rejected(r))
  BY <1>1, ApplyTransitionTame DEF Rejected, Pausable, Outcomes
<1> DEFINE c == ClearTracker(r, r.stage)
           revisions == [c.revisions EXCEPT ![r.stage] = c.revisions[r.stage] + 1]
           granted == [c EXCEPT !.revisions[r.stage] = @ + 1]
<1>4. Stored(c) /\ c.stage = r.stage /\ Tame(r, c)
  BY <1>1, ClearTrackerStored, CountersTame DEF Beside
<1> HIDE DEF c
<1>5. Tame(r, RevisedByAway(r))
  <2>1. Tame(c, RevisedByAway(r))
    BY <1>1, <1>4, ApplyTransitionTame DEF RevisedByAway, c, Pausable, Targets, Outcomes
  <2>2. Stored(RevisedByAway(r))
    BY DecisionGood DEF Good
  <2> QED
    BY <1>1, <1>4, <2>1, <2>2, TameThen
<1>6. Tame(r, RevisedByOperator(r))
  <2>1. c.revisions \in [Stages -> Nat]
    BY <1>4 DEF Stored, RunState
  <2>2. granted = [c EXCEPT !.revisions = revisions]
    BY <1>4 DEF Stored, RunState
  <2>7. revisions \in [Stages -> Nat]
    BY <1>1, <2>1
  <2> HIDE DEF revisions, granted
  <2>3. Stored(granted) /\ granted.stage = r.stage /\ granted.gates = c.gates
    BY <1>4, <2>2, <2>7 DEF Stored, RunState
  <2>4. Tame(c, granted)
    BY <1>4, <2>3, SameGatesTame
  <2>5. Tame(granted, RevisedByOperator(r))
    BY <1>1, <2>3, ApplyTransitionTame
       DEF RevisedByOperator, granted, c, Pausable, Targets, Outcomes
  <2>6. Stored(RevisedByOperator(r))
    BY DecisionGood DEF Good
  <2> QED
    BY <1>1, <1>4, <2>3, <2>4, <2>5, <2>6, TameThen
<1>7. ASSUME NEW target \in Stages PROVE Tame(r, RejectedTo(r, target))
  <2> DEFINE reset == ResetAttemptsFrom(r, target)
  <2>1. Stored(reset) /\ reset.stage = r.stage /\ Tame(r, reset)
    BY <1>1, ResetAttemptsStored, CountersTame DEF Beside
  <2> HIDE DEF reset
  <2>2. Tame(reset, RejectedTo(r, target))
    BY <1>1, <2>1, ApplyTransitionTame DEF RejectedTo, reset, Pausable, Targets, Outcomes
  <2>3. Stored(RejectedTo(r, target))
    BY DecisionGood DEF Good
  <2> QED
    BY <1>1, <2>1, <2>2, <2>3, TameThen
<1> QED
  BY <1>2, <1>3, <1>5, <1>6, <1>7

(* the resumes, *)
LEMMA ResumedTame ==
    ASSUME NEW r, Good(r), r.status = "paused"
    PROVE  /\ \A discardCard \in BOOLEAN : r.pause.saved => Tame(r, ResumedInPlace(r, discardCard))
           /\ \A target \in Stages, edited, clearRoutes \in BOOLEAN :
                  Tame(r, ResumedAt(r, target, edited, clearRoutes))
<1>0. Stored(r)
  BY DEF Good
<1>1. ASSUME NEW discardCard \in BOOLEAN, r.pause.saved
      PROVE  Tame(r, ResumedInPlace(r, discardCard))
  <2> DEFINE q == IF discardCard THEN Invalidated(r) ELSE Restored(r)
  <2>1. Stored(q)
    BY <1>1, InvalidatedGood, RestoredGood DEF Good, Pausable
  <2>2. q.gates = r.gates
    BY <1>0 DEF Invalidated, Restored, Stored, RunState
  <2>3. ResumedInPlace(r, discardCard) = [q EXCEPT !.pause = NoPause]
    BY DEF ResumedInPlace
  <2> HIDE DEF q
  <2>4. ResumedInPlace(r, discardCard).gates = r.gates
    BY <2>1, <2>2, <2>3 DEF Stored, RunState
  <2> QED
    BY <1>0, <2>4, SameGatesTame
<1>2. ASSUME NEW target \in Stages, NEW edited \in BOOLEAN, NEW clearRoutes \in BOOLEAN
      PROVE  Tame(r, ResumedAt(r, target, edited, clearRoutes))
  <2> DEFINE ratified == IF edited /\ r.pause.saved THEN Invalidated(r) ELSE r
             cleared == IF clearRoutes THEN ClearEntryGateRoutes(ratified) ELSE ratified
             q == Entered(cleared, target)
             t == [q EXCEPT !.pause = NoPause, !.failures = 0]
  <2>1. Stored(ratified) /\ Tame(r, ratified)
    BY <1>0, InvalidatedGood, CountersTame, SameGatesTame DEF Good, Pausable
  <2> HIDE DEF ratified
  <2>2. Stored(cleared) /\ Tame(ratified, cleared)
    BY <2>1, ClearEntryGateRoutesStored, ClearEntryGateRoutesTame, SameGatesTame
  <2> HIDE DEF cleared
  <2>3. Stored(q) /\ Tame(cleared, q)
    BY <2>2, EnteredGood, StopsTame DEF Good
  <2> HIDE DEF q
  <2>4. t.gates = q.gates
    BY <2>3 DEF Stored, RunState
  <2>5. Tame(q, t) /\ t.gates \in [Stages -> GateRecord]
    BY <2>3, <2>4, SameGatesTame DEF Stored, RunState
  <2>6. t = ResumedAt(r, target, edited, clearRoutes)
    BY DEF ResumedAt, q, cleared, ratified
  <2> HIDE DEF t
  <2> QED
    BY <1>0, <2>1, <2>2, <2>3, <2>5, <2>6, TameThen, TameTransitive
<1> QED
  BY <1>1, <1>2

(* and a redirect are tame. *)
LEMMA StageSetTame ==
    ASSUME NEW r, Stored(r), NEW target \in Stages PROVE Tame(r, StageSet(r, target))
<1> DEFINE reset == ResetAttemptsFrom(r, target)
           fresh == ClearEntryGateRoutes(reset)
           q == Entered(fresh, target)
           t == [q EXCEPT !.trackers = [s \in Stages |-> NoTracker], !.pause = NoPause,
                          !.transitions = 0, !.failures = 0]
<1>1. Stored(reset) /\ Tame(r, reset)
  BY ResetAttemptsStored, CountersTame
<1> HIDE DEF reset
<1>2. Stored(fresh) /\ Tame(reset, fresh)
  BY <1>1, ClearEntryGateRoutesStored, ClearEntryGateRoutesTame
<1> HIDE DEF fresh
<1>3. Stored(q) /\ Tame(fresh, q)
  BY <1>2, EnteredGood, StopsTame DEF Good
<1> HIDE DEF q
<1>4. t.gates = q.gates
  BY <1>3 DEF Stored, RunState
<1>5. Tame(q, t) /\ t.gates \in [Stages -> GateRecord]
  BY <1>3, <1>4, SameGatesTame DEF Stored, RunState
<1>6. t = StageSet(r, target)
  BY DEF StageSet, q, fresh, reset
<1> HIDE DEF t
<1> QED
  BY <1>1, <1>2, <1>3, <1>5, <1>6, TameThen, TameTransitive

(* The waived visit keeps its counts, *)
LEMMA GateWaivedTame ==
    ASSUME NEW r, Good(r), NEW s \in Stages, NEW target \in Targets,
           NEW coversGate \in BOOLEAN
    PROVE  Tame(r, GateWaived(r, s, target, coversGate))
<1> DEFINE c == ClearTracker(r, s)
           waived == [c.waived EXCEPT ![s] = c.waived[s] \/ coversGate]
           directed == [c EXCEPT !.waived[s] = @ \/ coversGate, !.status = "running",
                                 !.pause = NoPause, !.failures = 0]
           bare == [directed EXCEPT !.current = NoInvocation]
           moved == ApplyTransition(bare, s, "success", target, TRUE)
<1>1. Stored(r) /\ Stored(c) /\ Tame(r, c)
  BY ClearTrackerStored, CountersTame DEF Good
<1> HIDE DEF c
<1>2. c.waived \in [Stages -> BOOLEAN]
  BY <1>1 DEF Stored, RunState
<1>3. waived \in [Stages -> BOOLEAN]
  BY <1>2
<1>4. directed = [c EXCEPT !.waived = waived, !.status = "running",
                           !.pause = NoPause, !.failures = 0]
  BY <1>1 DEF Stored, RunState
<1> HIDE DEF waived, directed
<1>5. NoPause \in SavedPause /\ ~NoPause.saved
  BY PendingTyped DEF NoPause, SavedPause, Statuses, PendingTypes
<1>6. /\ directed \in RunState /\ directed.pause = NoPause
      /\ directed.gates = c.gates /\ directed.current = c.current /\ directed.cards = c.cards
  BY <1>1, <1>3, <1>4, <1>5 DEF Stored, RunState, Statuses
<1>7. Stored(directed)
  BY <1>1, <1>5, <1>6 DEF Stored
<1>8. /\ bare \in RunState /\ bare.current = 0 /\ bare.pause = NoPause
      /\ bare.cards \in Seq(Card) /\ bare.gates = directed.gates
  BY <1>6 DEF RunState, NoInvocation
<1>9. Stored(bare) /\ Pausable(bare)
  BY <1>5, <1>8 DEF Stored, Pausable
<1>10. Tame(c, directed) /\ Tame(directed, bare)
  BY <1>1, <1>6, <1>7, <1>8, SameGatesTame
<1> HIDE DEF bare
<1>11. Tame(bare, moved) /\ Stored(moved)
  BY <1>9, ApplyTransitionTame, ApplyTransitionGood DEF Good, Outcomes
<1>12. Tame(r, directed)
  BY <1>1, <1>7, <1>10, TameThen
<1>13. Tame(r, bare)
  BY <1>1, <1>7, <1>9, <1>10, <1>12, TameThen
<1>14. Tame(r, moved)
  BY <1>1, <1>9, <1>11, <1>13, TameThen
<1>15. GateWaived(r, s, target, coversGate) \in {directed, moved}
  BY DEF GateWaived, directed, bare, c
<1> QED
  BY <1>12, <1>14, <1>15

(* and so does a canceled run. *)
LEMMA CanceledTame ==
    ASSUME NEW r, Stored(r) PROVE Tame(r, Canceled(r))
<1>1. Canceled(r).gates = r.gates
  BY DEF Canceled, Finished, Stored, RunState
<1> QED
  BY <1>1, SameGatesTame

(* A pause, and the lift of one, change no gate.                           *)
LEMMA PauseTame ==
    ASSUME NEW r, Stored(r)
    PROVE  /\ Tame(r, Paused(SavePause(r)))
           /\ Tame(r, [r EXCEPT !.pending = Pending("operator_decision")])
<1>1. Paused(SavePause(r)).gates = r.gates
  BY DEF Paused, SavePause, Stored, RunState
<1>2. [r EXCEPT !.pending = Pending("operator_decision")].gates = r.gates
  BY DEF Stored, RunState
<1> QED
  BY <1>1, <1>2, SameGatesTame

(* A command from outside raises the bound by one whatever it leaves.      *)
LEMMA OutsideLoops ==
    ASSUME RunInv, LoopInv, NEW next, Good(next), Tame(run, next),
           FromOutside(next)
    PROVE  LoopInv'
<1> SUFFICES ASSUME NEW s \in Stages
             PROVE  run'.gates[s].failures <= EntryGateOf[s].maxLoops + interventions'
                        + (IF Held(run') THEN 1 ELSE 0)
  BY DEF LoopInv, LoopsPaid, Held
<1>1. run' = next /\ interventions' = interventions + 1 /\ interventions \in Nat
  BY DEF FromOutside, Persist, RunInv
<1>2. run.gates[s].failures \in Nat /\ next.gates[s].failures \in Nat
  BY DEF RunInv, Good, Stored, RunState, GateRecord
<1>3. run.gates[s].failures <= EntryGateOf[s].maxLoops + interventions
                                  + (IF Held(run) THEN 1 ELSE 0)
  BY DEF LoopInv, LoopsPaid
<1>4. next.gates[s].failures <= run.gates[s].failures /\ EntryGateOf[s].maxLoops \in Nat
  BY DEF Tame, EntryGate
<1> QED
  BY <1>1, <1>2, <1>3, <1>4

(* A command of the run itself starts from a run that is not held.         *)
LEMMA RunLoops ==
    ASSUME RunInv, LoopInv, NEW next, Good(next), ~Held(run),
           \A g \in Stages : CountsLoop(run, next, g), ByTheRun(next)
    PROVE  LoopInv'
<1> SUFFICES ASSUME NEW s \in Stages
             PROVE  run'.gates[s].failures <= EntryGateOf[s].maxLoops + interventions'
                        + (IF Held(run') THEN 1 ELSE 0)
  BY DEF LoopInv, LoopsPaid, Held
<1>1. run' = next /\ interventions' = interventions /\ interventions \in Nat
  BY DEF ByTheRun, Persist, RunInv
<1>2. run.gates[s].failures \in Nat /\ next.gates[s].failures \in Nat
  BY DEF RunInv, Good, Stored, RunState, GateRecord
<1>3. EntryGateOf[s].maxLoops \in Nat
  BY DEF EntryGate
<1>4. run.gates[s].failures <= EntryGateOf[s].maxLoops + interventions
  BY <1>1, <1>2, <1>3 DEF LoopInv, LoopsPaid
<1>5. CountsLoop(run, next, s)
  OBVIOUS
<1> QED
  BY <1>1, <1>2, <1>3, <1>4, <1>5 DEF CountsLoop

(* prepareInvocation counts a loop where the entry gate fails, and only there. *)
LEMMA PrepareLoops ==
    ASSUME RunInv, CardFits(run), LoopInv, Prepare PROVE LoopInv'
<1>1. /\ Good(run) /\ Stored(run) /\ run.status = "running" /\ ~Held(run)
      /\ run.stage \in Stages /\ run.stage # NoStage /\ run.current = NoInvocation
  BY AtAStage DEF RunInv, Good, Prepare, PrepareExhausted, PrepareInterrupted,
     PrepareGateFailed, PrepareProfilesFailed, PrepareInvocation, ReadyToPrepare, Terminal,
     CardFits, Held
<1> DEFINE n == Numbered(run)
           a == Admitted(n)
<1>2. /\ Stored(n) /\ n.stage = run.stage /\ n.gates = run.gates
      /\ n.status = "running" /\ Tame(run, n) /\ n.current = NoInvocation
  BY <1>1, NumberedStored, CountersTame DEF Beside, Numbered, Stored, RunState
<1> HIDE DEF n
<1>3. /\ Stored(a) /\ a.stage = run.stage /\ Tame(n, a) /\ a.status = "running"
  BY <1>1, <1>2, AdmittedStored, AdmittedTame DEF Beside, Admitted, Stored, RunState
<1> HIDE DEF a
<1>4. Tame(run, a)
  BY <1>1, <1>2, <1>3, TameThen
<1>5. ASSUME NEW next, Good(next), Tame(run, next), ByTheRun(next)
      PROVE  LoopInv'
  BY <1>1, <1>5, RunLoops DEF Tame, CountsLoop
<1>6. CASE PrepareExhausted
  BY <1>1, <1>5, <1>6, PauseForLimitGood, StopsTame DEF PrepareExhausted, Pausable
<1>7. CASE PrepareInterrupted
  <2>1. Good(Paused(n)) /\ Tame(n, Paused(n))
    BY <1>1, <1>2, PausedGood, StopsTame DEF Pausable
  <2>2. Tame(run, Paused(n))
    BY <1>1, <1>2, <2>1, TameThen DEF Good
  <2> QED
    BY <1>5, <1>7, <2>1, <2>2 DEF PrepareInterrupted, n
<1>8. CASE PrepareGateFailed
  <2> DEFINE q == RefusedByGate(n, run.stage)
  <2>1. Good(q) /\ \A g \in Stages : CountsLoop(n, q, g)
    BY <1>1, <1>2, RefusedByGateGood, RefusedCounts
  <2>2. ByTheRun(q)
    BY <1>8 DEF PrepareGateFailed, n
  <2> HIDE DEF q
  <2>3. \A g \in Stages : CountsLoop(run, q, g)
    BY <1>2, <2>1 DEF CountsLoop
  <2> QED
    BY <1>1, <2>1, <2>2, <2>3, RunLoops
<1>9. CASE PrepareProfilesFailed
  <2> DEFINE q == Follow(a, run.stage, "failure")
  <2>1. Good(q) /\ Tame(a, q)
    BY <1>1, <1>3, FollowGood, GatedTame DEF Outcomes, Pausable
  <2>2. ByTheRun(q)
    BY <1>9 DEF PrepareProfilesFailed, a, n
  <2> HIDE DEF q
  <2>3. Tame(run, q)
    BY <1>1, <1>3, <1>4, <2>1, TameThen DEF Good
  <2> QED
    BY <1>5, <2>1, <2>2, <2>3
<1>10. CASE PrepareInvocation
  <2> DEFINE q == CardIssued(a)
  <2>1. Good(q) /\ Tame(a, q)
    BY <1>1, <1>3, CardIssuedGood, CountersTame
  <2>2. ByTheRun(q)
    BY <1>10 DEF PrepareInvocation, a, n
  <2> HIDE DEF q
  <2>3. Tame(run, q)
    BY <1>1, <1>3, <1>4, <2>1, TameThen DEF Good
  <2> QED
    BY <1>5, <2>1, <2>2, <2>3
<1> QED
  BY <1>6, <1>7, <1>8, <1>9, <1>10 DEF Prepare

(* An answer or an assessment moves a run that is not held: there a card    *)
(* is out, also when a watch reports on it in a pause.                     *)
LEMMA OutcomeLoops ==
    ASSUME RunInv, LoopInv, Worker \/ EvidenceWatch \/ Supervisor PROVE LoopInv'
<1>0. Good(run) /\ Stored(run)
  BY DEF RunInv, Good
<1>1. ASSUME NEW next, Good(next), Tame(run, next), ByTheRun(next), ~Held(run)
      PROVE  LoopInv'
  BY <1>1, RunLoops DEF Tame, CountsLoop
<1>2. CASE Worker \/ EvidenceWatch
  <2>1. PICK outcome, reason, hasRecord, environmentBlocked :
            Answered(run', outcome, reason, hasRecord, environmentBlocked)
    BY <1>2, AnswersRecorded
  <2> DEFINE r == Recorded(run, outcome, reason, hasRecord)
             q == SettledSubmission(r, run.stage, outcome, reason, environmentBlocked)
  <2>2. /\ run.stage \in Stages /\ run.stage # NoStage /\ run.current # NoInvocation
        /\ outcome \in Outcomes /\ reason \in Signatures
        /\ hasRecord \in BOOLEAN /\ environmentBlocked \in BOOLEAN
        /\ run' = q
    BY <2>1 DEF Answered
  <2>3. Stored(r) /\ r.stage = run.stage /\ Tame(run, r)
    BY <1>0, <2>2, RecordedStored, CountersTame DEF Beside
  <2> HIDE DEF r
  <2>4. Good(q) /\ Tame(r, q)
    BY <2>2, <2>3, SettledSubmissionGood, SettledTame
  <2> HIDE DEF q
  <2>5. ByTheRun(q)
    BY <1>2, <2>2 DEF Worker, Submit, EvidenceWatch, EvidenceGateFailure, ByTheRun, Persist
  <2>6. Tame(run, q) /\ ~Held(run)
    BY <1>0, <2>2, <2>3, <2>4, TameThen DEF Good, Held
  <2> QED
    BY <1>1, <2>4, <2>5, <2>6
<1>3. CASE Supervisor
  <2>1. PICK verdict \in {"pass", "fail", "escalate"} : Assess(verdict)
    BY <1>3 DEF Supervisor
  <2>2. run.stage \in Stages /\ run.stage # NoStage /\ ~Held(run)
    BY <1>0, <2>1, AtAStage DEF Assess, Terminal, Held
  <2>3. /\ Good(Paused(run)) /\ Tame(run, Paused(run))
        /\ \A outcome \in Outcomes : /\ Good(Follow(run, run.stage, outcome))
                                      /\ Tame(run, Follow(run, run.stage, outcome))
    BY <1>0, <2>2, PausedGood, FollowGood, StopsTame, GatedTame DEF Pausable
  <2>4. (IF verdict = "pass" THEN "success" ELSE "failure") \in Outcomes
    BY DEF Outcomes
  <2> QED
    BY <1>1, <2>1, <2>2, <2>3, <2>4 DEF Assess
<1> QED
  BY <1>2, <1>3

(* The commands of the operator. *)
LEMMA OperatorLoops ==
    ASSUME RunInv, LoopInv, Operator PROVE LoopInv'
<1>0. Good(run) /\ Stored(run)
  BY DEF RunInv, Good
<1>1. CASE Approve \/ Revise \/ Reject \/ \E target \in Stages : RejectTo(target)
  <2>1. AwaitsDecision(run)
    BY <1>1 DEF Approve, Revise, Reject, RejectTo
  <2> QED
    BY <1>0, <1>1, <2>1, DecisionGood, DecisionTame, OutsideLoops
       DEF Approve, Revise, Reject, RejectTo
<1>2. CASE RecordLanded
  <2>1. run.stage \in Stages /\ run.stage # NoStage /\ FromOutside(LandedByHand(run))
    BY <1>0, <1>2 DEF RecordLanded, Stored, RunState
  <2>2. Good(LandedByHand(run)) /\ Tame(run, LandedByHand(run))
    BY <1>0, <2>1, ApplyTransitionGood, ApplyTransitionTame
       DEF LandedByHand, Pausable, Targets, TerminalTargets, Outcomes
  <2> QED
    BY <2>1, <2>2, OutsideLoops
<1>3. CASE PauseRun
  <2>1. Good(Paused(SavePause(run))) /\ Tame(run, Paused(SavePause(run)))
    BY <1>0, <1>3, SavePauseStored, PausedGood, PauseTame DEF PauseRun
  <2> QED
    BY <1>3, <2>1, OutsideLoops DEF PauseRun
<1>4. ASSUME NEW withNote \in BOOLEAN, NEW edited \in BOOLEAN, Resume(withNote, edited)
      PROVE  LoopInv'
  <2>1. run.status = "paused" /\ (withNote \/ edited) \in BOOLEAN
    BY <1>4 DEF Resume
  <2>2. CASE run.pause.saved
    <3>1. FromOutside(ResumedInPlace(run, withNote \/ edited))
      BY <1>4, <2>2 DEF Resume
    <3> QED
      BY <1>0, <2>1, <2>2, <3>1, ResumedInPlaceGood, ResumedTame, OutsideLoops
  <2>3. CASE ~run.pause.saved
    <3>1. FromOutside(ResumedAt(run, DefaultStage(run), FALSE, TRUE))
      BY <1>4, <2>3 DEF Resume
    <3>2. DefaultStage(run) \in Stages
      BY <1>0, DefaultStageTyped
    <3> QED
      BY <1>0, <2>1, <3>1, <3>2, ResumedAtGood, ResumedTame, OutsideLoops
  <2> QED
    BY <2>2, <2>3
<1>5. ASSUME NEW target \in Stages, NEW edited \in BOOLEAN, ResumeAt(target, edited)
      PROVE  LoopInv'
  BY <1>0, <1>5, ResumedAtGood, ResumedTame, OutsideLoops DEF ResumeAt
<1>6. ASSUME NEW target \in Stages, SetStage(target) PROVE LoopInv'
  BY <1>0, <1>6, StageSetGood, StageSetTame, OutsideLoops DEF SetStage
<1>7. ASSUME NEW s \in Stages, NEW target \in Targets, NEW coversGate \in BOOLEAN,
             WaiveGate(s, target, coversGate)
      PROVE  LoopInv'
  BY <1>0, <1>7, GateWaivedGood, GateWaivedTame, OutsideLoops DEF WaiveGate
<1>8. CASE AbortRun
  BY <1>0, <1>8, CanceledGood, CanceledTame, OutsideLoops DEF AbortRun
<1> QED
  BY <1>1, <1>2, <1>3, <1>4, <1>5, <1>6, <1>7, <1>8 DEF Operator

(* Away mode. *)
LEMMA AwayLoops ==
    ASSUME RunInv, LoopInv, Away PROVE LoopInv'
<1>0. Good(run) /\ Stored(run)
  BY DEF RunInv, Good
<1>1. CASE AwayRefused \/ \E action \in AwayActions, s \in Stages \cup {NoStage} :
                              AwayDecide(action, s)
  BY <1>1 DEF AwayRefused, AwayDecide, LoopInv, LoopsPaid, Held
<1>2. ASSUME NEW coversGate \in BOOLEAN, AwayApply(coversGate) PROVE LoopInv'
  <2>0. /\ plan.action \in AwayActions \cup {"none"}
        /\ plan.stage \in Stages \cup {NoStage}
    BY DEF RunInv, Plan
  <2>1. CASE plan.action \in {"approve", "reject", "revise"}
    <3>1. AwaitsDecision(run)
      BY <1>2, <2>1 DEF AwayApply
    <3> QED
      BY <1>0, <1>2, <2>1, <3>1, DecisionGood, DecisionTame, OutsideLoops DEF AwayApply
  <2>2. CASE plan.action = "resume"
    <3>1. run.status = "paused" /\ FromOutside(ResumedByAway(run, plan.stage))
      BY <1>2, <2>2 DEF AwayApply
    <3>2. DefaultStage(run) \in Stages
      BY <1>0, DefaultStageTyped
    <3>3. /\ Good(ResumedByAway(run, plan.stage))
          /\ Tame(run, ResumedByAway(run, plan.stage))
      BY <1>0, <2>0, <3>1, <3>2, ResumedAtGood, ResumedInPlaceGood, ResumedTame
         DEF ResumedByAway
    <3> QED
      BY <3>1, <3>3, OutsideLoops
  <2>3. CASE plan.action = "set-stage"
    <3>1. FromOutside(StageSet(run, plan.stage)) /\ plan.stage \in Stages
      BY <1>2, <2>3 DEF AwayApply, RunInv
    <3> QED
      BY <1>0, <3>1, StageSetGood, StageSetTame, OutsideLoops
  <2>4. CASE plan.action \notin {"approve", "reject", "revise", "resume", "set-stage"}
    <3>1. AwayWaives(coversGate)
      BY <1>2, <2>4 DEF AwayApply
    <3> QED
      BY <1>0, <3>1, WaiverStageTyped, GateWaivedGood, GateWaivedTame, OutsideLoops
         DEF AwayWaives
  <2> QED
    BY <2>1, <2>2, <2>3, <2>4
<1>3. CASE LiftOperatorOnly
  <2>1. run.status = "paused"
    BY <1>0, <1>3 DEF LiftOperatorOnly, OperatorOnly, Good, Named, Coherent, Stored, RunState, Statuses
  <2> DEFINE q == [run EXCEPT !.pending = Pending("operator_decision")]
  <2>2. q = Paused(run)
    BY <1>0, <2>1 DEF Paused, Stored, RunState
  <2>4. Good(Paused(run))
    BY <1>0, <2>1, PausedGood DEF Good
  <2>3. Tame(run, q) /\ FromOutside(q)
    BY <1>0, <1>3, PauseTame DEF LiftOperatorOnly
  <2> QED
    BY <2>2, <2>3, <2>4, OutsideLoops
<1> QED
  BY <1>1, <1>2, <1>3 DEF Away

(* A gate that keeps failing sends the run to repair at most max_loops     *)
(* times, and every failure of it after that needs one more command from   *)
(* outside: the pause of the last repair has no card out, so no watch can   *)
(* take the run on from it.                                                *)
THEOREM RepairsAreBounded == Spec => []RepairLoopsBounded
<1>1. Init => LoopInv
  <2> SUFFICES ASSUME Init, NEW s \in Stages
               PROVE  run.gates[s].failures <= EntryGateOf[s].maxLoops + interventions
                          + (IF Held(run) THEN 1 ELSE 0)
    BY DEF LoopInv, LoopsPaid
  <2>1. run.gates[s].failures = 0 /\ interventions = 0 /\ run.status = "running"
    BY DEF Init, InitialRun, NoGateRecord
  <2>2. EntryGateOf[s].maxLoops \in Nat
    BY DEF EntryGate
  <2> QED
    BY <2>1, <2>2
<1>2. RunInv /\ CardFits(run) /\ LoopInv /\ [Next]_vars => LoopInv'
  <2>1. ASSUME LoopInv, UNCHANGED vars PROVE LoopInv'
    BY <2>1 DEF vars, LoopInv, LoopsPaid, Held
  <2> QED
    BY <2>1, PrepareLoops, OutcomeLoops, OperatorLoops, AwayLoops DEF Next
<1>3. RunInv /\ LoopInv => RepairLoopsBounded
  <2> SUFFICES ASSUME RunInv, LoopInv, NEW s \in Stages
               PROVE  run.gates[s].failures <= EntryGateOf[s].maxLoops + interventions
                          + (IF run.status = "paused" THEN 1 ELSE 0)
    BY DEF RepairLoopsBounded
  <2>1. /\ run.gates[s].failures \in Nat /\ EntryGateOf[s].maxLoops \in Nat
        /\ interventions \in Nat
    BY DEF RunInv, Good, Stored, RunState, GateRecord, EntryGate
  <2>2. run.gates[s].failures <= EntryGateOf[s].maxLoops + interventions
                                    + (IF Held(run) THEN 1 ELSE 0)
    BY DEF LoopInv, LoopsPaid
  <2> QED
    BY <2>1, <2>2 DEF Held
<1> QED
  BY <1>1, <1>2, <1>3, RunInvariant, FitsInvariant, PTL DEF Spec

-----------------------------------------------------------------------------
(* What limits the failures of a run: its outcomes, the same-reason        *)
(* trackers and the long-horizon ladder.                                   *)
SameFailures(r, q) ==
    q.history = r.history /\ q.trackers = r.trackers /\ q.ladder = r.ladder

(* Pauses, ends and the next stage leave them alone, *)
LEMMA StopsSame ==
    ASSUME NEW r, Stored(r), NEW s, NEW target, NEW outcome, NEW directed
    PROVE  /\ SameFailures(r, Paused(r)) /\ SameFailures(r, PausedForOperatorOnly(r))
           /\ SameFailures(r, PauseForLimit(r)) /\ SameFailures(r, Finished(r, target))
           /\ SameFailures(r, Left(r, s, target)) /\ SameFailures(r, Entered(r, target))
           /\ SameFailures(r, AwaitApproval(r, outcome)) /\ SameFailures(r, AwaitAssessment(r))
           /\ SameFailures(r, Counted(r, outcome, directed))
<1>1. r \in RunState
  BY DEF Stored
<1>2. SameFailures(r, Paused(r)) /\ SameFailures(r, PausedForOperatorOnly(r))
  BY <1>1 DEF RunState, Paused, PausedForOperatorOnly, SameFailures
<1>3. SameFailures(r, PauseForLimit(r))
  BY <1>1, <1>2 DEF RunState, PauseForLimit, CandidateFailed, SameFailures
<1>4. SameFailures(r, Finished(r, target)) /\ SameFailures(r, Entered(r, target))
  BY <1>1 DEF RunState, Finished, Entered, SameFailures
<1>5. SameFailures(r, Left(r, s, target)) /\ SameFailures(r, Counted(r, outcome, directed))
  BY <1>1 DEF RunState, Left, Counted, SameFailures
<1>6. SameFailures(r, AwaitApproval(r, outcome)) /\ SameFailures(r, AwaitAssessment(r))
  BY <1>1 DEF RunState, AwaitApproval, AwaitAssessment, SameFailures
<1> QED
  BY <1>2, <1>3, <1>4, <1>5, <1>6

(* and so do attempts, cards and entry gates. *)
LEMMA GatesSame ==
    ASSUME NEW r, Stored(r), NEW s, NEW outcome, NEW override, NEW routedTo
    PROVE  /\ SameFailures(r, Numbered(r)) /\ SameFailures(r, CardIssued(r))
           /\ SameFailures(r, Admitted(r)) /\ SameFailures(r, GateFailed(r, s, routedTo))
           /\ SameFailures(r, AnswerRoute(r, s, outcome, override))
           /\ SameFailures(r, RouteClosedUnlessRunning(r, s))
<1>1. r \in RunState
  BY DEF Stored
<1>2. SameFailures(r, Numbered(r)) /\ SameFailures(r, CardIssued(r))
  BY <1>1 DEF RunState, Numbered, CardIssued, SameFailures
<1>3. SameFailures(r, Admitted(r)) /\ SameFailures(r, GateFailed(r, s, routedTo))
  BY <1>1 DEF RunState, Admitted, GateFailed, SameFailures
<1>4. SameFailures(r, AnswerRoute(r, s, outcome, override))
  BY <1>1 DEF RunState, AnswerRoute, SameFailures
<1>5. SameFailures(r, RouteClosedUnlessRunning(r, s))
  BY <1>1 DEF RunState, RouteClosedUnlessRunning, SameFailures
<1> QED
  BY <1>2, <1>3, <1>4, <1>5

(* applyTransition counts and moves, *)
LEMMA ApplyTransitionSame ==
    ASSUME NEW r, Stored(r), NEW s \in Stages, NEW outcome \in Outcomes,
           NEW override \in Targets \cup {NoOverride}, NEW directed \in BOOLEAN
    PROVE  SameFailures(r, ApplyTransition(r, s, outcome, override, directed))
<1> DEFINE counted == Counted(r, outcome, directed)
           target == NextTarget(counted, s, outcome, override)
           answered == AnswerRoute(counted, s, outcome, override)
           left == Left(answered, s, target)
           q == ApplyTransition(r, s, outcome, override, directed)
<1>1. Stored(counted) /\ Stored(answered) /\ Stored(left)
  BY CountedStored, AnswerRouteStored, LeftStored
<1>2. SameFailures(r, counted) /\ SameFailures(counted, answered)
  BY <1>1, StopsSame, GatesSame
<1>3. SameFailures(answered, left) /\ SameFailures(left, Entered(left, target))
  BY <1>1, StopsSame
<1>4. SameFailures(answered, PauseForLimit(answered)) /\ SameFailures(answered, Paused(answered))
      /\ SameFailures(answered, Finished(answered, target))
  BY <1>1, StopsSame
<1>5. q \in {PauseForLimit(answered), Paused(answered), Finished(answered, target), Entered(left, target)}
  BY DEF ApplyTransition, Moved
<1> HIDE DEF counted, target, answered, left, q
<1>6. SameFailures(r, q)
  BY <1>2, <1>3, <1>4, <1>5 DEF SameFailures
<1> QED
  BY <1>6 DEF q

(* with or without an operator gate. *)
LEMMA GatedSame ==
    ASSUME NEW r, Stored(r), NEW s \in Stages, NEW outcome \in Outcomes
    PROVE  SameFailures(r, Gated(r, s, outcome)) /\ SameFailures(r, Follow(r, s, outcome))
BY StopsSame, ApplyTransitionSame DEF Gated, Follow

(* A failed entry gate is no outcome. *)
LEMMA RefusedSame ==
    ASSUME NEW r, Stored(r), r.stage # NoStage, NEW s \in Stages
    PROVE  SameFailures(r, RefusedByGate(r, s))
<1> DEFINE gate == EntryGateOf[s]
           routedTo == IF gate.route = "direct" THEN gate.repair ELSE NoStage
           failed(to) == GateFailed(r, s, to)
           moved == ApplyTransition(failed(routedTo), s, "failure", gate.repair, FALSE)
           q == RefusedByGate(r, s)
<1>1. gate.repair \in Targets /\ routedTo \in Stages \cup {NoStage}
  BY DEF EntryGate, Targets
<1>2. q \in {PausedForOperatorOnly(failed(NoStage)), RouteClosedUnlessRunning(moved, s)}
  BY DEF RefusedByGate
<1>3. \A to \in Stages \cup {NoStage} :
          Stored(failed(to)) /\ Pausable(failed(to)) /\ SameFailures(r, failed(to))
  BY GateFailedStored, GatesSame DEF Beside, Pausable
<1> HIDE DEF routedTo, failed
<1>4. SameFailures(failed(NoStage), PausedForOperatorOnly(failed(NoStage)))
  BY <1>3, StopsSame
<1>5. SameFailures(failed(routedTo), moved) /\ Stored(moved)
  BY <1>1, <1>3, ApplyTransitionSame, ApplyTransitionGood DEF Outcomes, Good
<1> HIDE DEF moved
<1>6. SameFailures(moved, RouteClosedUnlessRunning(moved, s))
  BY <1>5, GatesSame
<1>7. SameFailures(r, failed(NoStage)) /\ SameFailures(r, failed(routedTo))
  BY <1>1, <1>3
<1> HIDE DEF q
<1>8. SameFailures(r, q)
  BY <1>2, <1>4, <1>5, <1>6, <1>7 DEF SameFailures
<1> QED
  BY <1>8 DEF q

(* Preparing and assessing record no outcome. *)
LEMMA PrepareSame ==
    ASSUME RunInv, Prepare
    PROVE  SameFailures(run, run') /\ run.status = "running" /\ interventions' = interventions
<1>1. /\ Stored(run) /\ run.status = "running"
      /\ run.stage \in Stages /\ run.stage # NoStage
  BY AtAStage DEF RunInv, Good, Prepare, PrepareExhausted, PrepareInterrupted,
     PrepareGateFailed, PrepareProfilesFailed, PrepareInvocation, ReadyToPrepare,
     Terminal
<1> DEFINE n == Numbered(run)
           a == Admitted(n)
<1>2. Stored(n) /\ n.stage = run.stage /\ SameFailures(run, n)
  BY <1>1, NumberedStored, GatesSame DEF Beside
<1>3. Stored(a) /\ SameFailures(n, a)
  BY <1>1, <1>2, AdmittedStored, GatesSame DEF Beside
<1>4. \/ ByTheRun(PauseForLimit(run))
      \/ ByTheRun(Paused(n))
      \/ ByTheRun(RefusedByGate(n, run.stage))
      \/ ByTheRun(Follow(a, run.stage, "failure"))
      \/ ByTheRun(CardIssued(a))
  BY DEF Prepare, PrepareExhausted, PrepareInterrupted, PrepareGateFailed,
         PrepareProfilesFailed, PrepareInvocation
<1>5. /\ run' \in {PauseForLimit(run), Paused(n), RefusedByGate(n, run.stage),
                   Follow(a, run.stage, "failure"), CardIssued(a)}
      /\ interventions' = interventions
  BY <1>4 DEF ByTheRun, Persist
<1> HIDE DEF n, a
<1>6. SameFailures(run, PauseForLimit(run)) /\ SameFailures(n, Paused(n))
  BY <1>1, <1>2, StopsSame
<1>7. SameFailures(n, RefusedByGate(n, run.stage))
  BY <1>1, <1>2, RefusedSame
<1>8. SameFailures(a, Follow(a, run.stage, "failure")) /\ SameFailures(a, CardIssued(a))
  BY <1>1, <1>3, GatedSame, GatesSame DEF Outcomes
<1> QED
  BY <1>1, <1>2, <1>3, <1>5, <1>6, <1>7, <1>8 DEF SameFailures

(* The supervisor's verdict on an outcome is not one more outcome. *)
LEMMA SupervisorSame ==
    ASSUME RunInv, Supervisor
    PROVE  /\ SameFailures(run, run') /\ run.status = "awaiting_supervisor"
           /\ interventions' = interventions
<1>1. PICK verdict \in {"pass", "fail", "escalate"} : Assess(verdict)
  BY DEF Supervisor
<1>2. run.status = "awaiting_supervisor" /\ Stored(run) /\ run.stage \in Stages
  BY <1>1, AtAStage DEF Assess, RunInv, Good, Terminal
<1> DEFINE o == IF verdict = "pass" THEN "success" ELSE "failure"
<1>3. run' \in {Paused(run), Follow(run, run.stage, o)} /\ interventions' = interventions
  BY <1>1 DEF Assess, ByTheRun, Persist
<1>4. o \in Outcomes
  BY DEF Outcomes
<1> HIDE DEF o
<1>5. SameFailures(run, Paused(run)) /\ SameFailures(run, Follow(run, run.stage, o))
  BY <1>2, <1>4, StopsSame, GatedSame
<1> QED
  BY <1>2, <1>3, <1>5

(* A command from outside is counted, and a decision of away mode that is  *)
(* not applied changes nothing of the run.                                 *)
LEMMA OutsideCounts ==
    ASSUME RunInv, Operator \/ Away
    PROVE  interventions' # 0 \/ (run' = run /\ interventions' = interventions)
<1> DEFINE Counts == interventions' = interventions + 1
<1>1. interventions \in Nat
  BY BoundsAssumption DEF RunInv, TypeOK
<1>2. ASSUME NEW next, FromOutside(next) PROVE Counts
  BY <1>2 DEF FromOutside
<1>3. CASE Operator
  <2>1. Counts
    BY <1>2, <1>3 DEF Operator, Approve, Revise, Reject, RejectTo, RecordLanded, PauseRun,
       Resume, ResumeAt, SetStage, WaiveGate, AbortRun
  <2> QED
    BY <1>1, <2>1
<1>4. CASE Away
  <2>1. CASE \E action \in AwayActions, s \in Stages \cup {NoStage} : AwayDecide(action, s)
    BY <2>1 DEF AwayDecide
  <2>2. CASE \E coversGate \in BOOLEAN : AwayApply(coversGate)
    <3>1. Counts
      BY <1>2, <2>2 DEF AwayApply, AwayWaives
    <3> QED
      BY <1>1, <3>1
  <2>3. CASE AwayRefused
    BY <2>3 DEF AwayRefused
  <2>4. CASE LiftOperatorOnly
    BY <1>1, <1>2, <2>4 DEF LiftOperatorOnly
  <2> QED
    BY <1>4, <2>1, <2>2, <2>3, <2>4 DEF Away
<1> QED
  BY <1>3, <1>4

(* A failure climbs the ladder by one rung, or the ladder stops the run. *)
LEMMA HorizonFailureClimbs ==
    ASSUME NEW r, Stored(r), r.stage # NoStage, NEW s \in Stages, NEW reason \in Signatures
    PROVE  LET q == HorizonFailure(r, s, reason) IN
           /\ SameFailures(Climbed(r, reason), q)
           /\ q.status = "paused" \/ RetriesHorizon(r, reason) \/ SwitchesStrategy(r, s)
<1> DEFINE climbed == Climbed(r, reason)
           stopped == [Paused(climbed) EXCEPT !.current = NoInvocation]
           q == HorizonFailure(r, s, reason)
<1>1. Stored(climbed)
  BY ClimbedStored
<1>2. s \in Targets /\ OnOutcome[s]["failure"] \in Targets
  BY DEF Targets, Outcomes
<1>3. \/ q = stopped
      \/ /\ \E target \in Targets : q = ApplyTransition(climbed, s, "failure", target, FALSE)
         /\ RetriesHorizon(r, reason) \/ SwitchesStrategy(r, s)
  BY <1>2 DEF HorizonFailure
<1> HIDE DEF climbed
<1>4. stopped.status = "paused" /\ SameFailures(climbed, stopped)
  BY <1>1 DEF Stored, RunState, Paused, SameFailures
<1>5. \A target \in Targets :
          SameFailures(climbed, ApplyTransition(climbed, s, "failure", target, FALSE))
  BY <1>1, ApplyTransitionSame DEF Outcomes
<1> HIDE DEF stopped, q
<1>6. SameFailures(climbed, q)
      /\ (q.status = "paused" \/ RetriesHorizon(r, reason) \/ SwitchesStrategy(r, s))
  BY <1>3, <1>4, <1>5
<1> QED
  BY <1>6 DEF climbed, q

(* How the failures of a run change when an outcome is settled.  Without   *)
(* the ladder a tracked failure is remembered with its reason, and one     *)
(* that covers the reason of the last stops the run; with it a failure     *)
(* climbs.                                                                 *)
Stopped(r) == r.status \in {"paused", "failed"}
Repeats(r, s, reason) == CoversPrior(r, s, reason) /\ r.trackers[s].repeats >= 1
Remembers(r, q, s, outcome, reason) ==
    /\ \A t \in Stages \ {s} : q.trackers[t] = r.trackers[t]
    /\ outcome = "failure" /\ SameReasonTracked(s) =>
           /\ q.trackers[s].signature = reason /\ q.trackers[s].repeats >= 1
           /\ ~Repeats(r, s, reason)
Climbs(r, q, s, outcome, reason) ==
    \/ q.ladder = r.ladder /\ (outcome = "failure" => q.status = "paused")
    \/ /\ outcome = "failure" /\ q.ladder = Climbed(r, reason).ladder
       /\ q.status = "paused" \/ RetriesHorizon(r, reason) \/ SwitchesStrategy(r, s)

(* A tracked failure of a run without the ladder. *)
LEMMA TrackedRemembers ==
    ASSUME NEW r, Stored(r), r.stage # NoStage, NEW s \in Stages, NEW reason \in Signatures,
           SameReasonTracked(s), ~LongHorizon
    PROVE  LET q == FailedOutcome(r, s, reason) IN
           q.history = r.history /\ (Stopped(q) \/ Remembers(r, q, s, "failure", reason))
<1> DEFINE n == IF CoversPrior(r, s, reason) THEN r.trackers[s].repeats + 1 ELSE 1
           tracker == [signature |-> reason, repeats |-> n]
           t == Tracked(r, s, reason)
           q == FailedOutcome(r, s, reason)
<1>1. Stored(t) /\ t.stage # NoStage
  BY TrackedStored DEF Beside
<1>2. r.trackers \in [Stages -> Tracker] /\ r.trackers[s] \in Tracker
  BY DEF Stored, RunState
<1>3. t.trackers = [r.trackers EXCEPT ![s] = tracker] /\ t.history = r.history
  BY DEF Tracked, Stored, RunState
<1>4. tracker.signature = reason /\ tracker.repeats = n
  OBVIOUS
<1>5. r.trackers[s].repeats \in Nat
  BY <1>2 DEF Tracker
<1>6. n >= 1 /\ (n < 2 => ~Repeats(r, s, reason))
  BY <1>5 DEF Repeats
<1>7. q = IF t.trackers[s].repeats >= 2 THEN PauseForLimit(t) ELSE Gated(t, s, "failure")
  BY DEF FailedOutcome
<1> HIDE DEF n, tracker, t, q
<1>8. t.trackers[s] = tracker /\ \A u \in Stages \ {s} : t.trackers[u] = r.trackers[u]
  BY <1>2, <1>3
<1>9. CASE t.trackers[s].repeats >= 2
  <2>1. SameFailures(t, PauseForLimit(t))
    BY <1>1, StopsSame
  <2>2. PauseForLimit(t).status \in {"paused", "failed"}
    BY <1>1 DEF PauseForLimit, CandidateFailed, Paused, Stored, RunState
  <2>3. q.history = r.history /\ Stopped(q)
    BY <1>3, <1>7, <1>9, <2>1, <2>2 DEF SameFailures, Stopped
  <2> QED
    BY <2>3 DEF q
<1>10. CASE ~(t.trackers[s].repeats >= 2)
  <2>1. SameFailures(t, q)
    BY <1>1, <1>7, <1>10, GatedSame DEF Outcomes
  <2>2. n < 2
    BY <1>4, <1>5, <1>8, <1>10 DEF n
  <2>3. q.history = r.history /\ Remembers(r, q, s, "failure", reason)
    BY <1>3, <1>4, <1>6, <1>8, <2>1, <2>2 DEF SameFailures, Remembers
  <2> QED
    BY <2>3 DEF q
<1> QED
  BY <1>9, <1>10

(* Any settled outcome. *)
LEMMA SettledRemembers ==
    ASSUME NEW r, Stored(r), r.stage # NoStage, NEW s \in Stages, NEW outcome \in Outcomes,
           NEW reason \in Signatures, NEW environmentBlocked \in BOOLEAN
    PROVE  LET q == SettledSubmission(r, s, outcome, reason, environmentBlocked) IN
           /\ q.history = r.history
           /\ ~LongHorizon => Stopped(q) \/ Remembers(r, q, s, outcome, reason)
           /\ LongHorizon => Climbs(r, q, s, outcome, reason)
<1> DEFINE c == ClearTracker(r, s)
           q == SettledSubmission(r, s, outcome, reason, environmentBlocked)
<1> SUFFICES /\ q.history = r.history
             /\ ~LongHorizon => Stopped(q) \/ Remembers(r, q, s, outcome, reason)
             /\ LongHorizon => Climbs(r, q, s, outcome, reason)
  OBVIOUS
<1>1. r.trackers \in [Stages -> Tracker]
  BY DEF Stored, RunState
<1>2. CASE environmentBlocked /\ outcome # "success"
  <2>1. q = Paused(r) /\ SameFailures(r, Paused(r)) /\ Paused(r).status = "paused"
    BY <1>2, StopsSame DEF SettledSubmission, Paused, Stored, RunState
  <2> HIDE DEF q
  <2> QED
    BY <2>1 DEF SameFailures, Stopped, Climbs
<1>3. CASE ~(environmentBlocked /\ outcome # "success") /\ outcome = "failure"
  <2>1. q = FailedOutcome(r, s, reason)
    BY <1>3 DEF SettledSubmission
  <2> HIDE DEF q
  <2>2. CASE LongHorizon
    <3>1. q = HorizonFailure(r, s, reason)
      BY <2>1, <2>2 DEF FailedOutcome
    <3>2. Climbed(r, reason).history = r.history
      BY DEF Climbed, Stored, RunState
    <3> QED
      BY <1>3, <2>2, <3>1, <3>2, HorizonFailureClimbs DEF SameFailures, Climbs
  <2>3. CASE ~LongHorizon /\ SameReasonTracked(s)
    BY <1>3, <2>1, <2>3, TrackedRemembers
  <2>4. CASE ~LongHorizon /\ ~SameReasonTracked(s)
    <3>1. SameFailures(r, q)
      BY <2>1, <2>4, GatedSame DEF FailedOutcome, Outcomes
    <3> QED
      BY <2>4, <3>1 DEF SameFailures, Remembers
  <2> QED
    BY <2>2, <2>3, <2>4, ContractAssumption
<1>4. CASE outcome # "failure" /\ ~(environmentBlocked /\ outcome # "success")
  <2>1. q \in {AwaitAssessment(r), Gated(c, s, outcome), Gated(r, s, outcome)}
    BY <1>4 DEF SettledSubmission
  <2>2. Stored(c)
    BY ClearTrackerStored
  <2>3. /\ c.history = r.history /\ c.ladder = r.ladder
        /\ c.trackers = [r.trackers EXCEPT ![s] = NoTracker]
    BY DEF ClearTracker, Stored, RunState
  <2> HIDE DEF c, q
  <2>4. SameFailures(c, q) \/ SameFailures(r, q)
    <3>1. SameFailures(r, AwaitAssessment(r))
      BY StopsSame
    <3>2. SameFailures(r, Gated(r, s, outcome)) /\ SameFailures(c, Gated(c, s, outcome))
      BY <2>2, GatedSame
    <3> QED
      BY <2>1, <3>1, <3>2
  <2>5. \A t \in Stages \ {s} : c.trackers[t] = r.trackers[t]
    BY <1>1, <2>3
  <2>6. q.history = r.history /\ q.ladder = r.ladder
        /\ \A t \in Stages \ {s} : q.trackers[t] = r.trackers[t]
    BY <2>3, <2>4, <2>5 DEF SameFailures
  <2> QED
    BY <1>4, <2>6 DEF Remembers, Climbs
<1> QED
  BY <1>2, <1>3, <1>4

(* Same reasons, and the failure a tracked stage has to remember: its last *)
(* outcome, when it failed for a reason.                                   *)
PairOf(h, i, j) ==
    LET a == h[i]
        b == h[j]
    IN /\ i < j /\ a.stage = b.stage /\ SameReasonTracked(a.stage)
       /\ a.outcome = "failure" /\ b.outcome = "failure"
       /\ a.reason # {} /\ a.reason \subseteq b.reason
       /\ \A k \in i + 1 .. j - 1 : h[k].stage # a.stage
NoPair(h) == \A i, j \in 1 .. Len(h) : ~PairOf(h, i, j)
PairAtEnd(h) == \A i, j \in 1 .. Len(h) : PairOf(h, i, j) => j = Len(h)

LastFailed(h, i) ==
    /\ h[i].outcome = "failure" /\ h[i].reason # {} /\ SameReasonTracked(h[i].stage)
    /\ \A k \in i + 1 .. Len(h) : h[k].stage # h[i].stage
Remembered(r) ==
    \A i \in 1 .. Len(r.history) :
        LastFailed(r.history, i) =>
            /\ r.trackers[r.history[i].stage].signature = r.history[i].reason
            /\ r.trackers[r.history[i].stage].repeats >= 1

ReasonsKept(r) ==
    \/ Stopped(r) /\ PairAtEnd(r.history)
    \/ NoPair(r.history) /\ Remembered(r)
Unattended == interventions = 0 /\ AllRecorded(run)
ReasonInv == Unattended /\ ~LongHorizon => ReasonsKept(run)

(* An outcome that repeats no remembered reason makes no pair. *)
LEMMA AppendMakesNoPair ==
    ASSUME NEW r, r.history \in Seq(HistoryItem), NEW item \in HistoryItem,
           NEW q, q.history = Append(r.history, item),
           NoPair(r.history), Remembered(r),
           Remembers(r, q, item.stage, item.outcome, item.reason)
    PROVE  NoPair(q.history) /\ Remembered(q)
<1> DEFINE h == r.history
           g == q.history
           n == Len(r.history)
<1>1. n \in Nat /\ Len(g) = n + 1 /\ g[n + 1] = item /\ \A i \in 1 .. n : g[i] = h[i]
  OBVIOUS
<1>2. \A i \in 1 .. n : h[i] \in HistoryItem /\ h[i].stage \in Stages
  <2>1. \A i \in 1 .. n : h[i] \in HistoryItem
    OBVIOUS
  <2> QED
    BY <2>1 DEF HistoryItem
<1>3. item.stage \in Stages
  BY DEF HistoryItem
<1> HIDE DEF h, g, n
<1>4. ASSUME NEW i \in 1 .. n + 1, NEW j \in 1 .. n + 1, PairOf(g, i, j) PROVE FALSE
  <2>1. i < j /\ i \in 1 .. n
    BY <1>1, <1>4 DEF PairOf
  <2>2. CASE j \in 1 .. n
    <3>1. PairOf(h, i, j)
      <4>1. \A k \in i + 1 .. j - 1 : k \in 1 .. n
        BY <1>1, <2>1, <2>2
      <4> QED
        BY <1>1, <1>4, <2>1, <2>2, <4>1 DEF PairOf
    <3> QED
      BY <1>1, <2>1, <2>2, <3>1 DEF NoPair, h, n
  <2>3. CASE j = n + 1
    <3>1. \A k \in i + 1 .. n : k \in i + 1 .. j - 1 /\ k \in 1 .. n
      BY <1>1, <2>1, <2>3
    <3>2. LastFailed(h, i) /\ h[i].stage = item.stage /\ h[i].reason \subseteq item.reason
          /\ item.outcome = "failure" /\ SameReasonTracked(item.stage)
      <4>1. g[i] = h[i] /\ g[j] = item
        BY <1>1, <2>1, <2>3
      <4>2. \A k \in i + 1 .. n : h[k].stage # h[i].stage
        BY <1>1, <1>4, <3>1, <4>1 DEF PairOf
      <4> QED
        BY <1>4, <4>1, <4>2 DEF PairOf, LastFailed, n, h
    <3>3. /\ r.trackers[item.stage].signature = h[i].reason
          /\ r.trackers[item.stage].repeats >= 1
      BY <2>1, <3>2 DEF Remembered, h, n
    <3>4. Repeats(r, item.stage, item.reason)
      BY <3>2, <3>3 DEF Repeats, CoversPrior, LastFailed
    <3> QED
      BY <3>2, <3>4 DEF Remembers
  <2> QED
    BY <1>1, <2>2, <2>3
<1>5. ASSUME NEW i \in 1 .. n + 1, LastFailed(g, i)
      PROVE  q.trackers[g[i].stage].signature = g[i].reason
             /\ q.trackers[g[i].stage].repeats >= 1
  <2>1. CASE i = n + 1
    BY <1>1, <1>5, <2>1 DEF LastFailed, Remembers
  <2>2. CASE i \in 1 .. n
    <3>1. g[i] = h[i] /\ n + 1 \in i + 1 .. n + 1 /\ \A k \in i + 1 .. n : k \in i + 1 .. n + 1 /\ k \in 1 .. n
      BY <1>1, <2>2
    <3>2. LastFailed(h, i) /\ h[i].stage # item.stage
      BY <1>1, <1>5, <3>1 DEF LastFailed, n, h
    <3>3. /\ r.trackers[h[i].stage].signature = h[i].reason
          /\ r.trackers[h[i].stage].repeats >= 1
      BY <2>2, <3>2 DEF Remembered, h, n
    <3>4. q.trackers[h[i].stage] = r.trackers[h[i].stage]
      BY <1>2, <2>2, <3>2 DEF Remembers
    <3> QED
      BY <3>1, <3>3, <3>4
  <2> QED
    BY <1>1, <2>1, <2>2
<1> QED
  BY <1>1, <1>4, <1>5 DEF NoPair, Remembered, g

(* Without a pair, one more outcome can only make one at the end. *)
LEMMA AppendPairsAtEnd ==
    ASSUME NEW h \in Seq(HistoryItem), NEW item, NoPair(h)
    PROVE  PairAtEnd(Append(h, item))
<1> DEFINE g == Append(h, item)
           n == Len(h)
<1>1. n \in Nat /\ Len(g) = n + 1 /\ \A i \in 1 .. n : g[i] = h[i]
  OBVIOUS
<1> HIDE DEF g, n
<1>2. ASSUME NEW i \in 1 .. n + 1, NEW j \in 1 .. n + 1, PairOf(g, i, j), j # n + 1
      PROVE  FALSE
  <2>1. i < j
    BY <1>2 DEF PairOf
  <2>2. i \in 1 .. n /\ j \in 1 .. n /\ \A k \in i + 1 .. j - 1 : k \in 1 .. n
    BY <1>1, <1>2, <2>1
  <2>3. PairOf(h, i, j)
    BY <1>1, <1>2, <2>2 DEF PairOf
  <2> QED
    BY <2>2, <2>3 DEF NoPair, n
<1>3. PairAtEnd(g)
  BY <1>1, <1>2 DEF PairAtEnd
<1> QED
  BY <1>3 DEF g

(* A shorter history was recorded without late reports too. *)
LEMMA RecordedBefore ==
    ASSUME NEW r, NEW q, r.history \in Seq(HistoryItem), NEW item,
           q.history = Append(r.history, item), AllRecorded(q)
    PROVE  AllRecorded(r) /\ item.hasRecord
<1>1. Len(r.history) \in Nat /\ Len(q.history) = Len(r.history) + 1
      /\ q.history[Len(r.history) + 1] = item
      /\ \A i \in 1 .. Len(r.history) : q.history[i] = r.history[i]
  OBVIOUS
<1>2. ASSUME NEW i \in 1 .. Len(r.history) PROVE r.history[i].hasRecord
  <2>1. i \in 1 .. Len(q.history)
    BY <1>1
  <2> QED
    BY <1>1, <2>1 DEF AllRecorded
<1> QED
  BY <1>1, <1>2 DEF AllRecorded

(* The failures a run remembers are those it has to. *)
LEMMA ReasonsInvariant == Spec => []ReasonInv
<1>1. Init => ReasonInv
  <2> SUFFICES ASSUME Init PROVE ReasonsKept(run)
    BY DEF ReasonInv
  <2>1. Len(run.history) = 0
    BY DEF Init, InitialRun
  <2> QED
    BY <2>1 DEF ReasonsKept, NoPair, Remembered
<1>2. RunInv /\ ReasonInv /\ [Next]_vars => ReasonInv'
  <2> SUFFICES ASSUME RunInv, ReasonInv, [Next]_vars, Unattended', ~LongHorizon
               PROVE  ReasonsKept(run')
    BY DEF ReasonInv
  <2>1. CASE run' = run /\ interventions' = interventions
    <3>1. Unattended
      BY <2>1 DEF Unattended
    <3> QED
      BY <2>1, <3>1 DEF ReasonInv
  <2>2. CASE Prepare \/ Supervisor
    <3>1. SameFailures(run, run') /\ run.status \in {"running", "awaiting_supervisor"}
          /\ interventions' = interventions
      BY <2>2, PrepareSame, SupervisorSame
    <3>2. Unattended
      BY <3>1 DEF Unattended, AllRecorded, SameFailures
    <3>3. NoPair(run.history) /\ Remembered(run)
      BY <3>1, <3>2 DEF ReasonInv, ReasonsKept, Stopped
    <3> QED
      BY <3>1, <3>3 DEF ReasonsKept, Remembered, SameFailures
  <2>3. CASE Worker \/ EvidenceWatch
    <3>1. PICK outcome, reason, hasRecord, environmentBlocked :
              Answered(run', outcome, reason, hasRecord, environmentBlocked)
      BY <2>3, AnswersRecorded
    <3> DEFINE recorded == Recorded(run, outcome, reason, hasRecord)
    <3>2. PICK item \in HistoryItem : item = Outcome(outcome, reason, hasRecord)
      BY <3>1, RecordedAppends
    <3>3. /\ run.stage \in Stages /\ run.stage # NoStage /\ outcome \in Outcomes
          /\ reason \in Signatures /\ environmentBlocked \in BOOLEAN
          /\ run' = SettledSubmission(recorded, run.stage, outcome, reason,
                                      environmentBlocked)
          /\ interventions' = interventions
          /\ hasRecord = TRUE => run.status = "running"
          /\ hasRecord \in BOOLEAN
      BY <3>1 DEF Answered
    <3>4. /\ item.stage = run.stage /\ item.outcome = outcome /\ item.reason = reason
          /\ item.hasRecord = hasRecord /\ run.history \in Seq(HistoryItem)
          /\ Stored(recorded) /\ recorded.stage = run.stage
          /\ recorded.history = Append(run.history, item)
          /\ recorded.trackers = run.trackers
      BY <3>1, <3>2, RecordedAppends
    <3> HIDE DEF recorded
    <3>5. run'.history = recorded.history
          /\ (Stopped(run') \/ Remembers(recorded, run', run.stage, outcome, reason))
      BY <3>3, <3>4, SettledRemembers
    <3>6. run'.history = Append(run.history, item)
      BY <3>4, <3>5
    <3>7. AllRecorded(run) /\ run.status = "running"
      <4>1. AllRecorded(run')
        BY DEF Unattended, AllRecorded
      <4>2. AllRecorded(run) /\ item.hasRecord
        BY <3>4, <3>6, <4>1, RecordedBefore
      <4> QED
        BY <3>3, <3>4, <4>2
    <3>8. NoPair(run.history) /\ Remembered(run)
      BY <3>3, <3>7 DEF ReasonInv, ReasonsKept, Stopped, Unattended
    <3>9. CASE Stopped(run')
      BY <3>4, <3>6, <3>8, <3>9, AppendPairsAtEnd DEF ReasonsKept
    <3>10. CASE Remembers(recorded, run', run.stage, outcome, reason)
      <4>1. Remembers(run, run', item.stage, item.outcome, item.reason)
        BY <3>4, <3>10 DEF Remembers, Repeats, CoversPrior
      <4> QED
        BY <3>4, <3>6, <3>8, <4>1, AppendMakesNoPair DEF ReasonsKept
    <3> QED
      BY <3>5, <3>9, <3>10
  <2>4. CASE Operator \/ Away
    <3>1. interventions' = 0
      BY DEF Unattended
    <3> QED
      BY <2>1, <2>4, <3>1, OutsideCounts
  <2>5. CASE UNCHANGED vars
    BY <2>1, <2>5 DEF vars
  <2> QED
    BY <2>2, <2>3, <2>4, <2>5 DEF Next
<1> QED
  BY <1>1, <1>2, RunInvariant, PTL DEF Spec

(* No unattended run without the ladder goes on after a tracked stage has  *)
(* failed twice in a row for the same deterministic reason, whatever other *)
(* stages, repairs and gates lie between the two failures: the tracker     *)
(* recordSameReasonFailure keeps holds the reason of the last one.         *)
THEOREM ReasonsStop == Spec => []SameReasonStops
<1>1. RunInv /\ ReasonInv => SameReasonStops
  <2> SUFFICES ASSUME RunInv, ReasonInv, interventions = 0, ReportsRecorded = 0, ~LongHorizon,
                      NEW i \in 1 .. Len(run.history), NEW j \in 1 .. Len(run.history),
                      SameReasonPair(i, j)
               PROVE  j = Len(run.history) /\ run.status \in {"paused", "failed"}
    BY DEF SameReasonStops
  <2> DEFINE Late == {k \in 1 .. Len(run.history) : ~run.history[k].hasRecord}
  <2>1. Len(run.history) \in Nat
    BY DEF RunInv, Good, Stored, RunState
  <2>2. IsFiniteSet(Late)
    <3>1. \A n \in Nat : IsFiniteSet(1 .. n)
      BY FS_Interval
    <3>2. Late \in SUBSET (1 .. Len(run.history))
      OBVIOUS
    <3> QED
      BY <2>1, <3>1, <3>2, FS_Subset
  <2>3. Cardinality(Late) = 0
    BY DEF ReportsRecorded
  <2>4. Late = {}
    BY <2>2, <2>3, FS_EmptySet
  <2>5. Unattended
    BY <2>4 DEF Unattended, AllRecorded
  <2>6. PairOf(run.history, i, j)
    BY DEF SameReasonPair, PairOf
  <2> QED
    BY <2>5, <2>6 DEF ReasonInv, ReasonsKept, NoPair, PairAtEnd, Stopped
<1> QED
  BY <1>1, ReasonsInvariant, RunInvariant, PTL

-----------------------------------------------------------------------------
(* The ladder.  Until it stops the run, each failed card of an unattended  *)
(* run is one rung: one of two retries, or the change of strategy.  The    *)
(* card whose failure found no rung stays, if at all, in the paused run;   *)
(* a watch that reports on it once more moves the run on by a rung or not. *)
Failed(h) == {i \in 1 .. Len(h) : h[i].outcome = "failure"}
FailedCards(h) == {h[i].id : i \in Failed(h)}
Rungs(r) == r.ladder.retries + (IF r.ladder.switched THEN 1 ELSE 0)
RungsKept(r) ==
    /\ IsFiniteSet(FailedCards(r.history)) /\ r.ladder.retries <= 2
    /\ \/ Cardinality(FailedCards(r.history)) <= Rungs(r)
       \/ /\ Cardinality(FailedCards(r.history)) <= Rungs(r) + 1 /\ r.status = "paused"
          /\ r.current = NoInvocation \/ r.current \in FailedCards(r.history)
LadderInv == interventions = 0 /\ LongHorizon => RungsKept(run)

(* One more outcome is at most one more failed card. *)
LEMMA AppendCounts ==
    ASSUME NEW h \in Seq(HistoryItem), NEW item, IsFiniteSet(FailedCards(h))
    PROVE  LET d == FailedCards(h)
               e == FailedCards(Append(h, item))
           IN /\ IsFiniteSet(e) /\ Cardinality(d) \in Nat /\ Cardinality(e) \in Nat
              /\ item.outcome # "failure" => e = d
              /\ item.outcome = "failure" =>
                     /\ item.id \in e /\ Cardinality(e) <= Cardinality(d) + 1
                     /\ item.id \in d => Cardinality(e) = Cardinality(d)
<1> DEFINE g == Append(h, item)
           n == Len(h)
           d == FailedCards(h)
           e == FailedCards(g)
<1>1. n \in Nat /\ Len(g) = n + 1 /\ g[n + 1] = item /\ \A i \in 1 .. n : g[i] = h[i]
  OBVIOUS
<1> HIDE DEF g, n
<1>2. Cardinality(d) \in Nat
  BY FS_CardinalityType
<1>3. CASE item.outcome # "failure"
  <2>1. Failed(g) = Failed(h)
    BY <1>1, <1>3 DEF Failed, n
  <2>2. e = d
    BY <1>1, <2>1 DEF FailedCards, Failed, n
  <2> QED
    BY <1>2, <1>3, <2>2 DEF g
<1>4. CASE item.outcome = "failure"
  <2>1. Failed(g) = Failed(h) \cup {n + 1}
    BY <1>1, <1>4 DEF Failed, n
  <2>2. \A i \in Failed(h) : g[i] = h[i]
    BY <1>1 DEF Failed, n
  <2>3. e = d \cup {item.id}
    <3>1. e = {g[i].id : i \in Failed(h) \cup {n + 1}}
      BY <2>1 DEF FailedCards
    <3>2. \A x : x \in e <=> (\E i \in Failed(h) : x = g[i].id) \/ x = g[n + 1].id
      BY <3>1
    <3>3. \A x : x \in d <=> \E i \in Failed(h) : x = h[i].id
      BY DEF FailedCards
    <3> HIDE DEF d, e
    <3>4. ASSUME NEW x PROVE x \in e <=> x \in d \/ x = item.id
      <4>1. (\E i \in Failed(h) : x = g[i].id) <=> \E i \in Failed(h) : x = h[i].id
        BY <2>2
      <4>2. g[n + 1].id = item.id
        BY <1>1
      <4> QED
        BY <3>2, <3>3, <4>1, <4>2
    <3> QED
      BY <3>4
  <2> HIDE DEF d, e
  <2>4. /\ IsFiniteSet(d \cup {item.id})
        /\ Cardinality(d \cup {item.id})
              = IF item.id \in d THEN Cardinality(d) ELSE Cardinality(d) + 1
    BY FS_AddElement DEF d
  <2>5. /\ IsFiniteSet(e) /\ item.id \in e
        /\ Cardinality(e) = IF item.id \in d THEN Cardinality(d) ELSE Cardinality(d) + 1
    BY <2>3, <2>4
  <2> QED
    BY <1>2, <1>4, <2>5 DEF g, d, e
<1> QED
  BY <1>3, <1>4

(* A rung is free for a failure that does not stop the run. *)
LEMMA ClimbedRungs ==
    ASSUME NEW r, Stored(r), NEW s, NEW reason, r.ladder.retries <= 2
    PROVE  LET ladder == Climbed(r, reason).ladder IN
           /\ ladder.retries <= 2
           /\ ladder.retries + (IF ladder.switched THEN 1 ELSE 0) >= Rungs(r)
           /\ RetriesHorizon(r, reason) \/ SwitchesStrategy(r, s)
                 => ladder.retries + (IF ladder.switched THEN 1 ELSE 0) = Rungs(r) + 1
<1> DEFINE up == IF RetriesHorizon(r, reason) THEN 1 ELSE 0
           switched == r.ladder.switched \/ ~RetriesHorizon(r, reason)
           ladder == [retries |-> r.ladder.retries + up, switched |-> switched, last |-> reason]
<1>1. r.ladder \in Ladder
  BY DEF Stored, RunState
<1>2. r.ladder.retries \in Nat /\ r.ladder.switched \in BOOLEAN
  BY <1>1 DEF Ladder
<1>3. Climbed(r, reason).ladder = ladder
  BY DEF Climbed, Stored, RunState
<1>4. ladder.retries = r.ladder.retries + up /\ ladder.switched = switched
  OBVIOUS
<1>5. RetriesHorizon(r, reason) => r.ladder.retries < 2
  BY DEF RetriesHorizon
<1>6. SwitchesStrategy(r, s) => ~r.ladder.switched
  BY DEF SwitchesStrategy
<1> HIDE DEF ladder
<1>7. CASE RetriesHorizon(r, reason)
  <2>1. ladder.retries = r.ladder.retries + 1 /\ ladder.switched = r.ladder.switched
    BY <1>2, <1>4, <1>7
  <2> QED
    BY <1>2, <1>3, <1>5, <1>7, <2>1 DEF Rungs
<1>8. CASE ~RetriesHorizon(r, reason)
  <2>1. ladder.retries = r.ladder.retries
    BY <1>2, <1>4, <1>8
  <2>2. ladder.switched = TRUE
    BY <1>4, <1>8
  <2> QED
    BY <1>2, <1>3, <1>6, <1>8, <2>1, <2>2 DEF Rungs
<1> QED
  BY <1>7, <1>8

(* A settled outcome climbs a rung, or the run stops. *)
LEMMA SettledRungs ==
    ASSUME NEW r, r.history \in Seq(HistoryItem), RungsKept(r), r.ladder \in Ladder,
           r.current # NoInvocation, NEW outcome,
           outcome = "failure" \/ r.status # "paused",
           NEW p, Stored(p), p.ladder = r.ladder, NEW s, NEW reason \in Signatures, NEW item,
           item.outcome = outcome, item.id = r.current,
           NEW q, q.history = Append(r.history, item),
           q.current \in {r.current, NoInvocation}, Climbs(p, q, s, outcome, reason)
    PROVE  RungsKept(q)
<1> DEFINE d == FailedCards(r.history)
           e == FailedCards(q.history)
           n == Cardinality(d)
           m == Cardinality(e)
<1>1. /\ n \in Nat /\ m \in Nat /\ IsFiniteSet(e)
      /\ outcome # "failure" => e = d
      /\ outcome = "failure" => r.current \in e /\ m <= n + 1 /\ (r.current \in d => m = n)
  BY AppendCounts DEF RungsKept
<1>2. /\ r.ladder.retries <= 2
      /\ n <= Rungs(r) \/ (n <= Rungs(r) + 1 /\ r.status = "paused" /\ r.current \in d)
  BY DEF RungsKept
<1>3. r.ladder.retries \in Nat /\ Rungs(r) \in Nat /\ Rungs(p) = Rungs(r)
  BY DEF Ladder, Rungs
<1> HIDE DEF d, e, n, m
<1>4. CASE outcome # "failure"
  <2>1. q.ladder = r.ladder /\ m = n
    BY <1>1, <1>4 DEF Climbs, n, m
  <2>2. m <= Rungs(q) /\ q.ladder.retries <= 2
    BY <1>2, <1>4, <2>1 DEF Rungs
  <2> QED
    BY <1>1, <2>2 DEF RungsKept, m, e
<1>5. CASE outcome = "failure"
  <2>1. m <= Rungs(r) + 1 /\ (q.current = NoInvocation \/ q.current \in e)
    BY <1>1, <1>2, <1>3, <1>5
  <2>2. LET ladder == Climbed(p, reason).ladder IN
        /\ ladder.retries <= 2
        /\ ladder.retries + (IF ladder.switched THEN 1 ELSE 0) >= Rungs(p)
        /\ RetriesHorizon(p, reason) \/ SwitchesStrategy(p, s)
              => ladder.retries + (IF ladder.switched THEN 1 ELSE 0) = Rungs(p) + 1
    BY <1>2, ClimbedRungs
  <2>3. CASE q.ladder = p.ladder /\ q.status = "paused"
    <3>1. Rungs(q) = Rungs(r) /\ q.ladder.retries <= 2
      BY <1>2, <2>3 DEF Rungs
    <3> QED
      BY <1>1, <2>1, <2>3, <3>1 DEF RungsKept, m, e
  <2>4. CASE /\ q.ladder = Climbed(p, reason).ladder
             /\ q.status = "paused" \/ RetriesHorizon(p, reason) \/ SwitchesStrategy(p, s)
    <3>1. /\ q.ladder.retries <= 2 /\ Rungs(q) >= Rungs(p)
          /\ RetriesHorizon(p, reason) \/ SwitchesStrategy(p, s) => Rungs(q) = Rungs(p) + 1
      BY <2>2, <2>4 DEF Rungs
    <3>2. Climbed(p, reason).ladder \in Ladder
      BY ClimbedStored DEF Stored, RunState
    <3>3. Rungs(q) \in Nat
      BY <2>4, <3>2 DEF Ladder, Rungs
    <3>4. m <= Rungs(q) \/ (m <= Rungs(q) + 1 /\ q.status = "paused")
      BY <1>1, <1>3, <2>1, <2>4, <3>1, <3>3
    <3> QED
      BY <1>1, <2>1, <3>1, <3>4 DEF RungsKept, m, e
  <2> QED
    BY <1>5, <2>3, <2>4 DEF Climbs
<1> QED
  BY <1>4, <1>5

(* The failed cards of an unattended run and the rungs of its ladder agree. *)
LEMMA LadderInvariant == Spec => []LadderInv
<1>1. Init => LadderInv
  <2> SUFFICES ASSUME Init PROVE RungsKept(run)
    BY DEF LadderInv
  <2>1. Len(run.history) = 0 /\ run.ladder.retries = 0 /\ run.ladder.switched = FALSE
    BY DEF Init, InitialRun
  <2>2. FailedCards(run.history) = {}
    BY <2>1 DEF Failed, FailedCards
  <2>3. Cardinality(FailedCards(run.history)) = 0 /\ IsFiniteSet(FailedCards(run.history))
    BY <2>2, FS_EmptySet
  <2> QED
    BY <2>1, <2>3 DEF RungsKept, Rungs
<1>2. RunInv /\ LadderInv /\ [Next]_vars => LadderInv'
  <2> SUFFICES ASSUME RunInv, LadderInv, [Next]_vars, interventions' = 0, LongHorizon
               PROVE  RungsKept(run')
    BY DEF LadderInv
  <2>1. CASE run' = run /\ interventions' = interventions
    BY <2>1 DEF LadderInv
  <2>2. CASE Prepare \/ Supervisor
    <3>1. SameFailures(run, run') /\ run.status # "paused" /\ interventions = 0
      BY <2>2, PrepareSame, SupervisorSame
    <3>2. RungsKept(run)
      BY <3>1 DEF LadderInv
    <3> QED
      BY <3>1, <3>2 DEF RungsKept, Rungs, SameFailures
  <2>3. CASE Worker \/ EvidenceWatch
    <3>1. PICK outcome, reason, hasRecord, environmentBlocked :
              Answered(run', outcome, reason, hasRecord, environmentBlocked)
      BY <2>3, AnswersRecorded
    <3> DEFINE recorded == Recorded(run, outcome, reason, hasRecord)
    <3>2. PICK item \in HistoryItem : item = Outcome(outcome, reason, hasRecord)
      BY <3>1, RecordedAppends
    <3>3. /\ run.stage \in Stages /\ run.stage # NoStage /\ outcome \in Outcomes
          /\ reason \in Signatures /\ environmentBlocked \in BOOLEAN
          /\ run.current # NoInvocation
          /\ run' = SettledSubmission(recorded, run.stage, outcome, reason,
                                      environmentBlocked)
          /\ interventions' = interventions
          /\ outcome = "failure" \/ run.status # "paused"
      BY <3>1 DEF Answered
    <3>4. /\ item.outcome = outcome /\ item.id = run.current
          /\ run.history \in Seq(HistoryItem)
          /\ Stored(recorded) /\ recorded.stage = run.stage
          /\ recorded.history = Append(run.history, item)
          /\ recorded.ladder = run.ladder
      BY <3>1, <3>2, RecordedAppends
    <3>5. run'.current \in {run.current, NoInvocation}
      BY <3>1, AnswerAppends
    <3> HIDE DEF recorded
    <3>6. run'.history = recorded.history
          /\ Climbs(recorded, run', run.stage, outcome, reason)
      BY <3>3, <3>4, SettledRemembers
    <3>7. RungsKept(run) /\ run.ladder \in Ladder
      BY <3>3 DEF LadderInv, RunInv, Good, Stored, RunState
    <3>8. run'.history = Append(run.history, item)
      BY <3>4, <3>6
    <3> QED
      BY <3>3, <3>4, <3>5, <3>6, <3>7, <3>8, SettledRungs
  <2>4. CASE Operator \/ Away
    BY <2>1, <2>4, OutsideCounts
  <2>5. CASE UNCHANGED vars
    BY <2>1, <2>5 DEF vars
  <2> QED
    BY <2>2, <2>3, <2>4, <2>5 DEF Next
<1> QED
  BY <1>1, <1>2, RunInvariant, PTL DEF Spec

(* The long-horizon ladder ends: at most four cards of an unattended run    *)
(* fail over its whole life, and the fourth pauses it for good, also when   *)
(* the same reason repeats, a limit is hit, the environment is blocked, or  *)
(* a watch reports on a card that failed already, however late.             *)
THEOREM LadderEnds == Spec => []HorizonLadderEnds
<1>1. RunInv /\ CardsKept(run) /\ LadderInv => HorizonLadderEnds
  <2> SUFFICES ASSUME RunInv, CardsKept(run), LadderInv, LongHorizon, interventions = 0
               PROVE  /\ Cardinality(CardsFailed) <= 4
                      /\ Cardinality(CardsFailed) = 4 => run.status = "paused"
    BY DEF HorizonLadderEnds
  <2>1. CardsFailed = FailedCards(run.history)
    <3>1. \A i \in 1 .. Len(run.history) : run.history[i].id \in 1 .. Len(run.cards)
      BY DEF CardsKept, CardsMatch, Matches
    <3>2. CardsFailed \subseteq FailedCards(run.history)
      BY DEF CardsFailed, FailedCards, Failed
    <3>3. FailedCards(run.history) \subseteq CardsFailed
      BY <3>1 DEF CardsFailed, FailedCards, Failed
    <3> QED
      BY <3>2, <3>3
  <2>2. RungsKept(run) /\ Cardinality(FailedCards(run.history)) \in Nat
    BY FS_CardinalityType DEF LadderInv, RungsKept
  <2>3. run.ladder \in Ladder
    BY DEF RunInv, Good, Stored, RunState
  <2>4. run.ladder.retries \in Nat
    BY <2>3 DEF Ladder
  <2> QED
    BY <2>1, <2>2, <2>4 DEF RungsKept, Rungs
<1> QED
  BY <1>1, LadderInvariant, RunInvariant, CardsInvariant, PTL
=============================================================================
