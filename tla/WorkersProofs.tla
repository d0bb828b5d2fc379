--------------------------- MODULE WorkersProofs ---------------------------
(***************************************************************************)
(* Processes that work for hours outside of the mutex of the run.          *)
(*   A run has one owned worker, and records one only while it waits for   *)
(* it, for any number of delegating processes and of cards: every process  *)
(* that is under way holds the launch mutex, and a card the run can work   *)
(* on was not submitted before.                                            *)
(*   A task of a horizon session is done only with its work: no run takes  *)
(* a success back, and every command that marks a task done has the run or *)
(* the delivery that did it.                                               *)
(*   A watch discloses the time nobody watched: it holds the lock of a     *)
(* target while it writes in its ledger, so that after a gap of a session  *)
(* that session writes nothing more.                                       *)
(***************************************************************************)
EXTENDS Delegation, HorizonSession, WatchSessions, Extrema, FiniteSetTheorems

Underway(p) == proc[p].step \notin {"idle", "dead"}
HoldsLaunch == \A p \in Delegates : Underway(p) => launch = p /\ proc[p].card # 0
OwnersWork == \A w \in workers : w.by # NoWorker => proc[w.by].step = "working"
AtMostOne == \A v, w \in workers : v.by # NoWorker /\ w.by # NoWorker => v = w
WorkerInv == DTypeOK /\ HoldsLaunch /\ OwnersWork /\ AtMostOne

Workable == drun.status = "running" \/ (drun.status = "paused" /\ saved = "running")
CardInv ==
    /\ DTypeOK
    /\ last.card <= drun.cards /\ drun.current <= drun.cards
    /\ saved # "none" => drun.status = "paused"
    /\ Workable => drun.current = 0 \/ drun.current # last.card

Statuses == {"running", "awaiting", "paused", "canceled"}
RunStates == [status : Statuses, current : 0 .. MaxCards, cards : 0 .. MaxCards]
ProcSteps == {"idle", "launching", "working", "returned", "written", "dead"}
ProcStates == [step : ProcSteps, card : 0 .. MaxCards, resume : 0 .. MaxCards]
WorkerStates == [by : Delegates \cup {NoWorker}, card : Cards, resume : 0 .. MaxCards]

USE DelegationAssumption

\* Records with one or two fields changed.
LEMMA RunChanged ==
    ASSUME NEW r \in RunStates, NEW s \in Statuses
    PROVE  /\ [r EXCEPT !.status = s] \in RunStates /\ [r EXCEPT !.current = 0] \in RunStates
           /\ [r EXCEPT !.status = s, !.current = 0] \in RunStates
<1>1. ASSUME NEW t \in RunStates PROVE [t EXCEPT !.current = 0] \in RunStates
  BY DEF RunStates
<1>2. [r EXCEPT !.status = s] \in RunStates
  BY DEF RunStates
<1>3. [r EXCEPT !.status = s, !.current = 0] = [[r EXCEPT !.status = s] EXCEPT !.current = 0]
  BY DEF RunStates
<1>4. [[r EXCEPT !.status = s] EXCEPT !.current = 0] \in RunStates
  BY <1>1, <1>2
<1> QED BY <1>1, <1>2, <1>3, <1>4

LEMMA ProcChanged ==
    ASSUME NEW q \in ProcStates, NEW s \in ProcSteps
    PROVE  /\ [q EXCEPT !.step = s] \in ProcStates
           /\ [q EXCEPT !.step = s, !.resume = NoSession] \in ProcStates
<1>1. ASSUME NEW t \in ProcStates PROVE [t EXCEPT !.resume = NoSession] \in ProcStates
  BY DEF ProcStates, NoSession
<1>2. [q EXCEPT !.step = s] \in ProcStates
  BY DEF ProcStates
<1>3. [q EXCEPT !.step = s, !.resume = NoSession] = [[q EXCEPT !.step = s] EXCEPT !.resume = NoSession]
  BY DEF ProcStates
<1>4. [[q EXCEPT !.step = s] EXCEPT !.resume = NoSession] \in ProcStates
  BY <1>1, <1>2
<1> QED BY <1>2, <1>3, <1>4

LEMMA TypedByParts == DTypeOK <=>
    /\ drun \in RunStates
    /\ saved \in {"none", "running", "awaiting"}
    /\ last \in [card : 0 .. MaxCards, outcome : {"none", "success", "failed"}]
    /\ sentBack \subseteq 0 .. MaxCards /\ stageWorker \in 0 .. MaxCards
    /\ launch \in Delegates \cup {NoWorker}
    /\ proc \in [Delegates -> ProcStates] /\ evidence \in BOOLEAN
    /\ workers \subseteq WorkerStates /\ output \subseteq Cards
  BY DEF DTypeOK, RunStates, Statuses, ProcStates, ProcSteps, WorkerStates

\* What the operator and the supervisor do leaves the workers alone.
RunAct ==
    \/ PrepareCard \/ SubmitOutput \/ PauseRun \/ AbortRun
    \/ BeginEvidence \/ EndEvidence \/ EvidencePreflightFails
    \/ \E yes \in BOOLEAN : Decide(yes) \/ ResumeRun(yes)

LEMMA RunActsAreTyped == ASSUME DTypeOK, RunAct PROVE DTypeOK' /\ UNCHANGED <<proc, launch, workers>>
<1> USE DEF launchVars
<1>1. drun' \in RunStates
  <2>1. CASE PrepareCard
    <3>1. drun.cards + 1 \in 0 .. MaxCards
      BY <2>1, TypedByParts DEF PrepareCard, RunStates
    <3> QED BY <2>1, <3>1, TypedByParts DEF PrepareCard, RunStates
  <2>2. CASE ~PrepareCard
    <3>1. \A s \in Statuses : /\ [drun EXCEPT !.status = s] \in RunStates
                             /\ [drun EXCEPT !.current = 0] \in RunStates
                             /\ [drun EXCEPT !.status = s, !.current = 0] \in RunStates
      BY TypedByParts, RunChanged
    <3>2. \E s \in Statuses :
             drun' \in {drun, [drun EXCEPT !.status = s], [drun EXCEPT !.current = 0],
                       [drun EXCEPT !.status = s, !.current = 0]}
      <4>1. {"running", "awaiting", "paused", "canceled"} = Statuses
        BY DEF Statuses
      <4>2. CASE SubmitOutput
        BY <4>1, <4>2 DEF SubmitOutput
      <4>3. CASE PauseRun \/ AbortRun \/ BeginEvidence \/ EndEvidence \/ EvidencePreflightFails
        BY <4>1, <4>3 DEF PauseRun, AbortRun, BeginEvidence, EndEvidence, EvidencePreflightFails
      <4>4. ASSUME NEW yes \in BOOLEAN, Decide(yes) PROVE \E s \in Statuses :
             drun' \in {drun, [drun EXCEPT !.status = s], [drun EXCEPT !.current = 0],
                       [drun EXCEPT !.status = s, !.current = 0]}
        BY <4>1, <4>4 DEF Decide
      <4>5. ASSUME NEW yes \in BOOLEAN, ResumeRun(yes) PROVE \E s \in Statuses :
             drun' \in {drun, [drun EXCEPT !.status = s], [drun EXCEPT !.current = 0],
                       [drun EXCEPT !.status = s, !.current = 0]}
        <5>1. saved \in Statuses \/ saved = "none"
          BY <4>1, TypedByParts
        <5> QED BY <4>1, <4>5, <5>1 DEF ResumeRun
      <4> QED BY <2>2, <4>2, <4>3, <4>4, <4>5 DEF RunAct
    <3> QED BY TypedByParts, <3>1, <3>2
  <2> QED BY <2>1, <2>2
<1>2. /\ saved' \in {"none", "running", "awaiting"}
      /\ last' \in [card : 0 .. MaxCards, outcome : {"none", "success", "failed"}]
  BY TypedByParts DEF RunAct, RunStates, Statuses, PrepareCard, SubmitOutput, PauseRun, AbortRun,
     BeginEvidence, EndEvidence, EvidencePreflightFails, Decide, ResumeRun
<1>3. sentBack' \subseteq 0 .. MaxCards
  BY TypedByParts DEF RunAct, PrepareCard, SubmitOutput, PauseRun, AbortRun,
     BeginEvidence, EndEvidence, EvidencePreflightFails, Decide, ResumeRun
<1>4. evidence' \in BOOLEAN /\ UNCHANGED <<proc, launch, workers, stageWorker, output>>
  BY TypedByParts DEF RunAct, PrepareCard, SubmitOutput, PauseRun, AbortRun,
     BeginEvidence, EndEvidence, EvidencePreflightFails, Decide, ResumeRun
<1>5. DTypeOK'
  BY <1>1, <1>2, <1>3, <1>4, TypedByParts
     DEF DTypeOK, RunStates, Statuses
<1> QED BY <1>4, <1>5

\* What a process does to the run: it leaves it alone or pauses it.
ProcAct(p) ==
    \/ BeginDelegate(p) \/ PreflightFails(p) \/ DelegateStep(p)
    \/ KillDelegate(p) \/ RestartDelegate(p)
WorkerAct == \E w \in workers : WorkerWrites(w) \/ OrphanEnds(w)

LEMMA AtRestTyped == AtRest \in ProcStates /\ [AtRest EXCEPT !.step = "dead"] \in ProcStates
                     /\ AtRest.step = "idle" /\ [AtRest EXCEPT !.step = "dead"].step = "dead"
  BY DEF AtRest, ProcStates, ProcSteps, NoSession

\* A process moves on and nobody else does.
ProcMoves(p) == \E q \in ProcStates : proc' = [proc EXCEPT ![p] = q]

LEMMA ProcsMove ==
    ASSUME DTypeOK, NEW p \in Delegates, ProcAct(p)
    PROVE  ProcMoves(p) \/ UNCHANGED proc
<1>1. proc[p] \in ProcStates
  BY TypedByParts
<1>2. drun.current \in 0 .. MaxCards /\ ResumableWorker \in 0 .. MaxCards
  BY TypedByParts DEF RunStates, ResumableWorker, NoSession
<1>3. \A s \in ProcSteps : /\ [proc[p] EXCEPT !.step = s] \in ProcStates
                           /\ [proc[p] EXCEPT !.step = s, !.resume = NoSession] \in ProcStates
  BY <1>1, ProcChanged
<1>4. CASE BeginDelegate(p)
  <2>1. [step |-> "launching", card |-> drun.current, resume |-> ResumableWorker] \in ProcStates
    BY <1>2 DEF ProcStates, ProcSteps
  <2> QED BY <1>4, <2>1 DEF BeginDelegate, ProcMoves
<1>5. CASE PreflightFails(p)
  BY <1>5 DEF PreflightFails
<1>6. CASE LaunchWorker(p) \/ WriteEvidence(p)
  <2>1. "working" \in ProcSteps /\ "written" \in ProcSteps
    BY DEF ProcSteps
  <2>2. \E s \in ProcSteps : proc' = [proc EXCEPT ![p] = [proc[p] EXCEPT !.step = s]]
    BY <1>6, <2>1 DEF LaunchWorker, WriteEvidence
  <2> QED BY <1>3, <2>2 DEF ProcMoves
<1>7. CASE RecordResult(p) \/ RefuseResult(p) \/ RestartDelegate(p) \/ KillDelegate(p)
  BY <1>7, AtRestTyped
     DEF RecordResult, RefuseResult, RestartDelegate, KillDelegate, FinishDelegate, ProcMoves
<1>8. CASE \E w \in workers : WorkerEnds(p, w)
  <2>1. "returned" \in ProcSteps /\ "launching" \in ProcSteps
    BY DEF ProcSteps
  <2>2. \E s \in ProcSteps :
           \/ proc' = [proc EXCEPT ![p] = [proc[p] EXCEPT !.step = s]]
           \/ proc' = [proc EXCEPT ![p] = [proc[p] EXCEPT !.step = s, !.resume = NoSession]]
    BY <1>8, <2>1 DEF WorkerEnds
  <2> QED BY <1>3, <2>2 DEF ProcMoves
<1> QED BY <1>4, <1>5, <1>6, <1>7, <1>8 DEF ProcAct, DelegateStep

LEMMA ProcActsAreTyped ==
    ASSUME WorkerInv, NEW p \in Delegates, ProcAct(p)
    PROVE  DTypeOK'
<1> USE DEF WorkerInv
<1>1. proc' \in [Delegates -> ProcStates]
  BY ProcsMove, TypedByParts DEF ProcMoves
<1>2. drun' \in RunStates
  <2>1. drun' \in {drun, [drun EXCEPT !.status = "paused"]}
    BY DEF ProcAct, DelegateStep, BeginDelegate, PreflightFails, LaunchWorker, WriteEvidence, RecordResult,
       RefuseResult, WorkerEnds, KillDelegate, RestartDelegate
  <2>2. "paused" \in Statuses
    BY DEF Statuses
  <2>3. [drun EXCEPT !.status = "paused"] \in RunStates
    BY <2>2, TypedByParts DEF RunStates
  <2> QED BY <2>1, <2>3, TypedByParts
<1>3. launch' \in Delegates \cup {NoWorker}
  BY TypedByParts DEF ProcAct, DelegateStep, BeginDelegate, PreflightFails, LaunchWorker, WriteEvidence,
     RecordResult, RefuseResult, WorkerEnds, KillDelegate, RestartDelegate, FinishDelegate
<1>4. stageWorker' \in 0 .. MaxCards
  <2>1. stageWorker' \in {stageWorker, proc[p].card}
    BY DEF ProcAct, DelegateStep, BeginDelegate, PreflightFails, LaunchWorker, WriteEvidence, RecordResult,
       RefuseResult, WorkerEnds, KillDelegate, RestartDelegate
  <2>2. proc[p].card \in 0 .. MaxCards
    BY TypedByParts DEF ProcStates
  <2> QED BY <2>1, <2>2, TypedByParts
<1>5. workers' \subseteq WorkerStates
  <2>1. CASE LaunchWorker(p)
    <3>1. proc[p].card \in Cards /\ proc[p].resume \in 0 .. MaxCards
      BY <2>1, TypedByParts DEF LaunchWorker, HoldsLaunch, Underway, ProcStates, Cards
    <3>2. [by |-> p, card |-> proc[p].card, resume |-> proc[p].resume] \in WorkerStates
      BY <3>1 DEF WorkerStates
    <3> QED BY <2>1, <3>2, TypedByParts DEF LaunchWorker
  <2>2. CASE KillDelegate(p)
    <3>1. ASSUME NEW w \in workers PROVE [w EXCEPT !.by = NoWorker] \in WorkerStates
      BY <3>1, TypedByParts DEF WorkerStates
    <3> QED BY <2>2, <3>1, TypedByParts DEF KillDelegate
  <2>3. CASE ~LaunchWorker(p) /\ ~KillDelegate(p)
    BY <2>3, TypedByParts DEF ProcAct, DelegateStep, BeginDelegate, PreflightFails, WriteEvidence,
       RecordResult, RefuseResult, WorkerEnds, RestartDelegate
  <2> QED BY <2>1, <2>2, <2>3
<1>6. UNCHANGED <<saved, last, sentBack, evidence, output>>
  BY DEF ProcAct, DelegateStep, BeginDelegate, PreflightFails, LaunchWorker, WriteEvidence, RecordResult,
     RefuseResult, WorkerEnds, KillDelegate, RestartDelegate
<1> QED BY <1>1, <1>2, <1>3, <1>4, <1>5, <1>6, TypedByParts
        DEF DTypeOK, RunStates, Statuses, ProcStates, ProcSteps, WorkerStates

LEMMA WorkerActsAreTyped ==
    ASSUME DTypeOK, WorkerAct
    PROVE  DTypeOK' /\ UNCHANGED <<proc, launch, drun, saved, last, stageWorker>> /\ workers' \subseteq workers
<1>1. workers' \subseteq workers /\ UNCHANGED <<proc, launch, drun, saved, last, stageWorker, sentBack, evidence>>
  BY DEF WorkerAct, WorkerWrites, OrphanEnds
<1>2. output' \subseteq Cards
  BY TypedByParts DEF WorkerAct, WorkerWrites, OrphanEnds, WorkerStates
<1> QED BY <1>1, <1>2 DEF DTypeOK

LEMMA WorkerInvInit == DInit => WorkerInv
<1> SUFFICES ASSUME DInit PROVE WorkerInv
    OBVIOUS
<1>1. DTypeOK
  <2>1. proc \in [Delegates -> ProcStates]
    BY AtRestTyped DEF DInit
  <2>2. drun \in RunStates /\ stageWorker \in 0 .. MaxCards
    BY DEF DInit, RunStates, Statuses, NoSession
  <2>3. last \in [card : 0 .. MaxCards, outcome : {"none", "success", "failed"}]
    BY DEF DInit
  <2> QED BY <2>1, <2>2, <2>3, TypedByParts DEF DInit
<1>2. HoldsLaunch /\ OwnersWork /\ AtMostOne
  BY DEF DInit, AtRest, HoldsLaunch, Underway, OwnersWork, AtMostOne
<1> QED BY <1>1, <1>2 DEF WorkerInv

\* Steps that change no process and add no worker.
LEMMA WorkersUntouched ==
    ASSUME WorkerInv, DTypeOK', UNCHANGED <<proc, launch>>, workers' \subseteq workers
    PROVE  WorkerInv'
  BY DEF WorkerInv, HoldsLaunch, Underway, OwnersWork, AtMostOne

\* While the launch mutex is free nobody is under way and no worker is owned.
LEMMA FreeLaunch ==
    ASSUME WorkerInv, LaunchFree
    PROVE  /\ \A q \in Delegates : ~Underway(q)
           /\ \A w \in workers : w.by = NoWorker
<1>1. \A q \in Delegates : ~Underway(q)
  BY DEF WorkerInv, HoldsLaunch, Underway, LaunchFree
<1>2. \A w \in workers : w.by \in Delegates \cup {NoWorker}
  BY TypedByParts DEF WorkerInv, WorkerStates
<1> QED BY <1>1, <1>2 DEF WorkerInv, OwnersWork, Underway

LEMMA WorkerInvNext == WorkerInv /\ [DNext]_dVars => WorkerInv'
<1> SUFFICES ASSUME WorkerInv, [DNext]_dVars PROVE WorkerInv'
    OBVIOUS
<1>0. proc \in [Delegates -> ProcStates] /\ DTypeOK
  BY TypedByParts DEF WorkerInv
<1>1. CASE RunAct
  <2>1. DTypeOK' /\ UNCHANGED <<proc, launch, workers>>
    BY <1>0, <1>1, RunActsAreTyped
  <2> QED BY <2>1, WorkersUntouched
<1>2. CASE WorkerAct
  <2>1. DTypeOK' /\ UNCHANGED <<proc, launch>> /\ workers' \subseteq workers
    BY <1>0, <1>2, WorkerActsAreTyped
  <2> QED BY <2>1, WorkersUntouched
<1>3. ASSUME NEW p \in Delegates, BeginDelegate(p) PROVE WorkerInv'
  <2>1. DTypeOK'
    BY <1>3, ProcActsAreTyped DEF ProcAct
  <2>2. /\ \A q \in Delegates : ~Underway(q)
        /\ \A w \in workers : w.by = NoWorker
    BY <1>3, FreeLaunch DEF BeginDelegate
  <2>3. /\ \A q \in Delegates : q # p => proc'[q] = proc[q]
        /\ proc'[p].card = drun.current /\ drun.current # 0 /\ launch' = p /\ workers' = workers
    BY <1>0, <1>3 DEF BeginDelegate
  <2>4. HoldsLaunch'
    BY <2>2, <2>3 DEF HoldsLaunch, Underway
  <2> QED BY <2>1, <2>2, <2>3, <2>4 DEF WorkerInv, OwnersWork, AtMostOne
<1>4. ASSUME NEW p \in Delegates, PreflightFails(p) PROVE WorkerInv'
  <2>1. DTypeOK'
    BY <1>4, ProcActsAreTyped DEF ProcAct
  <2>2. /\ \A q \in Delegates : ~Underway(q)
        /\ \A w \in workers : w.by = NoWorker
    BY <1>4, FreeLaunch DEF PreflightFails
  <2>3. UNCHANGED <<proc, workers>>
    BY <1>4 DEF PreflightFails
  <2> QED BY <2>1, <2>2, <2>3 DEF WorkerInv, HoldsLaunch, Underway, OwnersWork, AtMostOne
<1>5. ASSUME NEW p \in Delegates, LaunchWorker(p) PROVE WorkerInv'
  <2>1. DTypeOK'
    BY <1>5, ProcActsAreTyped DEF ProcAct, DelegateStep
  <2> DEFINE new == [by |-> p, card |-> proc[p].card, resume |-> proc[p].resume]
  <2>2. /\ \A q \in Delegates : q # p => proc'[q] = proc[q]
        /\ proc'[p].step = "working" /\ proc'[p].card = proc[p].card
        /\ launch' = launch /\ workers' = workers \cup {new} /\ Underway(p)
    BY <1>0, <1>5 DEF LaunchWorker, ProcStates, Underway
  <2>3. HoldsLaunch'
    BY <2>2 DEF WorkerInv, HoldsLaunch, Underway
  <2>4. \A w \in workers : w.by = NoWorker
    <3>1. \A q \in Delegates : proc[q].step # "working"
      BY <1>5, <2>2 DEF WorkerInv, HoldsLaunch, Underway, LaunchWorker
    <3>2. \A w \in workers : w.by \in Delegates \cup {NoWorker}
      BY <1>0, TypedByParts DEF WorkerStates
    <3> QED BY <3>1, <3>2 DEF WorkerInv, OwnersWork
  <2>5. new.by = p
    OBVIOUS
  <2> HIDE DEF new
  <2>6. OwnersWork' /\ AtMostOne'
    BY <2>2, <2>4, <2>5 DEF OwnersWork, AtMostOne
  <2> QED BY <2>1, <2>3, <2>6 DEF WorkerInv
<1>6. ASSUME NEW p \in Delegates, NEW v \in workers, WorkerEnds(p, v) PROVE WorkerInv'
  <2>1. DTypeOK'
    BY <1>6, ProcActsAreTyped DEF ProcAct, DelegateStep
  <2>2. /\ \A q \in Delegates : q # p => proc'[q] = proc[q]
        /\ launch' = launch /\ workers' = workers \ {v} /\ v.by = p /\ Underway(p)
    BY <1>0, <1>6 DEF WorkerEnds, Owns, Underway
  <2>3. proc'[p].card = proc[p].card
    <3>1. proc' = [proc EXCEPT ![p] = [proc[p] EXCEPT !.step = "returned"]]
          \/ proc' = [proc EXCEPT ![p] = [proc[p] EXCEPT !.step = "launching", !.resume = NoSession]]
      BY <1>6 DEF WorkerEnds
    <3> QED BY <1>0, <3>1 DEF ProcStates
  <2>4. HoldsLaunch'
    BY <2>2, <2>3 DEF WorkerInv, HoldsLaunch, Underway
  <2>5. \A w \in workers \ {v} : w.by = NoWorker
    BY <2>2 DEF WorkerInv, AtMostOne
  <2> QED BY <2>1, <2>2, <2>4, <2>5 DEF WorkerInv, OwnersWork, AtMostOne
<1>7. ASSUME NEW p \in Delegates, WriteEvidence(p) PROVE WorkerInv'
  <2>1. DTypeOK'
    BY <1>7, ProcActsAreTyped DEF ProcAct, DelegateStep
  <2>2. /\ \A q \in Delegates : q # p => proc'[q] = proc[q]
        /\ proc[p].step = "returned" /\ proc'[p].step = "written" /\ proc'[p].card = proc[p].card
        /\ UNCHANGED <<launch, workers>>
    BY <1>0, <1>7 DEF WriteEvidence, ProcStates
  <2>3. \A w \in workers : w.by # p \/ w.by = NoWorker
    BY <2>2 DEF WorkerInv, OwnersWork
  <2>4. \A w \in workers : w.by \in Delegates \cup {NoWorker}
    BY <1>0, TypedByParts DEF WorkerStates
  <2> QED BY <2>1, <2>2, <2>3, <2>4 DEF WorkerInv, HoldsLaunch, Underway, OwnersWork, AtMostOne
<1>8. ASSUME NEW p \in Delegates, RecordResult(p) \/ RefuseResult(p) \/ RestartDelegate(p)
      PROVE WorkerInv'
  <2>1. DTypeOK'
    BY <1>8, ProcActsAreTyped DEF ProcAct, DelegateStep
  <2>2. /\ \A q \in Delegates : q # p => proc'[q] = proc[q]
        /\ proc'[p].step = "idle" /\ proc[p].step # "working" /\ workers' = workers
    BY <1>0, <1>8, AtRestTyped DEF RecordResult, RefuseResult, RestartDelegate, FinishDelegate
  <2>3. launch' = NoWorker \/ launch' = launch
    BY <1>8 DEF RecordResult, RefuseResult, RestartDelegate, FinishDelegate
  <2>4. \A q \in Delegates : Underway(q) /\ q # p => launch' = q
    BY <1>8 DEF WorkerInv, HoldsLaunch, Underway, RecordResult, RefuseResult, RestartDelegate, FinishDelegate
  <2>5. HoldsLaunch'
    BY <2>2, <2>4 DEF WorkerInv, HoldsLaunch, Underway
  <2>6. \A w \in workers : w.by # p \/ w.by = NoWorker
    BY <2>2 DEF WorkerInv, OwnersWork
  <2>7. \A w \in workers : w.by \in Delegates \cup {NoWorker}
    BY <1>0, TypedByParts DEF WorkerStates
  <2> QED BY <2>1, <2>2, <2>5, <2>6, <2>7 DEF WorkerInv, OwnersWork, AtMostOne
<1>9. ASSUME NEW p \in Delegates, KillDelegate(p) PROVE WorkerInv'
  <2>1. DTypeOK'
    BY <1>9, ProcActsAreTyped DEF ProcAct
  <2>2. /\ \A q \in Delegates : q # p => proc'[q] = proc[q]
        /\ proc'[p].step = "dead" /\ launch' = launch
        /\ workers' = {IF w.by = p THEN [w EXCEPT !.by = NoWorker] ELSE w : w \in workers}
    BY <1>0, <1>9, AtRestTyped DEF KillDelegate
  <2>3. HoldsLaunch'
    BY <2>2 DEF WorkerInv, HoldsLaunch, Underway
  <2>4. \A w \in workers : [w EXCEPT !.by = NoWorker].by = NoWorker
    BY <1>0, TypedByParts DEF WorkerStates
  <2>5. \A w \in workers' : w.by # NoWorker => w \in workers /\ w.by # p
    BY <2>2, <2>4
  <2>6. \A w \in workers : w.by \in Delegates \cup {NoWorker}
    BY <1>0, TypedByParts DEF WorkerStates
  <2>7. OwnersWork' /\ AtMostOne'
    BY <2>2, <2>5, <2>6 DEF WorkerInv, OwnersWork, AtMostOne
  <2> QED BY <2>1, <2>3, <2>7 DEF WorkerInv
<1>10. CASE UNCHANGED dVars
  <2>1. DTypeOK'
    BY <1>0, <1>10 DEF dVars, DTypeOK
  <2> QED BY <1>10, <2>1, WorkersUntouched DEF dVars
<1> QED
  BY <1>1, <1>2, <1>3, <1>4, <1>5, <1>6, <1>7, <1>8, <1>9, <1>10
     DEF DNext, RunAct, WorkerAct, DelegateStep

LEMMA WorkerInvHolds == DSpec => []WorkerInv
  BY WorkerInvInit, WorkerInvNext, PTL DEF DSpec

LEMMA OneOwner == WorkerInv => OneOwnedWorker
<1> SUFFICES ASSUME WorkerInv PROVE OneOwnedWorker
    OBVIOUS
<1> DEFINE owned == {w \in workers : w.by # NoWorker}
<1>1. owned = {} \/ \E w : owned = {w}
  <2>1. \A v, w \in owned : v = w
    BY DEF WorkerInv, AtMostOne
  <2>2. CASE owned # {}
    <3>1. PICK w : w \in owned
      BY <2>2
    <3>2. owned = {w}
      BY <2>1, <3>1
    <3> QED BY <3>2
  <2> HIDE DEF owned
  <2> QED BY <2>2
<1>2. Cardinality(owned) = 0 \/ Cardinality(owned) = 1
  BY <1>1, FS_EmptySet, FS_Singleton
<1> QED BY <1>2 DEF OneOwnedWorker

\* A card the run can work on is new: it was not submitted.
LEMMA CardInvInit == DInit => CardInv
<1> SUFFICES ASSUME DInit PROVE CardInv
    OBVIOUS
<1>1. DTypeOK
  BY WorkerInvInit DEF WorkerInv
<1> QED BY <1>1 DEF DInit, CardInv, Workable

LEMMA CardInvNext == WorkerInv /\ CardInv /\ [DNext]_dVars => CardInv'
<1> SUFFICES ASSUME WorkerInv, CardInv, [DNext]_dVars PROVE CardInv'
    OBVIOUS
<1>0. /\ DTypeOK' /\ drun \in RunStates
      /\ last \in [card : 0 .. MaxCards, outcome : {"none", "success", "failed"}]
  BY WorkerInvNext, TypedByParts DEF WorkerInv
<1>1. CASE PrepareCard
  <2>1. /\ drun'.status = drun.status /\ drun.status = "running"
        /\ drun'.current = drun.cards + 1 /\ drun'.cards = drun.cards + 1
        /\ UNCHANGED <<saved, last>>
    BY <1>0, <1>1 DEF PrepareCard, RunStates
  <2>2. last.card <= drun.cards /\ last.card \in Nat /\ drun.cards \in Nat
    BY <1>0 DEF CardInv, RunStates
  <2> QED BY <1>0, <2>1, <2>2 DEF CardInv, Workable
<1>2. CASE SubmitOutput
  <2>1. UNCHANGED saved /\ drun'.cards = drun.cards /\ saved = "none"
    BY <1>0, <1>2 DEF SubmitOutput, RunStates, CardInv
  <2>2. /\ drun'.status = "awaiting" \/ drun'.current = 0
        /\ drun'.current = drun.current \/ drun'.current = 0
    BY <1>0, <1>2 DEF SubmitOutput, RunStates
  <2>3. last'.card = drun.current /\ drun.current <= drun.cards
    BY <1>2 DEF SubmitOutput, CardInv
  <2> QED BY <1>0, <2>1, <2>2, <2>3 DEF CardInv, Workable, RunStates
<1>3. CASE \E yes \in BOOLEAN : Decide(yes)
  <2>1. drun'.current = 0 /\ drun'.cards = drun.cards /\ drun.status = "awaiting" /\ UNCHANGED <<saved, last>>
    BY <1>0, <1>3 DEF Decide, RunStates
  <2> QED BY <1>0, <2>1 DEF CardInv, Workable, RunStates
<1>4. CASE PauseRun
  <2>1. /\ drun'.current = drun.current /\ drun'.cards = drun.cards /\ drun'.status = "paused"
        /\ saved' = drun.status /\ UNCHANGED last
    BY <1>0, <1>4 DEF PauseRun, RunStates
  <2> QED BY <1>0, <2>1 DEF CardInv, Workable
<1>5. ASSUME NEW keep \in BOOLEAN, ResumeRun(keep) PROVE CardInv'
  <2>1. /\ drun'.cards = drun.cards /\ saved' = "none" /\ UNCHANGED last /\ drun.status = "paused"
        /\ \/ drun'.current = 0
           \/ drun'.current = drun.current /\ drun'.status = saved
    BY <1>0, <1>5 DEF ResumeRun, RunStates
  <2> QED BY <1>0, <2>1 DEF CardInv, Workable, RunStates
<1>6. CASE AbortRun
  <2>1. /\ drun'.cards = drun.cards /\ saved' = "none" /\ UNCHANGED last /\ drun'.current = 0
    BY <1>0, <1>6 DEF AbortRun, RunStates
  <2> QED BY <1>0, <2>1 DEF CardInv, RunStates
<1>7. CASE EvidencePreflightFails \/ \E p \in Delegates : PreflightFails(p)
  <2>1. /\ drun'.cards = drun.cards /\ drun'.current = drun.current /\ drun'.status = "paused"
        /\ UNCHANGED <<saved, last>>
    BY <1>0, <1>7 DEF EvidencePreflightFails, PreflightFails, RunStates
  <2> QED BY <1>0, <2>1 DEF CardInv, Workable
<1>8. CASE UNCHANGED <<drun, saved, last>>
  BY <1>0, <1>8 DEF CardInv, Workable
<1>9. \/ PrepareCard \/ SubmitOutput \/ PauseRun \/ AbortRun
      \/ \E yes \in BOOLEAN : Decide(yes) \/ ResumeRun(yes)
      \/ EvidencePreflightFails \/ \E p \in Delegates : PreflightFails(p)
      \/ UNCHANGED <<drun, saved, last>>
  BY DEF DNext, BeginEvidence, EndEvidence, WorkerWrites, OrphanEnds, BeginDelegate, DelegateStep,
     LaunchWorker, WriteEvidence, RecordResult, RefuseResult, WorkerEnds, KillDelegate, RestartDelegate, dVars
<1> QED BY <1>1, <1>2, <1>3, <1>4, <1>5, <1>6, <1>7, <1>8, <1>9

\* However often `pan delegate` is started, killed and started again, the run
\* has at most one worker whose launcher still answers for it: the launch mutex
\* is held for the worker's lifetime, and is taken over only from the dead.
THEOREM OneWorkerIsOwned == DSpec => []OneOwnedWorker
  BY WorkerInvHolds, OneOwner, PTL

\* A worker is recorded only for the very card the run still waits for, never
\* for one that was submitted, discarded or replaced while the worker ran.
THEOREM ResultsAreAwaited == DSpec => RecordedWhileAwaited
<1>1. WorkerInv /\ CardInv /\ [DNext]_dVars
      => [stageWorker' # stageWorker => Awaited(stageWorker') /\ stageWorker' # last.card]_dVars
  <2> SUFFICES ASSUME WorkerInv, CardInv, [DNext]_dVars, stageWorker' # stageWorker
      PROVE Awaited(stageWorker') /\ stageWorker' # last.card
      OBVIOUS
  <2>1. \E p \in Delegates : RecordResult(p)
    BY DEF DNext, RunAct, PrepareCard, SubmitOutput, PauseRun, AbortRun, Decide, ResumeRun, launchVars,
       BeginEvidence, EndEvidence, EvidencePreflightFails, WorkerWrites, OrphanEnds, BeginDelegate,
       PreflightFails, DelegateStep, LaunchWorker, WriteEvidence, RefuseResult, WorkerEnds,
       KillDelegate, RestartDelegate, dVars
  <2>2. PICK p \in Delegates : RecordResult(p)
    BY <2>1
  <2>3. stageWorker' = proc[p].card /\ Awaited(proc[p].card) /\ Underway(p)
    BY <2>2 DEF RecordResult, Underway
  <2>4. proc[p].card # 0
    BY <2>3 DEF WorkerInv, HoldsLaunch
  <2> QED BY <2>3, <2>4 DEF CardInv, Workable, Awaited
<1>2. DSpec => []CardInv
  <2>1. DInit /\ [][DNext]_dVars /\ []WorkerInv => []CardInv
    BY CardInvInit, CardInvNext, PTL
  <2> QED BY <2>1, WorkerInvHolds, PTL DEF DSpec
<1> QED BY <1>1, <1>2, WorkerInvHolds, PTL DEF DSpec, RecordedWhileAwaited

-----------------------------------------------------------------------------
(* The tasks of a horizon session                                          *)

TaskRecords == [status : OpenStatuses \cup {"succeeded", "deferred", "blocked"},
                run : Nat, route : Int, replans : Nat]
RunRecords == [task : Tasks, role : {"task", "replan", "delivery"},
               status : {"advancing"} \cup Resumable \cup RunEnded,
               handoff : Int, replans : Nat]
Sessions == [status : {"created", "running", "succeeded", "empty", "abandoned"},
             active : Tasks \cup {0}]
Drivings == [kind : {"none", "task", "replan", "prompt"}, task : Tasks \cup {0},
             run : Nat, of : Nat]

\* What names a run names one that exists.
RunsExist ==
    /\ \A t \in Tasks : task[t].run <= Len(taskRuns) /\ task[t].route <= Len(taskRuns)
    /\ \A r \in DOMAIN taskRuns : taskRuns[r].handoff <= Len(taskRuns)
    /\ driving.run <= Len(taskRuns) /\ driving.of <= Len(taskRuns)

\* A command drives a task of the session, and executes none but prompts itself.
DrivesItsTask ==
    /\ driving.kind # "none" => driving.task \in Tasks
    /\ driving.kind = "prompt" => driving.task \in Prompts
    /\ driving.kind = "replan" => driving.of # 0

HorizonInv ==
    /\ task \in [Tasks -> TaskRecords] /\ taskRuns \in Seq(RunRecords) /\ driving \in Drivings
    /\ session \in Sessions
    /\ RunsExist /\ DrivesItsTask

\* The runs after a step: none is lost, and each names one that exists.
Onward(runs) ==
    /\ runs \in Seq(RunRecords) /\ Len(taskRuns) <= Len(runs)
    /\ \A r \in DOMAIN runs : runs[r].handoff <= Len(runs)

\* The records of the tasks after a step: typed, and a new success was earned.
Justified(tasks) ==
    /\ tasks \in [Tasks -> TaskRecords]
    /\ \A t \in Tasks :
         /\ tasks[t].run <= Len(taskRuns) /\ tasks[t].route <= Len(taskRuns)
         /\ tasks[t].status = "succeeded" /\ t \notin Prompts =>
               task[t].status = "succeeded" \/ EndedBy(tasks[t])

\* What SucceededForReal says of a step.
Earned ==
    \A t \in Tasks \ Prompts :
        task[t].status # "succeeded" /\ task'[t].status = "succeeded" => EndedBy(task'[t])

\* A step that moves runs onward and justifies its tasks keeps the invariant.
LEMMA OnwardKeeps ==
    ASSUME HorizonInv, Onward(taskRuns'), NEW tasks, Justified(tasks), task' = tasks,
           session' \in Sessions,
           driving' \in Drivings, DrivesItsTask',
           driving'.run <= Len(taskRuns'), driving'.of <= Len(taskRuns')
    PROVE  HorizonInv' /\ Earned
<1>1. Len(taskRuns) \in Nat /\ Len(taskRuns') \in Nat /\ Len(taskRuns) <= Len(taskRuns')
  BY DEF Onward, HorizonInv
<1>2. ASSUME NEW t \in Tasks
      PROVE  task'[t].run <= Len(taskRuns') /\ task'[t].route <= Len(taskRuns')
  <2>1. /\ tasks[t].run \in Nat /\ tasks[t].route \in Int
        /\ tasks[t].run <= Len(taskRuns) /\ tasks[t].route <= Len(taskRuns)
    BY DEF Justified, TaskRecords
  <2> QED
    BY <1>1, <2>1
<1>3. RunsExist'
  BY <1>2 DEF RunsExist, Onward
<1>4. Earned
  BY DEF Earned, Justified
<1> QED
  BY <1>3, <1>4 DEF HorizonInv, Justified, Onward

LEMMA TasksJustified == HorizonInv => Justified(task)
  BY DEF HorizonInv, Justified, RunsExist

LEMMA RunsOnward == HorizonInv => Onward(taskRuns)
<1> SUFFICES ASSUME HorizonInv PROVE Onward(taskRuns)
  OBVIOUS
<1>1. taskRuns \in Seq(RunRecords) /\ Len(taskRuns) \in Nat
  BY DEF HorizonInv
<1> QED
  BY <1>1 DEF HorizonInv, Onward, RunsExist

\* A run that is not done may move; one may be added.
LEMMA RunMoves ==
    ASSUME HorizonInv, NEW r \in DOMAIN taskRuns, NEW run \in RunRecords,
           run.handoff <= Len(taskRuns)
    PROVE  Onward([taskRuns EXCEPT ![r] = run])
<1> DEFINE runs == [taskRuns EXCEPT ![r] = run]
<1>1. taskRuns \in Seq(RunRecords) /\ Len(taskRuns) \in Nat
      /\ \A i \in DOMAIN taskRuns : taskRuns[i].handoff <= Len(taskRuns)
  BY DEF HorizonInv, RunsExist
<1>2. runs \in Seq(RunRecords) /\ Len(runs) = Len(taskRuns) /\ DOMAIN runs = DOMAIN taskRuns
  BY <1>1
<1>3. \A i \in DOMAIN runs : runs[i] = IF i = r THEN run ELSE taskRuns[i]
  BY <1>1
<1> HIDE DEF runs
<1>4. Onward(runs)
  BY <1>1, <1>2, <1>3 DEF Onward
<1> QED
  BY <1>4 DEF runs

LEMMA RunAdded ==
    ASSUME HorizonInv, NEW runs, Onward(runs), NEW run \in RunRecords,
           run.handoff <= Len(runs) + 1
    PROVE  Onward(Append(runs, run)) /\ Len(Append(runs, run)) = Len(runs) + 1
<1> DEFINE more == Append(runs, run)
<1>1. /\ runs \in Seq(RunRecords) /\ Len(runs) \in Nat /\ Len(taskRuns) \in Nat
      /\ Len(taskRuns) <= Len(runs) /\ DOMAIN taskRuns = 1 .. Len(taskRuns)
      /\ \A i \in DOMAIN runs : runs[i].handoff \in Int /\ runs[i].handoff <= Len(runs)
  <2>1. runs \in Seq(RunRecords) /\ taskRuns \in Seq(RunRecords)
        /\ Len(taskRuns) <= Len(runs) /\ \A i \in DOMAIN runs : runs[i].handoff <= Len(runs)
    BY DEF HorizonInv, Onward
  <2>2. \A i \in DOMAIN runs : runs[i] \in RunRecords
    BY <2>1
  <2>3. \A i \in DOMAIN runs : runs[i].handoff \in Int
    BY <2>2 DEF RunRecords
  <2> QED
    BY <2>1, <2>3
<1>2. /\ more \in Seq(RunRecords) /\ Len(more) = Len(runs) + 1
      /\ more[Len(runs) + 1] = run /\ \A i \in 1 .. Len(runs) : more[i] = runs[i]
      /\ DOMAIN more = 1 .. Len(runs) + 1 /\ DOMAIN runs = 1 .. Len(runs)
  BY <1>1
<1> HIDE DEF more
<1>3. \A i \in DOMAIN more : more[i].handoff <= Len(more)
  <2> TAKE i \in DOMAIN more
  <2>1. CASE i = Len(runs) + 1
    BY <1>2, <2>1
  <2>2. CASE i \in 1 .. Len(runs)
    <3>1. more[i] = runs[i] /\ runs[i].handoff \in Int /\ runs[i].handoff <= Len(runs)
      BY <1>1, <1>2, <2>2
    <3> QED
      BY <1>1, <1>2, <3>1
  <2> QED
    BY <1>1, <1>2, <2>1, <2>2
<1>4. Onward(more)
  BY <1>1, <1>2, <1>3 DEF Onward
<1> QED
  BY <1>2, <1>4 DEF more

LEMMA OneTaskChanges ==
    ASSUME NEW tasks, Justified(tasks), NEW t \in Tasks, NEW record \in TaskRecords,
           record.run <= Len(taskRuns), record.route <= Len(taskRuns),
           record.status = "succeeded" /\ t \notin Prompts =>
               task[t].status = "succeeded" \/ EndedBy(record)
    PROVE  Justified([tasks EXCEPT ![t] = record])
<1> DEFINE next == [tasks EXCEPT ![t] = record]
<1>1. next \in [Tasks -> TaskRecords] /\ \A u \in Tasks : next[u] = IF u = t THEN record ELSE tasks[u]
  BY DEF Justified
<1> HIDE DEF next
<1>2. Justified(next)
  BY <1>1 DEF Justified
<1> QED
  BY <1>2 DEF next

\* A task that is marked, and not as done, needs no justification.
LEMMA MarkedJustified ==
    ASSUME NEW tasks, Justified(tasks), NEW next \in [Tasks -> TaskRecords],
           \A t \in Tasks : \/ next[t] = tasks[t]
                            \/ /\ next[t].status # "succeeded" /\ next[t].route = tasks[t].route
                               /\ next[t].run = tasks[t].run \/ next[t].run <= Len(taskRuns)
    PROVE  Justified(next)
  BY DEF Justified

LEMMA SkippedJustified ==
    ASSUME NEW tasks, Justified(tasks)
    PROVE  Justified(Skipped(tasks))
<1>1. PICK blocked : Skipped(tasks) =
          [t \in Tasks |-> IF tasks[t].status = "pending" /\ t \in blocked
                           THEN [tasks[t] EXCEPT !.status = "blocked"] ELSE tasks[t]]
  BY DEF Skipped
<1>2. ASSUME NEW t \in Tasks
      PROVE  /\ Skipped(tasks)[t] \in TaskRecords
             /\ \/ Skipped(tasks)[t] = tasks[t]
                \/ /\ Skipped(tasks)[t].status # "succeeded"
                   /\ Skipped(tasks)[t].route = tasks[t].route
                   /\ Skipped(tasks)[t].run = tasks[t].run
  <2>1. tasks[t] \in TaskRecords
    BY DEF Justified
  <2>2. /\ [tasks[t] EXCEPT !.status = "blocked"] \in TaskRecords
        /\ [tasks[t] EXCEPT !.status = "blocked"].status = "blocked"
        /\ [tasks[t] EXCEPT !.status = "blocked"].route = tasks[t].route
        /\ [tasks[t] EXCEPT !.status = "blocked"].run = tasks[t].run
    BY <2>1 DEF TaskRecords
  <2> QED
    BY <1>1, <2>1, <2>2
<1>3. Skipped(tasks) \in [Tasks -> TaskRecords]
  BY <1>1, <1>2
<1> QED
  BY <1>2, <1>3, MarkedJustified

\* The end of a command that may have released the slot.
LEMMA SettledKeeps ==
    ASSUME HorizonInv, Onward(taskRuns'), NEW tasks, Justified(tasks),
           NEW active \in Tasks \cup {0}, Settled(active, tasks),
           driving' \in {driving, NoDriving}
    PROVE  HorizonInv' /\ Earned
<1>1. task' = (IF active = 0 THEN Skipped(tasks) ELSE tasks) /\ session' \in Sessions
  <2>1. session.status \in {"created", "running", "succeeded", "empty", "abandoned"}
    BY DEF HorizonInv, Sessions
  <2> QED
    BY <2>1 DEF Settled, SessionOver, Sessions
<1>2. Justified(IF active = 0 THEN Skipped(tasks) ELSE tasks)
  BY SkippedJustified
<1>3. driving' \in Drivings /\ DrivesItsTask'
  BY DEF HorizonInv, DrivesItsTask, Drivings, NoDriving
<1>4. driving'.run <= Len(taskRuns') /\ driving'.of <= Len(taskRuns')
  <2>1. /\ driving.run \in Nat /\ driving.of \in Nat
        /\ driving.run <= Len(taskRuns) /\ driving.of <= Len(taskRuns)
    BY DEF HorizonInv, RunsExist, Drivings
  <2>2. Len(taskRuns) \in Nat /\ Len(taskRuns') \in Nat /\ Len(taskRuns) <= Len(taskRuns')
    BY DEF HorizonInv, Onward
  <2>3. CASE driving' = driving
    BY <2>1, <2>2, <2>3
  <2>4. CASE driving' = NoDriving
    BY <2>2, <2>4 DEF NoDriving
  <2> QED
    BY <2>3, <2>4
<1> QED
  BY <1>1, <1>2, <1>3, <1>4, OnwardKeeps

LEMMA DeferredJustified ==
    ASSUME HorizonInv, NEW t
    PROVE  Justified(Deferred(t))
<1>1. ASSUME NEW u \in Tasks
      PROVE  /\ Deferred(t)[u] \in TaskRecords
             /\ \/ Deferred(t)[u] = task[u]
                \/ /\ Deferred(t)[u].status # "succeeded"
                   /\ Deferred(t)[u].route = task[u].route
                   /\ Deferred(t)[u].run = task[u].run
  <2>1. task[u] \in TaskRecords
    BY DEF HorizonInv
  <2>2. ASSUME NEW status \in {"deferred", "blocked"}
        PROVE  /\ [task[u] EXCEPT !.status = status] \in TaskRecords
               /\ [task[u] EXCEPT !.status = status].status # "succeeded"
               /\ [task[u] EXCEPT !.status = status].route = task[u].route
               /\ [task[u] EXCEPT !.status = status].run = task[u].run
    BY <2>1 DEF TaskRecords
  <2>3. Deferred(t)[u] \in {[task[u] EXCEPT !.status = "deferred"],
                            [task[u] EXCEPT !.status = "blocked"], task[u]}
    BY <2>1 DEF Deferred
  <2> QED
    BY <2>1, <2>2, <2>3
<1>2. Deferred(t) \in [Tasks -> TaskRecords]
  BY <1>1 DEF Deferred
<1> QED
  BY <1>1, <1>2, TasksJustified, MarkedJustified

\* A run that rests, ends or goes on.
LEMMA StatusMoves ==
    ASSUME HorizonInv, NEW r \in DOMAIN taskRuns,
           NEW status \in {"advancing"} \cup Resumable \cup RunEnded
    PROVE  Onward([taskRuns EXCEPT ![r].status = status])
<1>1. taskRuns[r] \in RunRecords /\ taskRuns[r].handoff <= Len(taskRuns)
  BY DEF HorizonInv, RunsExist
<1> DEFINE run == [taskRuns[r] EXCEPT !.status = status]
<1>2. run \in RunRecords /\ run.handoff <= Len(taskRuns)
  BY <1>1 DEF RunRecords
<1>3. [taskRuns EXCEPT ![r].status = status] = [taskRuns EXCEPT ![r] = run]
  OBVIOUS
<1> HIDE DEF run
<1> QED
  BY <1>2, <1>3, RunMoves

LEMMA ActionsMove ==
    ASSUME HorizonInv, NEW r \in DOMAIN taskRuns, NEW status \in ActedOn(r)
    PROVE  Onward([taskRuns EXCEPT ![r].status = status])
<1>1. status \in {"advancing"} \cup Resumable \cup RunEnded
  BY DEF ActedOn, RunEnded
<1> QED
  BY <1>1, StatusMoves

LEMMA StopMoves ==
    ASSUME HorizonInv, NEW t \in Tasks
    PROVE  Onward(StopOwnRun(t))
<1>1. CASE task[t].run # 0 /\ taskRuns[task[t].run].status = "advancing"
  <2>1. task[t].run \in DOMAIN taskRuns
    <3>1. task[t].run \in Nat /\ task[t].run <= Len(taskRuns) /\ taskRuns \in Seq(RunRecords)
      BY DEF HorizonInv, RunsExist, TaskRecords
    <3> QED
      BY <1>1, <3>1
  <2>2. StopOwnRun(t) = [taskRuns EXCEPT ![task[t].run].status = "gate"]
    BY <1>1 DEF StopOwnRun
  <2>3. "gate" \in {"advancing"} \cup Resumable \cup RunEnded
    BY <1>1 DEF Resumable
  <2>4. Onward([taskRuns EXCEPT ![task[t].run].status = "gate"])
    BY <2>1, <2>3, StatusMoves
  <2> QED
    BY <2>2, <2>4
<1>2. CASE ~(task[t].run # 0 /\ taskRuns[task[t].run].status = "advancing")
  BY <1>2, RunsOnward DEF StopOwnRun
<1> QED
  BY <1>1, <1>2

LEMMA SlotTyped == ASSUME HorizonInv, NEW t PROVE SlotAfter(t) \in Tasks \cup {0}
  BY DEF SlotAfter, HorizonInv, Sessions

\* The arbiter ends nothing as done.
LEMMA ArbiterKeeps ==
    ASSUME HorizonInv, NEW t \in Tasks, NEW r, r # 0 => r \in DOMAIN taskRuns, Arbitrate(t, r),
           driving' \in {driving, NoDriving}
    PROVE  HorizonInv' /\ Earned
<1>1. CASE ArbiterDefers(t)
  BY <1>1, StopMoves, DeferredJustified, SlotTyped, SettledKeeps DEF ArbiterDefers, DeferTo
<1>2. CASE ArbiterRestarts(t)
  <2> DEFINE record == [task[t] EXCEPT !.status = "pending", !.run = 0]
  <2>1. task[t] \in TaskRecords /\ task \in [Tasks -> TaskRecords] /\ Len(taskRuns) \in Nat
        /\ task[t].route <= Len(taskRuns)
    BY DEF HorizonInv, RunsExist
  <2>2. /\ record \in TaskRecords /\ record.run = 0
        /\ record.route = task[t].route /\ record.status = "pending"
    BY <2>1 DEF TaskRecords, OpenStatuses
  <2>3. [task EXCEPT ![t].status = "pending", ![t].run = 0] = [task EXCEPT ![t] = record]
    BY <2>1
  <2> HIDE DEF record
  <2>4. record.run <= Len(taskRuns) /\ record.route <= Len(taskRuns)
    BY <2>1, <2>2
  <2>5. Justified([task EXCEPT ![t].status = "pending", ![t].run = 0])
    BY <2>2, <2>3, <2>4, TasksJustified, OneTaskChanges
  <2> QED
    BY <1>2, <2>5, StopMoves, SlotTyped, SettledKeeps DEF ArbiterRestarts
<1>3. CASE ArbiterContinues(t, r)
  <2>1. r \in DOMAIN taskRuns /\ taskRuns[r].status \in Resumable
        /\ session' = session /\ task' = task
    BY <1>3 DEF ArbiterContinues
  <2>5. PICK status \in ActedOn(r) : taskRuns' = [taskRuns EXCEPT ![r].status = status]
    BY <1>3 DEF ArbiterContinues
  <2>2. Onward(taskRuns')
    BY <2>1, <2>5, ActionsMove
  <2>3. driving' \in Drivings /\ DrivesItsTask' /\ session' \in Sessions
    BY <2>1 DEF HorizonInv, DrivesItsTask, Drivings, NoDriving
  <2>4. driving'.run <= Len(taskRuns') /\ driving'.of <= Len(taskRuns')
    <3>1. /\ driving.run <= Len(taskRuns) /\ driving.of <= Len(taskRuns)
          /\ taskRuns \in Seq(RunRecords)
      BY DEF HorizonInv, RunsExist
    <3>2. Len(taskRuns') = Len(taskRuns) /\ Len(taskRuns) \in Nat
      BY <2>1, <2>5, <3>1
    <3> QED
      BY <3>1, <3>2 DEF NoDriving
  <2> QED
    BY <2>1, <2>2, <2>3, <2>4, TasksJustified, OnwardKeeps
<1> QED
  BY <1>1, <1>2, <1>3 DEF Arbitrate

LEMMA RunNamed ==
    ASSUME HorizonInv, NEW t \in Tasks
    PROVE  /\ task[t] \in TaskRecords /\ Len(taskRuns) \in Nat
           /\ DOMAIN taskRuns = 1 .. Len(taskRuns)
           /\ task[t].run # 0 => task[t].run \in DOMAIN taskRuns
           /\ task[t].route > 0 => task[t].route \in DOMAIN taskRuns
<1>1. /\ task[t] \in TaskRecords /\ taskRuns \in Seq(RunRecords)
      /\ task[t].run <= Len(taskRuns) /\ task[t].route <= Len(taskRuns)
  BY DEF HorizonInv, RunsExist
<1>2. task[t].run \in Nat /\ task[t].route \in Int
  BY <1>1 DEF TaskRecords
<1>3. Len(taskRuns) \in Nat /\ DOMAIN taskRuns = 1 .. Len(taskRuns)
  BY <1>1
<1> QED
  BY <1>1, <1>2, <1>3

\* A task is marked done by its own run only with what that run handed over.
LEMMA SettleKeeps ==
    ASSUME HorizonInv, NEW t \in Tasks, task[t].run # 0, SettleSuccess(t, task[t].run),
           taskRuns[task[t].run].status = "succeeded" \/ RouteFinished(task[t].route)
    PROVE  HorizonInv' /\ Earned
<1> DEFINE own == task[t].run
           route == RouteAfter(t, own)
           ended == IF route = NotRouted \/ RouteFinished(route) THEN "succeeded" ELSE "running"
           next == IF task[t].status = "replanning" /\ own = task[t].run
                   THEN [task[t] EXCEPT !.status = "pending", !.run = 0]
                   ELSE [task[t] EXCEPT !.route = route, !.status = ended]
<1>1. /\ task[t] \in TaskRecords /\ Len(taskRuns) \in Nat
      /\ DOMAIN taskRuns = 1 .. Len(taskRuns) /\ own \in DOMAIN taskRuns
      /\ task[t].run <= Len(taskRuns) /\ task[t].route <= Len(taskRuns)
      /\ task[t].route > 0 => task[t].route \in DOMAIN taskRuns
  BY RunNamed DEF HorizonInv, RunsExist
<1>2. taskRuns[own] \in RunRecords /\ taskRuns[own].handoff <= Len(taskRuns)
  BY <1>1 DEF HorizonInv, RunsExist
<1>3. route = (IF task[t].route # NotRouted THEN task[t].route ELSE taskRuns[own].handoff)
  BY DEF RouteAfter
<1>4. route \in Int /\ route <= Len(taskRuns)
  BY <1>1, <1>2, <1>3 DEF TaskRecords, RunRecords
<1>5. /\ Settled(IF next.status = "running" THEN session.active ELSE 0, [task EXCEPT ![t] = next])
      /\ taskRuns' = taskRuns /\ driving' = driving
  BY DEF SettleSuccess
<1> HIDE DEF route
<1>6. next \in TaskRecords /\ next.run <= Len(taskRuns) /\ next.route <= Len(taskRuns)
  <2>1. CASE task[t].status = "replanning"
    <3>1. next = [task[t] EXCEPT !.status = "pending", !.run = 0]
      BY <2>1
    <3>2. next \in TaskRecords /\ next.run = 0 /\ next.route = task[t].route
      BY <1>1, <3>1 DEF TaskRecords, OpenStatuses
    <3> HIDE DEF next
    <3> QED
      BY <1>1, <3>2
  <2>2. CASE task[t].status # "replanning"
    <3>1. next = [task[t] EXCEPT !.route = route, !.status = ended]
      BY <2>2
    <3>2. ended \in {"succeeded", "running"}
      OBVIOUS
    <3>3. next \in TaskRecords /\ next.run = task[t].run /\ next.route = route
      BY <1>1, <1>4, <3>1, <3>2 DEF TaskRecords, OpenStatuses
    <3> HIDE DEF next
    <3> QED
      BY <1>1, <1>4, <3>3
  <2> QED
    BY <2>1, <2>2
<1>7. next.status = "succeeded" => EndedBy(next)
  <2> SUFFICES ASSUME next.status = "succeeded" PROVE EndedBy(next)
    OBVIOUS
  <2>1. task[t].status # "replanning"
    <3>1. [task[t] EXCEPT !.status = "pending", !.run = 0].status = "pending"
      BY <1>1 DEF TaskRecords
    <3> QED
      BY <3>1
  <2>2. next = [task[t] EXCEPT !.route = route, !.status = ended]
    BY <2>1
  <2>3. next.route = route /\ next.run = own /\ next.status = ended
    BY <1>1, <2>2 DEF TaskRecords
  <2>4. route = NotRouted \/ RouteFinished(route)
    BY <2>3
  <2> HIDE DEF next
  <2>5. CASE RouteFinished(route)
    <3>1. route > 0 /\ route <= Len(taskRuns) /\ route \in Int
      BY <1>4, <2>5 DEF RouteFinished
    <3>2. route \in DOMAIN taskRuns
      BY <1>1, <3>1
    <3> QED
      BY <2>3, <2>5, <3>2 DEF EndedBy
  <2>6. CASE route = NotRouted
    <3>1. task[t].route = NotRouted /\ taskRuns[own].handoff = NotRouted
      BY <1>3, <2>6
    <3>2. ~RouteFinished(task[t].route)
      BY <3>1 DEF RouteFinished, NotRouted
    <3> QED
      BY <1>1, <2>3, <2>6, <3>1, <3>2 DEF EndedBy
  <2> QED
    BY <2>4, <2>5, <2>6
<1> HIDE DEF next
<1>8. Justified([task EXCEPT ![t] = next])
  BY <1>6, <1>7, TasksJustified, OneTaskChanges
<1>9. (IF next.status = "running" THEN session.active ELSE 0) \in Tasks \cup {0}
  BY DEF HorizonInv, Sessions
<1> QED
  BY <1>5, <1>8, <1>9, RunsOnward, SettledKeeps

LEMMA NewRunTyped ==
    ASSUME HorizonInv, NEW t \in Tasks, NEW role \in {"task", "replan", "delivery"}
    PROVE  NewRun(t, role) \in RunRecords /\ NewRun(t, role).handoff = 0
<1>1. task[t].replans \in Nat
  BY DEF HorizonInv, TaskRecords
<1> QED
  BY <1>1 DEF NewRun, RunRecords, NotRouted

LEMMA StartReplanKeeps ==
    ASSUME HorizonInv, NEW t \in Tasks, NEW r \in DOMAIN taskRuns, r \in Nat \ {0}, StartReplan(t, r)
    PROVE  HorizonInv' /\ Earned
<1> DEFINE counted == [taskRuns[r] EXCEPT !.replans = taskRuns[r].replans + 1]
           runs == [taskRuns EXCEPT ![r] = counted]
           added == [NewRun(t, "replan") EXCEPT !.replans = ReplansSpent(t, r) + 1]
<1>1. /\ taskRuns[r] \in RunRecords /\ taskRuns[r].handoff <= Len(taskRuns)
      /\ task[t] \in TaskRecords /\ Len(taskRuns) \in Nat /\ taskRuns \in Seq(RunRecords)
  BY RunNamed DEF HorizonInv, RunsExist
<1>2. /\ counted \in RunRecords /\ counted.handoff = taskRuns[r].handoff
      /\ counted.status = taskRuns[r].status
  BY <1>1 DEF RunRecords
<1> HIDE DEF counted
<1>3. Onward(runs) /\ Len(runs) = Len(taskRuns)
  BY <1>1, <1>2, RunMoves
<1>4. ReplansSpent(t, r) + 1 \in Nat
  <2>1. taskRuns[r].replans \in Nat /\ task[t].replans \in Nat
    BY <1>1 DEF TaskRecords, RunRecords
  <2>2. ReplansSpent(t, r) \in Nat
    BY <2>1 DEF ReplansSpent
  <2> QED
    BY <2>2
<1>5. added \in RunRecords /\ added.handoff = 0
  <2>1. NewRun(t, "replan") \in RunRecords /\ NewRun(t, "replan").handoff = 0
    BY NewRunTyped
  <2> QED
    BY <1>4, <2>1 DEF RunRecords
<1>6. /\ taskRuns' = Append(runs, added)
      /\ driving' = [kind |-> "replan", task |-> t, run |-> Len(taskRuns) + 1, of |-> r]
      /\ session' = session /\ task' = task
  BY DEF StartReplan, counted
<1> HIDE DEF runs, added
<1>7. Onward(taskRuns') /\ Len(taskRuns') = Len(taskRuns) + 1
  <2>1. added.handoff <= Len(runs) + 1
    BY <1>1, <1>3, <1>5
  <2> QED
    BY <1>3, <1>5, <1>6, <2>1, RunAdded
<1>8. driving'.run <= Len(taskRuns') /\ driving'.of <= Len(taskRuns')
  <2>1. r <= Len(taskRuns)
    BY <1>1
  <2> QED
    BY <1>1, <1>6, <1>7, <2>1
<1>9. driving' \in Drivings /\ DrivesItsTask' /\ session' \in Sessions
  BY <1>1, <1>6 DEF HorizonInv, Drivings, DrivesItsTask
<1> QED
  BY <1>6, <1>7, <1>8, <1>9, TasksJustified, OnwardKeeps

\* A driver that returned: the run it drove is the task's own, or a delivery
\* that has not succeeded.
LEMMA DrivenKeeps ==
    ASSUME HorizonInv, NEW t \in Tasks, NEW r \in DOMAIN taskRuns, r \in Nat \ {0},
           taskRuns[r].status = "succeeded" => r = task[t].run, driving = NoDriving, Driven(t, r)
    PROVE  HorizonInv' /\ Earned
<1>1. CASE taskRuns[r].status = "succeeded" /\ SettleSuccess(t, r)
  BY <1>1, SettleKeeps
<1>2. CASE StartReplan(t, r)
  BY <1>2, StartReplanKeeps
<1>3. CASE Arbitrate(t, r) /\ UNCHANGED driving
  BY <1>3, ArbiterKeeps
<1> QED
  BY <1>1, <1>2, <1>3 DEF Driven

LEMMA CheckpointKeeps ==
    ASSUME HorizonInv, Checkpoint \/ ReconcileTask
    PROVE  HorizonInv' /\ Earned
<1>1. PICK t \in Tasks : t = session.active
  BY DEF HorizonInv, Sessions, Checkpoint, ReconcileTask
<1> DEFINE route == task[t].route
           own == task[t].run
<1>2. own # 0 /\ driving = NoDriving
  BY <1>1 DEF Checkpoint, ReconcileTask
<1>3. /\ own \in DOMAIN taskRuns /\ own \in Nat \ {0}
      /\ route > 0 => route \in DOMAIN taskRuns /\ route \in Nat \ {0}
  BY <1>2, RunNamed DEF TaskRecords
<1>4. CASE Checkpoint
  <2>1. CASE Driven(t, own)
    BY <1>2, <1>3, <2>1, DrivenKeeps
  <2>2. CASE RouteFinished(route) /\ SettleSuccess(t, own)
    BY <1>2, <2>2, SettleKeeps
  <2>3. CASE Arbitrate(t, IF route > 0 THEN route ELSE own) /\ UNCHANGED driving
    BY <1>3, <2>3, ArbiterKeeps
  <2>4. CASE route > 0 /\ taskRuns[route].status \in Resumable /\ Driven(t, route)
    BY <1>2, <1>3, <2>4, DrivenKeeps DEF Resumable
  <2> QED
    BY <1>1, <1>4, <2>1, <2>2, <2>3, <2>4 DEF Checkpoint
<1>5. CASE ReconcileTask
  <2>1. CASE taskRuns[own].status = "succeeded" /\ SettleSuccess(t, own)
    BY <1>2, <2>1, SettleKeeps
  <2>2. CASE StartReplan(t, own)
    BY <1>3, <2>2, StartReplanKeeps
  <2>3. CASE RouteFinished(route) /\ SettleSuccess(t, own)
    BY <1>2, <2>3, SettleKeeps
  <2> QED
    BY <1>1, <1>5, <2>1, <2>2, <2>3 DEF ReconcileTask
<1> QED
  BY <1>4, <1>5

LEMMA FirstIsEligible ==
    ASSUME EligibleNow(Skipped(task)) # {}
    PROVE  FirstEligible(Skipped(task)) \in Tasks
<1>1. EligibleNow(Skipped(task)) \in SUBSET Nat /\ EligibleNow(Skipped(task)) \subseteq Tasks
  BY HorizonAssumption DEF EligibleNow
<1>2. \E t \in EligibleNow(Skipped(task)) : \A u \in EligibleNow(Skipped(task)) : t <= u
  BY <1>1, LeastExists
<1> QED
  BY <1>1, <1>2 DEF FirstEligible

\* Steps that leave the runs alone.
LEMMA StillKeeps ==
    ASSUME HorizonInv, taskRuns' = taskRuns, Justified(task'),
           session' \in Sessions,
           driving' \in {driving, NoDriving} \/ (driving' \in Drivings /\ DrivesItsTask'
                                                 /\ driving'.run = 0 /\ driving'.of = 0)
    PROVE  HorizonInv' /\ Earned
<1>1. driving' \in Drivings /\ DrivesItsTask'
  BY DEF HorizonInv, DrivesItsTask, Drivings, NoDriving
<1>2. /\ Len(taskRuns) \in Nat /\ driving.run <= Len(taskRuns) /\ driving.of <= Len(taskRuns)
  BY DEF HorizonInv, RunsExist
<1>3. driving'.run <= Len(taskRuns') /\ driving'.of <= Len(taskRuns')
  BY <1>2 DEF NoDriving
<1> QED
  BY <1>1, <1>3, RunsOnward, OnwardKeeps

LEMMA OpeningKeeps ==
    ASSUME HorizonInv, Opening
    PROVE  HorizonInv' /\ Earned
<1> DEFINE skipped == Skipped(task)
           t == FirstEligible(skipped)
<1>1. Justified(skipped)
  BY TasksJustified, SkippedJustified
<1>2. CASE OpenTaskRun
  <2>1. t \in Tasks
    BY <1>2, FirstIsEligible DEF OpenTaskRun
  <2>2. NewRun(t, "task") \in RunRecords /\ NewRun(t, "task").handoff = 0
    BY <2>1, NewRunTyped
  <2>3. Onward(taskRuns) /\ Len(taskRuns) \in Nat
    BY RunsOnward DEF HorizonInv
  <2>4. /\ taskRuns' = Append(taskRuns, NewRun(t, "task"))
        /\ driving' = [kind |-> "task", task |-> t, run |-> Len(taskRuns) + 1, of |-> 0]
        /\ session' = session /\ task' = task
    BY <1>2 DEF OpenTaskRun
  <2> HIDE DEF t
  <2>5. Onward(taskRuns') /\ Len(taskRuns') = Len(taskRuns) + 1
    BY <2>2, <2>3, <2>4, RunAdded
  <2>6. /\ driving' \in Drivings /\ DrivesItsTask' /\ session' \in Sessions
        /\ driving'.run <= Len(taskRuns') /\ driving'.of <= Len(taskRuns')
    BY <2>1, <2>3, <2>4, <2>5 DEF HorizonInv, Drivings, DrivesItsTask
  <2> QED
    BY <2>4, <2>5, <2>6, TasksJustified, OnwardKeeps
<1>3. CASE RecordTaskRun
  <2> DEFINE d == driving.task
             record == [skipped[d] EXCEPT !.status = "running", !.run = driving.run]
             next == [skipped EXCEPT ![d].status = "running", ![d].run = driving.run]
  <2>1. d \in Tasks /\ driving.run \in Nat /\ driving.run <= Len(taskRuns)
    BY <1>3 DEF RecordTaskRun, HorizonInv, DrivesItsTask, RunsExist, Drivings
  <2>2. /\ skipped \in [Tasks -> TaskRecords] /\ skipped[d] \in TaskRecords
        /\ skipped[d].route <= Len(taskRuns)
    BY <1>1, <2>1 DEF Justified
  <2>3. task' = next /\ session' \in Sessions /\ driving' = NoDriving /\ taskRuns' = taskRuns
    BY <1>3, <2>1 DEF RecordTaskRun, HorizonInv, Sessions
  <2> HIDE DEF skipped
  <2>4. record \in TaskRecords /\ record.run = driving.run /\ record.status = "running"
        /\ record.route = skipped[d].route
    BY <2>1, <2>2 DEF TaskRecords, OpenStatuses
  <2>5. next = [skipped EXCEPT ![d] = record]
    BY <2>1, <2>2
  <2> HIDE DEF record, next
  <2>6. Justified(next)
    BY <1>1, <2>1, <2>2, <2>4, <2>5, OneTaskChanges
  <2> QED
    BY <2>1, <2>3, <2>6, StillKeeps
<1>4. CASE StartPrompt
  <2> DEFINE record == [skipped[t] EXCEPT !.status = "running"]
  <2>1. t \in Tasks /\ t \in Prompts
    BY <1>4, FirstIsEligible DEF StartPrompt
  <2>2. /\ task' = [skipped EXCEPT ![t].status = "running"]
        /\ session' = [session EXCEPT !.active = t]
        /\ driving' = [NoDriving EXCEPT !.kind = "prompt", !.task = t]
        /\ taskRuns' = taskRuns
    BY <1>4 DEF StartPrompt
  <2> HIDE DEF skipped, t
  <2>3. /\ skipped \in [Tasks -> TaskRecords] /\ skipped[t] \in TaskRecords
        /\ skipped[t].route <= Len(taskRuns) /\ skipped[t].run <= Len(taskRuns)
    BY <1>1, <2>1 DEF Justified
  <2>4. record \in TaskRecords /\ record.run = skipped[t].run /\ record.status = "running"
        /\ record.route = skipped[t].route
    BY <2>1, <2>3 DEF TaskRecords, OpenStatuses
  <2>5. task' = [skipped EXCEPT ![t] = record]
    BY <2>1, <2>2, <2>3
  <2> HIDE DEF record
  <2>6. Justified(task')
    BY <1>1, <2>1, <2>3, <2>4, <2>5, OneTaskChanges
  <2>7. driving' = [kind |-> "prompt", task |-> t, run |-> 0, of |-> 0]
    BY <2>2 DEF NoDriving
  <2>8. driving' \in Drivings /\ DrivesItsTask'
    BY <2>1, <2>7 DEF Drivings, DrivesItsTask
  <2>9. session' \in Sessions
    BY <2>1, <2>2 DEF HorizonInv, Sessions
  <2>10. driving'.run = 0 /\ driving'.of = 0
    BY <2>7
  <2> QED
    BY <2>2, <2>6, <2>8, <2>9, <2>10, StillKeeps
<1>5. CASE FinishPrompt
  <2> DEFINE p == driving.task
  <2>1. p \in Tasks /\ p \in Prompts /\ driving' = NoDriving
    BY <1>5 DEF FinishPrompt, HorizonInv, DrivesItsTask
  <2>2. CASE Settled(0, [task EXCEPT ![p].status = "succeeded"]) /\ taskRuns' = taskRuns
    <3> DEFINE record == [task[p] EXCEPT !.status = "succeeded"]
    <3>1. /\ task \in [Tasks -> TaskRecords] /\ task[p] \in TaskRecords
          /\ task[p].route <= Len(taskRuns) /\ task[p].run <= Len(taskRuns)
      BY <2>1 DEF HorizonInv, RunsExist
    <3>2. record \in TaskRecords /\ record.run = task[p].run /\ record.route = task[p].route
      BY <3>1 DEF TaskRecords
    <3>3. [task EXCEPT ![p].status = "succeeded"] = [task EXCEPT ![p] = record]
      BY <2>1, <3>1
    <3> HIDE DEF record
    <3>4. Justified([task EXCEPT ![p].status = "succeeded"])
      BY <2>1, <3>1, <3>2, <3>3, TasksJustified, OneTaskChanges
    <3> QED
      BY <2>1, <2>2, <3>4, RunsOnward, SettledKeeps
  <2>3. CASE Arbitrate(p, 0)
    BY <2>1, <2>3, ArbiterKeeps
  <2> QED
    BY <1>5, <2>2, <2>3 DEF FinishPrompt
<1>6. CASE NothingEligible
  <2>1. task' = skipped /\ taskRuns' = taskRuns /\ driving' = driving
        /\ session' = [session EXCEPT !.status = SessionOver(session.status, skipped)]
    BY <1>6 DEF NothingEligible
  <2>2. session' \in Sessions
    BY <2>1 DEF SessionOver, HorizonInv, Sessions
  <2> QED
    BY <1>1, <2>1, <2>2, StillKeeps
<1> QED
  BY <1>2, <1>3, <1>4, <1>5, <1>6 DEF Opening

LEMMA RecordReplanKeeps ==
    ASSUME HorizonInv, RecordReplan
    PROVE  HorizonInv' /\ Earned
<1> DEFINE d == driving.task
           spent == ReplansSpent(d, driving.of)
           record == [task[d] EXCEPT !.status = "replanning", !.run = driving.run,
                                     !.replans = spent]
<1>1. /\ d \in Tasks /\ driving.run \in Nat /\ driving.run <= Len(taskRuns)
      /\ driving.of \in Nat \ {0} /\ driving.of <= Len(taskRuns)
  BY DEF RecordReplan, HorizonInv, DrivesItsTask, RunsExist, Drivings
<1>2. /\ task \in [Tasks -> TaskRecords] /\ task[d] \in TaskRecords
      /\ task[d].route <= Len(taskRuns)
  BY <1>1 DEF HorizonInv, RunsExist
<1>3. taskRuns[driving.of] \in RunRecords
  <2>1. taskRuns \in Seq(RunRecords) /\ driving.of \in 1 .. Len(taskRuns)
    BY <1>1 DEF HorizonInv
  <2> QED
    BY <2>1
<1>4. spent \in Nat
  BY <1>2, <1>3 DEF ReplansSpent, TaskRecords, RunRecords
<1>5. /\ task' = [task EXCEPT ![d] = record] /\ driving' = NoDriving /\ taskRuns' = taskRuns
      /\ session' = [session EXCEPT !.active = d]
  BY DEF RecordReplan
<1>6. session' \in Sessions
  BY <1>1, <1>5 DEF HorizonInv, Sessions
<1> HIDE DEF spent
<1>7. record \in TaskRecords /\ record.run = driving.run /\ record.status = "replanning"
      /\ record.route = task[d].route
  BY <1>1, <1>2, <1>4 DEF TaskRecords, OpenStatuses
<1> HIDE DEF record
<1>8. Justified(task')
  BY <1>1, <1>2, <1>5, <1>7, TasksJustified, OneTaskChanges
<1> QED
  BY <1>5, <1>6, <1>8, StillKeeps

LEMMA SameDriving ==
    ASSUME HorizonInv, Onward(taskRuns'), driving' = driving, Justified(task'),
           session' \in Sessions
    PROVE  HorizonInv' /\ Earned
<1>1. /\ driving.run \in Nat /\ driving.of \in Nat /\ Len(taskRuns) \in Nat
      /\ driving.run <= Len(taskRuns) /\ driving.of <= Len(taskRuns)
  BY DEF HorizonInv, RunsExist, Drivings
<1>2. Len(taskRuns') \in Nat /\ Len(taskRuns) <= Len(taskRuns')
  BY DEF Onward
<1>3. driving'.run <= Len(taskRuns') /\ driving'.of <= Len(taskRuns')
  BY <1>1, <1>2
<1>4. driving' \in Drivings /\ DrivesItsTask'
  BY DEF HorizonInv, DrivesItsTask
<1> QED
  BY <1>3, <1>4, OnwardKeeps

LEMMA DeferTaskKeeps ==
    ASSUME HorizonInv, NEW t \in Tasks, DeferTask(t)
    PROVE  HorizonInv' /\ Earned
<1>1. /\ taskRuns' = StopOwnRun(t) /\ task' = Deferred(t) /\ driving' = driving
      /\ session' = [status |-> SessionOver(session.status, Deferred(t)), active |-> SlotAfter(t)]
  BY DEF DeferTask
<1>2. SessionOver(session.status, Deferred(t)) \in
          {"created", "running", "succeeded", "empty", "abandoned"}
  BY DEF SessionOver, HorizonInv, Sessions
<1>3. session' \in Sessions
  BY <1>1, <1>2, SlotTyped DEF Sessions
<1> QED
  BY <1>1, <1>3, StopMoves, DeferredJustified, SameDriving

LEMMA ReinstateKeeps ==
    ASSUME HorizonInv, NEW t \in Tasks, NEW restart \in BOOLEAN, ReinstateTask(t, restart)
    PROVE  HorizonInv' /\ Earned
<1> DEFINE own == task[t].run
           accepts == own # 0 /\ taskRuns[own].status \notin {"succeeded", "failed"}
           reopened == restart \/ ~accepts
           again == [task[t] EXCEPT !.status = "pending", !.run = 0]
           onward == [task[t] EXCEPT !.status = "running"]
           back == [u \in Tasks |->
                      IF u = t THEN IF reopened THEN again ELSE onward
                      ELSE IF u \in Dependents(t) /\ task[u].status = "blocked"
                      THEN [task[u] EXCEPT !.status = "pending"] ELSE task[u]]
<1>1. /\ IF reopened THEN taskRuns' = taskRuns
         ELSE \E status \in ActedOn(own) : taskRuns' = [taskRuns EXCEPT ![own].status = status]
      /\ task' = Skipped(back) /\ driving' = driving
      /\ session' = [status |-> "running", active |-> IF reopened THEN 0 ELSE t]
  BY DEF ReinstateTask
<1>2. session' \in Sessions
  BY <1>1 DEF Sessions
<1>3. Onward(taskRuns')
  <2>1. CASE reopened
    BY <1>1, <2>1, RunsOnward
  <2>2. CASE ~reopened
    <3>1. own \in DOMAIN taskRuns
      BY <2>2, RunNamed
    <3>2. PICK status \in ActedOn(own) : taskRuns' = [taskRuns EXCEPT ![own].status = status]
      BY <1>1, <2>2
    <3> QED
      BY <3>1, <3>2, ActionsMove
  <2> QED
    BY <2>1, <2>2
<1>4. ASSUME NEW u \in Tasks
      PROVE  /\ back[u] \in TaskRecords
             /\ \/ back[u] = task[u]
                \/ /\ back[u].status # "succeeded" /\ back[u].route = task[u].route
                   /\ back[u].run = task[u].run \/ back[u].run <= Len(taskRuns)
  <2>1. task[u] \in TaskRecords /\ task[t] \in TaskRecords /\ Len(taskRuns) \in Nat
    BY RunNamed
  <2>2. /\ again \in TaskRecords /\ again.status = "pending" /\ again.route = task[t].route
        /\ again.run = 0
    BY <2>1 DEF TaskRecords, OpenStatuses
  <2>3. /\ onward \in TaskRecords /\ onward.status = "running" /\ onward.route = task[t].route
        /\ onward.run = task[t].run
    BY <2>1 DEF TaskRecords, OpenStatuses
  <2> DEFINE free == [task[u] EXCEPT !.status = "pending"]
  <2>4. /\ free \in TaskRecords /\ free.status = "pending" /\ free.route = task[u].route
        /\ free.run = task[u].run
    BY <2>1 DEF TaskRecords, OpenStatuses
  <2>5. \/ u = t /\ back[u] = again
        \/ u = t /\ back[u] = onward
        \/ back[u] = free
        \/ back[u] = task[u]
    OBVIOUS
  <2> HIDE DEF again, onward, free, back
  <2> QED
    BY <2>1, <2>2, <2>3, <2>4, <2>5
<1>5. back \in [Tasks -> TaskRecords]
  BY <1>4
<1> HIDE DEF back
<1>6. Justified(back)
  BY <1>4, <1>5, TasksJustified, MarkedJustified
<1> QED
  BY <1>1, <1>2, <1>3, <1>6, SkippedJustified, SameDriving

LEMMA RunStepKeeps ==
    ASSUME HorizonInv, NEW r \in Nat \ {0}, RunStep(r)
    PROVE  HorizonInv' /\ Earned
<1>1. r \in DOMAIN taskRuns
  <2>1. r <= Len(taskRuns) /\ taskRuns \in Seq(RunRecords)
    BY DEF RunStep, PlanApproved, Plans, RunRests, HorizonInv
  <2> QED
    BY <2>1
<1>2. session' = session /\ task' = task /\ driving' = driving
  BY DEF RunStep, PlanApproved, RunRests
<1>3. ASSUME NEW rest \in Resumable \cup RunEnded, RunRests(r, rest)
      PROVE  Onward(taskRuns')
  <2>1. taskRuns' = [taskRuns EXCEPT ![r].status = rest]
    BY <1>3 DEF RunRests
  <2> QED
    BY <1>1, <1>3, <2>1, StatusMoves
<1>4. CASE PlanApproved(r)
  <2>1. taskRuns' = [taskRuns EXCEPT ![r].status = "succeeded"]
    BY <1>4 DEF PlanApproved
  <2>2. Onward(taskRuns')
    BY <1>1, <2>1, StatusMoves DEF RunEnded
  <2> QED
    BY <1>2, <2>2, TasksJustified, SameDriving DEF HorizonInv
<1> QED
  BY <1>2, <1>3, <1>4, TasksJustified, SameDriving DEF HorizonInv, RunStep

LEMMA HandoverTyped ==
    ASSUME NEW run \in RunRecords, NEW handoff \in Int
    PROVE  /\ [run EXCEPT !.handoff = handoff] \in RunRecords
           /\ [run EXCEPT !.handoff = handoff].handoff = handoff
  BY DEF RunRecords

\* A delivery starts, or fails to, after the planning run has succeeded.
LEMMA RouteStartedKeeps ==
    ASSUME HorizonInv, NEW r \in Nat \ {0}, RouteStarted(r)
    PROVE  HorizonInv' /\ Earned
<1> DEFINE failed == [taskRuns[r] EXCEPT !.handoff = RouteFailed]
           routed == [taskRuns[r] EXCEPT !.handoff = Len(taskRuns) + 1]
           delivery == [NewRun(taskRuns[r].task, "delivery") EXCEPT !.replans = 0]
<1>1. /\ r \in DOMAIN taskRuns /\ Len(taskRuns) \in Nat
      /\ taskRuns[r] \in RunRecords /\ taskRuns \in Seq(RunRecords)
  <2>1. r <= Len(taskRuns) /\ taskRuns \in Seq(RunRecords)
    BY DEF RouteStarted, Plans, HorizonInv
  <2> QED
    BY <2>1
<1>2. session' = session /\ task' = task /\ driving' = driving
  BY DEF RouteStarted
<1> SUFFICES Onward(taskRuns')
  BY <1>2, TasksJustified, SameDriving DEF HorizonInv
<1>3. failed \in RunRecords /\ failed.handoff = -1
  <2>1. RouteFailed \in Int /\ RouteFailed = -1
    BY DEF RouteFailed
  <2> QED
    BY <1>1, <2>1, HandoverTyped
<1>4. routed \in RunRecords /\ routed.handoff = Len(taskRuns) + 1
  <2>1. Len(taskRuns) + 1 \in Int
    BY <1>1
  <2> QED
    BY <1>1, <2>1, HandoverTyped
<1>5. delivery \in RunRecords /\ delivery.handoff = 0
  <2>1. NewRun(taskRuns[r].task, "delivery") \in RunRecords
        /\ NewRun(taskRuns[r].task, "delivery").handoff = 0
    BY <1>1, NewRunTyped DEF RunRecords
  <2> QED
    BY <2>1 DEF RunRecords
<1>6. \/ taskRuns' = Append([taskRuns EXCEPT ![r] = routed], delivery)
      \/ taskRuns' = [taskRuns EXCEPT ![r] = failed]
  <2>1. [taskRuns EXCEPT ![r].handoff = Len(taskRuns) + 1] = [taskRuns EXCEPT ![r] = routed]
        /\ [taskRuns EXCEPT ![r].handoff = RouteFailed] = [taskRuns EXCEPT ![r] = failed]
    BY <1>1
  <2> QED
    BY <2>1 DEF RouteStarted
<1> HIDE DEF failed, routed, delivery
<1>7. CASE taskRuns' = [taskRuns EXCEPT ![r] = failed]
  <2>1. failed.handoff <= Len(taskRuns)
    BY <1>1, <1>3
  <2> QED
    BY <1>1, <1>3, <1>7, <2>1, RunMoves
<1>8. CASE taskRuns' = Append([taskRuns EXCEPT ![r] = routed], delivery)
  <2> DEFINE more == Append([taskRuns EXCEPT ![r] = routed], delivery)
  <2>1. /\ more \in Seq(RunRecords) /\ Len(more) = Len(taskRuns) + 1
        /\ DOMAIN more = 1 .. Len(taskRuns) + 1 /\ DOMAIN taskRuns = 1 .. Len(taskRuns)
        /\ more[Len(taskRuns) + 1] = delivery /\ more[r] = routed
        /\ \A i \in DOMAIN taskRuns \ {r} : more[i] = taskRuns[i]
    BY <1>1, <1>4, <1>5
  <2> HIDE DEF more
  <2>2. \A i \in DOMAIN taskRuns : taskRuns[i].handoff \in Int /\ taskRuns[i].handoff <= Len(taskRuns)
    <3>1. \A i \in DOMAIN taskRuns : taskRuns[i] \in RunRecords
      BY <1>1
    <3> QED
      BY <3>1 DEF HorizonInv, RunsExist, RunRecords
  <2>3. \A i \in DOMAIN more : more[i].handoff <= Len(more)
    <3> TAKE i \in DOMAIN more
    <3>1. CASE i = Len(taskRuns) + 1
      BY <1>1, <1>5, <2>1, <3>1
    <3>2. CASE i = r
      BY <1>1, <1>4, <2>1, <3>2
    <3>3. CASE i \in DOMAIN taskRuns \ {r}
      <4>1. more[i].handoff \in Int /\ more[i].handoff <= Len(taskRuns)
        BY <2>1, <2>2, <3>3
      <4> QED
        BY <1>1, <2>1, <4>1
    <3> QED
      BY <1>1, <2>1, <3>1, <3>2, <3>3
  <2>4. Onward(more)
    BY <1>1, <2>1, <2>3 DEF Onward
  <2> QED
    BY <1>8, <2>4 DEF more
<1> QED
  BY <1>6, <1>7, <1>8

LEMMA HorizonInvInit == SInit => HorizonInv
<1> SUFFICES ASSUME SInit PROVE HorizonInv
  OBVIOUS
<1>1. /\ taskRuns = <<>> /\ driving = [kind |-> "none", task |-> 0, run |-> 0, of |-> 0]
      /\ session = [status |-> "created", active |-> 0]
      /\ task = [t \in Tasks |-> [status |-> "pending", run |-> 0, route |-> 0, replans |-> 0]]
  BY DEF SInit, NoDriving, NotRouted
<1>2. /\ taskRuns \in Seq(RunRecords) /\ Len(taskRuns) = 0 /\ DOMAIN taskRuns = {}
  BY <1>1
<1>3. driving \in Drivings /\ session \in Sessions /\ DrivesItsTask
  BY <1>1 DEF Drivings, Sessions, DrivesItsTask
<1>4. task \in [Tasks -> TaskRecords] /\ \A t \in Tasks : task[t].status = "pending"
  BY <1>1 DEF TaskRecords, OpenStatuses
<1>5. RunsExist
  BY <1>1, <1>2 DEF RunsExist
<1> QED
  BY <1>2, <1>3, <1>4, <1>5 DEF HorizonInv

LEMMA HorizonInvNext == HorizonInv /\ [SNext]_sVars => HorizonInv' /\ Earned
<1> SUFFICES ASSUME HorizonInv, [SNext]_sVars PROVE HorizonInv' /\ Earned
  OBVIOUS
<1>1. CASE Opening
  BY <1>1, OpeningKeeps
<1>2. CASE Checkpoint \/ ReconcileTask
  BY <1>2, CheckpointKeeps
<1>3. CASE RecordReplan
  BY <1>3, RecordReplanKeeps
<1>4. CASE StartSession \/ AbandonSession \/ SessionCommandDies \/ UNCHANGED sVars
  <2>1. /\ taskRuns' = taskRuns /\ task' = task /\ driving' \in {driving, NoDriving}
        /\ session' \in Sessions
    BY <1>4 DEF StartSession, AbandonSession, SessionCommandDies, sVars, HorizonInv, Sessions
  <2> QED
    BY <2>1, TasksJustified, StillKeeps
<1>5. CASE \E t \in Tasks : DeferTask(t) \/ \E restart \in BOOLEAN : ReinstateTask(t, restart)
  BY <1>5, DeferTaskKeeps, ReinstateKeeps
<1>6. CASE \E r \in RunIds : RunStep(r) \/ RouteStarted(r)
  <2>1. RunIds \subseteq Nat \ {0}
    BY DEF RunIds
  <2> QED
    BY <1>6, <2>1, RunStepKeeps, RouteStartedKeeps
<1> QED
  BY <1>1, <1>2, <1>3, <1>4, <1>5, <1>6 DEF SNext, Driving

\* A task of a horizon session is ended as done only by its delivery, or by its
\* own run if that has named none by then, for any queue, any number of runs,
\* re-plans, arbiter decisions, reinstatements, routes that start late or never,
\* and commands that die between creating a run and naming it.
THEOREM TasksAreDone == SSpec => SucceededForReal
<1>1. SInit /\ [][SNext]_sVars => []HorizonInv
  BY HorizonInvInit, HorizonInvNext, PTL
<1>2. HorizonInv /\ [SNext]_sVars => [Earned]_sVars
  BY HorizonInvNext
<1>3. SInit /\ [][SNext]_sVars => [][Earned]_sVars
  BY <1>1, <1>2, PTL
<1> QED
  BY <1>3, PTL DEF SSpec, SucceededForReal, Earned

-----------------------------------------------------------------------------
(* The time nobody watched a worker                                        *)

Entries ==
    {e \in [event : Events, by : Watchers \cup {NoWatcher}, state : States, from : Nat] :
        /\ e.event = "gap" <=> e.by = NoWatcher
        /\ e.event = "wake" => e.state \in {"", "verdict", "interrupted"}}

Named(entries) == {i \in 1 .. Len(entries) : entries[i].by # NoWatcher}
Latest(entries) == entries[Max(Named(entries))].by
OpenedIn(entries, w) ==
    \E i \in 1 .. Len(entries) : entries[i].event = "session_started" /\ entries[i].by = w

\* A gap of a session of w.
GapOf(entries, k, w) ==
    entries[k].event = "gap" /\ entries[k].from \in SessionEntries(entries, w)

\* The session that starts at i discloses the time since the one before it.
Discloses(entries, i) ==
    LET before == {j \in 1 .. i - 1 : entries[j].by # NoWatcher}
        w == entries[Max(before)].by
    IN  entries[i].event = "session_started" /\ before # {} /\ ~ReachedVerdict(entries, w)
        => \E k \in LastOf(entries, w, i) .. i : GapOf(entries, k, w)

\* A session may start: what is to be disclosed is there.
ReadyToStart(entries) ==
    Named(entries) # {} /\ ~ReachedVerdict(entries, Latest(entries)) =>
        \E k \in 1 .. Len(entries) : GapOf(entries, k, Latest(entries))

LEMMA LastIsTheirs ==
    ASSUME NEW entries \in Seq(Entries), NEW w, NEW i \in Nat,
           NEW j \in SessionEntries(entries, w), j < i
    PROVE  /\ LastOf(entries, w, i) \in SessionEntries(entries, w)
           /\ LastOf(entries, w, i) < i
<1> DEFINE S == {m \in SessionEntries(entries, w) : m < i}
<1>1. S \subseteq 1 .. Len(entries) /\ j \in S /\ Len(entries) \in Nat
  BY DEF SessionEntries
<1>2. LastOf(entries, w, i) = Max(S)
  BY DEF LastOf
<1>3. S \in SUBSET Nat /\ S # {} /\ \A m \in S : m <= Len(entries)
  <2> HIDE DEF S
  <2>1. \A m \in 1 .. Len(entries) : m \in Nat /\ m <= Len(entries)
    BY <1>1
  <2> QED
    BY <1>1, <2>1
<1>4. Max(S) \in S
  <2> HIDE DEF S
  <2> QED
    BY <1>1, <1>3, MaxIsGreatest
<1> QED
  BY <1>2, <1>4

LEMMA LatestIsNamed ==
    ASSUME NEW entries, NEW n \in Nat, NEW named,
           named = {i \in 1 .. n : entries[i].by # NoWatcher}, named # {}
    PROVE  Max(named) \in named
<1>1. named \subseteq 1 .. n
  OBVIOUS
<1>2. \A m \in 1 .. n : m \in Nat /\ m <= n
  OBVIOUS
<1>3. named \in SUBSET Nat /\ \A m \in named : m <= n
  BY <1>1, <1>2
<1> QED
  BY <1>3, MaxIsGreatest

LEMMA OneMore ==
    ASSUME NEW entries \in Seq(Entries), NEW e \in Entries
    PROVE  LET more == Append(entries, e) IN
           /\ more \in Seq(Entries) /\ Len(entries) \in Nat /\ Len(more) = Len(entries) + 1
           /\ more[Len(more)] = e /\ \A i \in 1 .. Len(entries) : more[i] = entries[i]
           /\ \A w : /\ SessionEntries(entries, w) \subseteq SessionEntries(more, w)
                     /\ ReachedVerdict(entries, w) => ReachedVerdict(more, w)
                     /\ OpenedIn(entries, w) => OpenedIn(more, w)
                     /\ e.by # w => /\ SessionEntries(more, w) = SessionEntries(entries, w)
                                    /\ OpenedIn(more, w) => OpenedIn(entries, w)
<1> DEFINE more == Append(entries, e)
<1>1. /\ more \in Seq(Entries) /\ Len(entries) \in Nat /\ Len(more) = Len(entries) + 1
      /\ more[Len(more)] = e /\ \A i \in 1 .. Len(entries) : more[i] = entries[i]
  OBVIOUS
<1> HIDE DEF more
<1>2. 1 .. Len(more) = (1 .. Len(entries)) \cup {Len(more)}
  BY <1>1
<1>3. ASSUME NEW w
      PROVE  /\ SessionEntries(entries, w) \subseteq SessionEntries(more, w)
             /\ e.by # w => SessionEntries(more, w) = SessionEntries(entries, w)
  BY <1>1, <1>2 DEF SessionEntries
<1>4. ASSUME NEW w
      PROVE  /\ ReachedVerdict(entries, w) => ReachedVerdict(more, w)
             /\ OpenedIn(entries, w) => OpenedIn(more, w)
             /\ e.by # w => (OpenedIn(more, w) => OpenedIn(entries, w))
  <2>1. \A i \in SessionEntries(entries, w) : i \in 1 .. Len(entries)
    BY DEF SessionEntries
  <2>2. ReachedVerdict(entries, w) => ReachedVerdict(more, w)
    BY <1>1, <1>3, <2>1 DEF ReachedVerdict
  <2> QED
    BY <1>1, <1>2, <2>2 DEF OpenedIn
<1> QED
  BY <1>1, <1>3, <1>4 DEF more

\* What a session disclosed when it started stays disclosed.
LEMMA StaysDisclosed ==
    ASSUME NEW entries \in Seq(Entries), NEW e \in Entries,
           NEW i \in 1 .. Len(entries), Discloses(entries, i)
    PROVE  Discloses(Append(entries, e), i)
<1> DEFINE more == Append(entries, e)
           before == {j \in 1 .. i - 1 : entries[j].by # NoWatcher}
           w == entries[Max(before)].by
<1>1. /\ Len(entries) \in Nat /\ \A j \in 1 .. Len(entries) : more[j] = entries[j]
      /\ ReachedVerdict(entries, w) => ReachedVerdict(more, w)
      /\ SessionEntries(entries, w) \subseteq SessionEntries(more, w)
      /\ Len(more) = Len(entries) + 1
  BY OneMore
<1> HIDE DEF more
<1>2. {j \in 1 .. i - 1 : more[j].by # NoWatcher} = before
  BY <1>1
<1>3. before # {} => more[Max(before)].by = w
  <2> SUFFICES ASSUME before # {} PROVE more[Max(before)].by = w
    OBVIOUS
  <2>1. i - 1 \in Nat
    BY <1>1
  <2>2. Max(before) \in before
    BY <2>1, LatestIsNamed
  <2>3. Max(before) \in 1 .. Len(entries)
    BY <1>1, <2>2
  <2> QED
    BY <1>1, <2>3
<1>4. LastOf(more, w, i) = LastOf(entries, w, i)
  <2>1. {j \in SessionEntries(more, w) : j < i} = {j \in SessionEntries(entries, w) : j < i}
    BY <1>1 DEF SessionEntries
  <2> QED
    BY <2>1 DEF LastOf
<1>5. SUFFICES ASSUME more[i].event = "session_started", before # {}, ~ReachedVerdict(more, w)
               PROVE  \E k \in LastOf(more, w, i) .. i : GapOf(more, k, w)
  BY <1>2, <1>3 DEF Discloses, more
<1>6. PICK k \in LastOf(entries, w, i) .. i : GapOf(entries, k, w)
  BY <1>1, <1>5 DEF Discloses
<1>7. k \in 1 .. Len(entries)
  <2>1. Max(before) \in {j \in SessionEntries(entries, w) : j < i}
    <3>1. i - 1 \in Nat
      BY <1>1
    <3>2. Max(before) \in before
      BY <1>5, <3>1, LatestIsNamed
    <3> QED
      BY <1>1, <3>2 DEF SessionEntries
  <2>2. LastOf(entries, w, i) \in 1 .. Len(entries)
    BY <2>1, LastIsTheirs DEF SessionEntries
  <2> QED
    BY <1>1, <1>6, <2>2
<1>8. GapOf(more, k, w)
  BY <1>1, <1>6, <1>7 DEF GapOf
<1> QED
  BY <1>4, <1>6, <1>8

LEMMA AnchorIsTheirs ==
    ASSUME NEW entries \in Seq(Entries), NEW w, NEW S \in SUBSET SessionEntries(entries, w), S # {}
    PROVE  Anchor(entries, S, w) \in SessionEntries(entries, w)
<1>1. Len(entries) \in Nat /\ SessionEntries(entries, w) \subseteq 1 .. Len(entries)
  BY DEF SessionEntries
<1>2. ASSUME NEW T \in SUBSET SessionEntries(entries, w), T # {}
      PROVE  Max(T) \in SessionEntries(entries, w)
  <2>1. \A m \in 1 .. Len(entries) : m \in Nat /\ m <= Len(entries)
    BY <1>1
  <2>2. T \in SUBSET Nat /\ \A m \in T : m <= Len(entries)
    BY <1>1, <2>1
  <2> QED
    BY <1>1, <1>2, <2>2, MaxIsGreatest
<1>3. S \intersect Wakes(entries, w) \in SUBSET SessionEntries(entries, w)
  OBVIOUS
<1> QED
  BY <1>2, <1>3 DEF Anchor

\* A new session finds a gap of the last one, unless that reached a verdict.
LEMMA GapIsOfLatest ==
    ASSUME NEW entries \in Seq(Entries)
    PROVE  LET gap == DetectSessionGap(entries)  w == Latest(entries) IN
           \/ /\ gap = NoGap
              /\ Named(entries) # {} => ReachedVerdict(entries, w)
           \/ /\ Named(entries) # {} /\ gap \in Entries /\ gap.event = "gap"
              /\ gap.by = NoWatcher /\ gap.from \in SessionEntries(entries, w)
<1> DEFINE gap == DetectSessionGap(entries)
           named == Named(entries)
           w == Latest(entries)
           all == SessionEntries(entries, w)
           closing == Closing(entries, w)
           end == Min(closing)
<1>1. gap = CASE named = {} -> NoGap
              [] named # {} /\ closing = {} -> GapFrom(Anchor(entries, all, w), "orphan_session")
              [] OTHER ->
                   CASE entries[end].event = "session_ended" ->
                          GapFrom(Anchor(entries, {end} \union Wakes(entries, w), w), "sibling_handoff")
                     [] entries[end].state = "interrupted" ->
                          GapFrom(IF all = {end} THEN end ELSE Anchor(entries, all \ {end}, w), "interrupted")
                     [] OTHER -> NoGap
  BY DEF DetectSessionGap, Named, Latest
<1>2. ASSUME NEW i \in all, NEW reason \in {"orphan_session", "sibling_handoff", "interrupted"}
      PROVE  GapFrom(i, reason) \in Entries /\ GapFrom(i, reason).event = "gap"
             /\ GapFrom(i, reason).by = NoWatcher /\ GapFrom(i, reason).from = i
  <2>1. i \in Nat
    BY <1>2 DEF SessionEntries
  <2> QED
    BY <1>2, <2>1 DEF GapFrom, Entries, Events, States
<1>3. CASE named = {}
  BY <1>1, <1>3
<1>4. CASE named # {} /\ closing = {}
  <2>1. gap = GapFrom(Anchor(entries, all, w), "orphan_session")
    BY <1>1, <1>4
  <2>2. Max(named) \in all
    <3>1. Len(entries) \in Nat
      OBVIOUS
    <3>2. Max(named) \in named
      BY <1>4, <3>1, LatestIsNamed DEF Named
    <3> QED
      BY <3>2 DEF Named, Latest, SessionEntries
  <2>3. Anchor(entries, all, w) \in all
    BY <2>2, AnchorIsTheirs
  <2> QED
    BY <1>2, <1>4, <2>1, <2>3
<1>5. CASE named # {} /\ closing # {}
  <2>1. /\ closing \subseteq all /\ Wakes(entries, w) \subseteq all
        /\ closing \subseteq 1 .. Len(entries) /\ Len(entries) \in Nat
    <3>1. closing \subseteq all /\ Wakes(entries, w) \subseteq all
      BY DEF Closing, Wakes
    <3>2. all \subseteq 1 .. Len(entries) /\ Len(entries) \in Nat
      BY DEF SessionEntries
    <3> QED
      BY <3>1, <3>2
  <2>2. end \in closing
    <3>1. closing \in SUBSET Nat
      BY <2>1
    <3> QED
      BY <1>5, <3>1, MinIsLeast
  <2>3. end \in all /\ end \in 1 .. Len(entries) /\ entries[end] \in Entries
    BY <2>1, <2>2
  <2> HIDE DEF named, closing, end
  <2>4. gap = CASE entries[end].event = "session_ended" ->
                     GapFrom(Anchor(entries, {end} \union Wakes(entries, w), w), "sibling_handoff")
                [] entries[end].state = "interrupted" ->
                     GapFrom(IF all = {end} THEN end ELSE Anchor(entries, all \ {end}, w), "interrupted")
                [] OTHER -> NoGap
    BY <1>1, <1>5
  <2>5. Anchor(entries, {end} \union Wakes(entries, w), w) \in all
    BY <2>1, <2>3, AnchorIsTheirs
  <2>6. (IF all = {end} THEN end ELSE Anchor(entries, all \ {end}, w)) \in all
    <3>1. CASE all # {end}
      <4>1. all \ {end} # {} /\ all \ {end} \in SUBSET all
        BY <2>3, <3>1
      <4> QED
        BY <3>1, <4>1, AnchorIsTheirs
    <3> QED
      BY <2>3, <3>1
  <2>7. CASE entries[end].event # "session_ended" /\ entries[end].state # "interrupted"
    <3>1. entries[end].event = "wake" /\ entries[end].state # ""
      BY <2>2, <2>7 DEF closing, Closing
    <3>2. entries[end].state = "verdict"
      BY <2>3, <2>7, <3>1 DEF Entries
    <3>3. ReachedVerdict(entries, w)
      BY <2>3, <3>2 DEF ReachedVerdict
    <3>4. gap = NoGap
      BY <2>4, <2>7
    <3> QED
      BY <3>3, <3>4
  <2>8. CASE entries[end].event = "session_ended" \/ entries[end].state = "interrupted"
    <3>1. \/ gap = GapFrom(Anchor(entries, {end} \union Wakes(entries, w), w), "sibling_handoff")
          \/ gap = GapFrom(IF all = {end} THEN end ELSE Anchor(entries, all \ {end}, w), "interrupted")
      BY <2>4, <2>8
    <3> QED
      BY <1>2, <1>5, <2>5, <2>6, <3>1 DEF named
  <2> QED
    BY <2>7, <2>8
<1> QED
  BY <1>3, <1>4, <1>5

\* Once the gap is recorded a session may start.
LEMMA GapRecorded ==
    ASSUME NEW entries \in Seq(Entries)
    PROVE  LET gap == DetectSessionGap(entries)  more == WithGap(entries, gap) IN
           /\ ReadyToStart(more)
           /\ \/ more = entries
              \/ /\ more = Append(entries, gap) /\ gap \in Entries /\ gap.event = "gap"
                 /\ gap.by = NoWatcher /\ Named(entries) # {}
                 /\ gap.from \in SessionEntries(entries, Latest(entries))
<1> DEFINE gap == DetectSessionGap(entries)
           more == WithGap(entries, gap)
           w == Latest(entries)
<1>1. CASE gap = NoGap
  <2>1. more = entries
    BY <1>1 DEF WithGap
  <2>2. Named(entries) # {} => ReachedVerdict(entries, w)
    <3>1. NoGap.from = 0 /\ 0 \notin SessionEntries(entries, w)
      BY DEF NoGap, GapFrom, SessionEntries
    <3> QED
      BY <1>1, <3>1, GapIsOfLatest
  <2> QED
    BY <2>1, <2>2 DEF ReadyToStart
<1>2. CASE gap # NoGap
  <2>1. /\ Named(entries) # {} /\ gap \in Entries /\ gap.event = "gap"
        /\ gap.by = NoWatcher /\ gap.from \in SessionEntries(entries, w)
    BY <1>2, GapIsOfLatest
  <2>2. CASE \E i \in 1 .. Len(entries) : SameGap(entries[i], gap)
    <3>1. more = entries
      BY <2>2 DEF WithGap
    <3>2. \E i \in 1 .. Len(entries) : GapOf(entries, i, w)
      BY <2>1, <2>2 DEF SameGap, GapOf
    <3> QED
      BY <3>1, <3>2 DEF ReadyToStart
  <2>3. CASE ~ \E i \in 1 .. Len(entries) : SameGap(entries[i], gap)
    <3>1. more = Append(entries, gap)
      BY <1>2, <2>3 DEF WithGap
    <3> HIDE DEF gap
    <3>2. /\ Len(entries) \in Nat /\ Len(more) = Len(entries) + 1 /\ more[Len(more)] = gap
          /\ \A i \in 1 .. Len(entries) : more[i] = entries[i]
          /\ SessionEntries(entries, w) \subseteq SessionEntries(more, w)
      BY <2>1, <3>1, OneMore
    <3> HIDE DEF more
    <3>3. Named(more) = Named(entries)
      <4>1. 1 .. Len(more) = (1 .. Len(entries)) \cup {Len(more)}
        BY <3>2
      <4> QED
        BY <2>1, <3>2, <4>1 DEF Named
    <3>4. Latest(more) = w
      <4>1. Max(Named(entries)) \in Named(entries)
        BY <2>1, <3>2, LatestIsNamed DEF Named
      <4> QED
        BY <3>2, <3>3, <4>1 DEF Latest, Named
    <3>5. GapOf(more, Len(more), w) /\ Len(more) \in 1 .. Len(more)
      BY <2>1, <3>2 DEF GapOf
    <3>6. ReadyToStart(more)
      BY <3>4, <3>5 DEF ReadyToStart
    <3> QED
      BY <2>1, <3>1, <3>6 DEF more, gap
  <2> QED
    BY <2>2, <2>3
<1> QED
  BY <1>1, <1>2

Watching == {"gap", "start", "first", "wake", "close", "release"}
Entering == {"gap", "start"}
Over == {"done", "dead"}
Claiming == {"look", "remove", "create"}
Rounds == [wakes : Nat, seen : SUBSET Targets, moved : BOOLEAN, last : BOOLEAN]
Claims == [tries : {0, 1}, owner : Watchers \cup {NoWatcher}]

\* A watch that is past its claims holds the lock of every target it follows; one
\* that is not lacks one; a lock is only removed from a watch that is dead.
LockInv ==
    /\ watchLock \in [Targets -> Watchers \cup {NoWatcher}]
    /\ place \in [Watchers -> WatchPlaces]
    /\ claim \in [Watchers -> Claims]
    /\ round \in [Watchers -> Rounds]
    /\ \A w \in Watchers :
         /\ place[w] \in Watching => \A t \in Follows[w] : watchLock[t] = w
         /\ place[w] \in Claiming => Locked(w) # Follows[w]
         /\ place[w] = "remove" => claim[w].owner \notin Live
         /\ round[w].seen \subseteq Follows[w] /\ round[w].seen # Follows[w]

\* Whoever wrote in a ledger follows its target and opened a session there first.
WritersOpened ==
    \A t \in Targets, w \in Watchers : SessionEntries(ledger[t], w) # {} =>
        /\ t \in Follows[w] /\ place[w] \in Watching \cup Over /\ OpenedIn(ledger[t], w)

\* After a gap of its session a watch writes nothing more.
FinalGap(entries, k) ==
    entries[k].event = "gap" =>
        \E w \in Watchers :
            /\ place[w] \in Over /\ entries[k].from \in SessionEntries(entries, w)
            /\ \A j \in SessionEntries(entries, w) : j < k

SessionsOpen ==
    \A w \in Watchers :
        /\ place[w] \in Entering => Unopened(w) # {}
        /\ place[w] \in Watching \ Entering => Unopened(w) = {}
        /\ place[w] = "start" => ReadyToStart(ledger[Min(Unopened(w))])

LedgerInv ==
    /\ ledger \in [Targets -> Seq(Entries)]
    /\ WritersOpened /\ SessionsOpen
    /\ \A t \in Targets : \A k \in 1 .. Len(ledger[t]) :
         FinalGap(ledger[t], k) /\ Discloses(ledger[t], k)

\* What watch w may append to a ledger.
Allowed(w, entries, e) ==
    /\ e \in Entries /\ e.by \in {w, NoWatcher}
    /\ e.by = w => OpenedIn(Append(entries, e), w)
    /\ e.event = "gap" => \E v \in Watchers : /\ place[v] \in Over
                                             /\ e.from \in SessionEntries(entries, v)
    /\ Discloses(Append(entries, e), Len(entries) + 1)

LEMMA FollowsTargets ==
    ASSUME NEW w \in Watchers
    PROVE  Follows[w] \subseteq Targets /\ Follows[w] # {} /\ Follows[w] \in SUBSET Nat
BY WatchAssumption

LEMMA OpenedAs ==
    \A w, t : Opened(w, t) <=> OpenedIn(ledger[t], w)
BY DEF Opened, OpenedIn

LEMMA NextToOpen ==
    ASSUME NEW w \in Watchers, Unopened(w) # {}
    PROVE  /\ Min(Unopened(w)) \in Unopened(w) /\ Min(Unopened(w)) \in Follows[w]
           /\ Min(Unopened(w)) \in Targets
<1>1. Unopened(w) \subseteq Follows[w] /\ Unopened(w) \in SUBSET Nat
  BY FollowsTargets DEF Unopened
<1>2. Min(Unopened(w)) \in Unopened(w)
  BY <1>1, MinIsLeast
<1> QED
  BY <1>1, <1>2, FollowsTargets

\* A step of a watch that writes in ledgers it holds the locks of.
LEMMA WritingKeeps ==
    ASSUME LockInv, LedgerInv, NEW w \in Watchers, place[w] \in Watching,
           ledger' \in [Targets -> Seq(Entries)],
           \A t \in Targets : \/ ledger'[t] = ledger[t]
                              \/ /\ t \in Follows[w]
                                 /\ \E e \in Entries : /\ ledger'[t] = Append(ledger[t], e)
                                                       /\ Allowed(w, ledger[t], e),
           NEW q \in Watching \cup Over, place' = [place EXCEPT ![w] = q],
           q \in Entering => Unopened(w)' # {},
           q \in Watching \ Entering => Unopened(w)' = {},
           q = "start" => ReadyToStart(ledger'[Min(Unopened(w)')])
    PROVE  LedgerInv'
<1>1. /\ place \in [Watchers -> WatchPlaces] /\ place'[w] = q
      /\ \A v \in Watchers \ {w} : place'[v] = place[v]
  BY DEF LockInv
<1>2. \A v \in Watchers : place[v] \in Over => v # w /\ place'[v] \in Over
  BY <1>1 DEF Watching, Over
<1>3. \A v \in Watchers : place[v] \in Watching \cup Over => place'[v] \in Watching \cup Over
  BY <1>1
<1>4. NoWatcher \notin Watchers
  BY WatchAssumption
<1>5. ASSUME NEW t \in Targets, NEW e \in Entries,
             ledger'[t] = Append(ledger[t], e), Allowed(w, ledger[t], e)
      PROVE  /\ Len(ledger[t]) \in Nat /\ Len(ledger'[t]) = Len(ledger[t]) + 1
             /\ ledger'[t][Len(ledger'[t])] = e
             /\ \A i \in 1 .. Len(ledger[t]) : ledger'[t][i] = ledger[t][i]
             /\ \A v \in Watchers \ {w} :
                  /\ SessionEntries(ledger'[t], v) = SessionEntries(ledger[t], v)
                  /\ OpenedIn(ledger'[t], v) <=> OpenedIn(ledger[t], v)
  <2>1. ledger[t] \in Seq(Entries)
    BY DEF LedgerInv
  <2>2. \A v \in Watchers \ {w} : e.by # v
    BY <1>4, <1>5 DEF Allowed
  <2> QED
    BY <1>5, <2>1, <2>2, OneMore
<1>6. \A v \in Watchers \ {w}, t \in Targets :
          /\ SessionEntries(ledger'[t], v) = SessionEntries(ledger[t], v)
          /\ OpenedIn(ledger'[t], v) <=> OpenedIn(ledger[t], v)
  BY <1>5
<1>7. WritersOpened'
  <2> SUFFICES ASSUME NEW t \in Targets, NEW v \in Watchers, SessionEntries(ledger'[t], v) # {}
               PROVE  /\ t \in Follows[v] /\ place'[v] \in Watching \cup Over
                      /\ OpenedIn(ledger'[t], v)
    BY DEF WritersOpened
  <2>1. CASE SessionEntries(ledger[t], v) # {}
    <3>1. t \in Follows[v] /\ place[v] \in Watching \cup Over /\ OpenedIn(ledger[t], v)
      BY <2>1 DEF LedgerInv, WritersOpened
    <3>2. OpenedIn(ledger'[t], v)
      <4>1. CASE ledger'[t] = ledger[t]
        BY <3>1, <4>1
      <4>2. ASSUME NEW e \in Entries, ledger'[t] = Append(ledger[t], e) PROVE OpenedIn(ledger'[t], v)
        <5>1. ledger[t] \in Seq(Entries)
          BY DEF LedgerInv
        <5> QED
          BY <3>1, <4>2, <5>1, OneMore
      <4> QED
        BY <4>1, <4>2
    <3> QED
      BY <1>3, <3>1, <3>2
  <2>2. CASE SessionEntries(ledger[t], v) = {}
    <3>1. v = w /\ ledger'[t] # ledger[t]
      BY <1>6, <2>2
    <3>2. PICK e \in Entries : ledger'[t] = Append(ledger[t], e) /\ Allowed(w, ledger[t], e)
      BY <3>1
    <3>3. t \in Follows[w]
      BY <3>1
    <3>4. e.by = w
      <4>1. ledger[t] \in Seq(Entries)
        BY DEF LedgerInv
      <4> QED
        BY <2>2, <3>1, <3>2, <4>1, OneMore
    <3> QED
      BY <1>1, <3>1, <3>2, <3>3, <3>4 DEF Allowed
  <2> QED
    BY <2>1, <2>2
<1>8. ASSUME NEW t \in Targets, NEW k \in 1 .. Len(ledger'[t])
      PROVE  FinalGap(ledger[t], k)' /\ Discloses(ledger'[t], k)
  <2>1. CASE ledger'[t] = ledger[t]
    BY <1>2, <2>1 DEF LedgerInv, FinalGap
  <2>2. CASE ledger'[t] # ledger[t]
    <3>1. PICK e \in Entries : ledger'[t] = Append(ledger[t], e) /\ Allowed(w, ledger[t], e)
      BY <2>2
    <3>2. /\ Len(ledger[t]) \in Nat /\ Len(ledger'[t]) = Len(ledger[t]) + 1
          /\ ledger'[t][Len(ledger'[t])] = e
          /\ \A i \in 1 .. Len(ledger[t]) : ledger'[t][i] = ledger[t][i]
      BY <1>5, <3>1
    <3>3. ASSUME k \in 1 .. Len(ledger[t])
          PROVE  FinalGap(ledger[t], k)' /\ Discloses(ledger'[t], k)
      <4>1. ledger[t] \in Seq(Entries) /\ FinalGap(ledger[t], k) /\ Discloses(ledger[t], k)
        BY <3>3 DEF LedgerInv
      <4>2. Discloses(ledger'[t], k)
        BY <3>1, <3>3, <4>1, StaysDisclosed
      <4> QED
        BY <1>2, <1>6, <3>2, <3>3, <4>1, <4>2 DEF FinalGap
    <3>4. ASSUME k = Len(ledger[t]) + 1
          PROVE  FinalGap(ledger[t], k)' /\ Discloses(ledger'[t], k)
      <4>1. Discloses(ledger'[t], k)
        BY <3>1, <3>4 DEF Allowed
      <4>2. ASSUME e.event = "gap" PROVE FinalGap(ledger[t], k)'
        <5>1. PICK v \in Watchers : place[v] \in Over /\ e.from \in SessionEntries(ledger[t], v)
          BY <3>1, <4>2 DEF Allowed
        <5>2. SessionEntries(ledger'[t], v) = SessionEntries(ledger[t], v) /\ place'[v] \in Over
          BY <1>2, <1>6, <5>1
        <5>3. \A j \in SessionEntries(ledger[t], v) : j < k
          BY <3>2, <3>4 DEF SessionEntries
        <5> QED
          BY <3>2, <3>4, <5>1, <5>2, <5>3 DEF FinalGap
      <4>3. ASSUME e.event # "gap" PROVE FinalGap(ledger[t], k)'
        BY <3>2, <3>4, <4>3 DEF FinalGap
      <4> QED
        BY <4>1, <4>2, <4>3
    <3> QED
      BY <3>2, <3>3, <3>4
  <2> QED
    BY <2>1, <2>2
<1>9. SessionsOpen'
  <2>1. ASSUME NEW v \in Watchers \ {w}, place'[v] \in Watching
        PROVE  /\ Unopened(v)' = Unopened(v)
               /\ \A t \in Follows[v] : ledger'[t] = ledger[t]
    <3>1. place[v] \in Watching
      BY <1>1, <2>1
    <3>2. \A t \in Follows[v] : watchLock[t] = v
      BY <3>1 DEF LockInv
    <3>3. \A t \in Follows[w] : watchLock[t] = w
      BY DEF LockInv
    <3>4. \A t \in Follows[v] : t \in Targets /\ t \notin Follows[w]
      BY <3>2, <3>3, FollowsTargets
    <3> QED
      BY <3>4 DEF Unopened, Opened
  <2>2. ASSUME NEW v \in Watchers \ {w}, place[v] = "start"
        PROVE  ReadyToStart(ledger[Min(Unopened(v))])'
    <3>1. place'[v] \in Watching /\ place[v] \in Entering
      BY <1>1, <2>2 DEF Watching, Entering
    <3>2. Min(Unopened(v)) \in Follows[v] /\ ReadyToStart(ledger[Min(Unopened(v))])
      BY <2>2, <3>1, NextToOpen DEF LedgerInv, SessionsOpen
    <3>3. Unopened(v)' = Unopened(v) /\ ledger'[Min(Unopened(v))] = ledger[Min(Unopened(v))]
      BY <2>1, <3>1, <3>2
    <3> QED
      BY <3>2, <3>3
  <2> SUFFICES ASSUME NEW v \in Watchers
               PROVE  /\ place'[v] \in Entering => Unopened(v)' # {}
                      /\ place'[v] \in Watching \ Entering => Unopened(v)' = {}
                      /\ place'[v] = "start" => ReadyToStart(ledger'[Min(Unopened(v)')])
    BY DEF SessionsOpen
  <2>3. CASE v = w
    BY <1>1, <2>3
  <2>4. CASE v # w
    <3>1. Entering \subseteq Watching
      BY DEF Entering, Watching
    <3>2. place'[v] = place[v]
      BY <1>1, <2>4
    <3>3. place'[v] \in Watching => Unopened(v)' = Unopened(v)
      BY <2>1, <2>4
    <3> QED
      BY <2>2, <2>4, <3>1, <3>2, <3>3 DEF LedgerInv, SessionsOpen
  <2> QED
    BY <2>3, <2>4
<1> QED
  BY <1>7, <1>8, <1>9 DEF LedgerInv

\* A step that writes nothing.
LEMMA StillnessKeeps ==
    ASSUME LockInv, LedgerInv, ledger' = ledger, NEW w \in Watchers, NEW q \in WatchPlaces,
           place' = [place EXCEPT ![w] = q],
           \/ q \in Over
           \/ place[w] \in Watching \ Entering /\ q \in Watching \ Entering
           \/ place[w] \in Claiming /\ q \in Claiming \cup {"gap"}
    PROVE  LedgerInv'
<1>1. /\ place \in [Watchers -> WatchPlaces] /\ place'[w] = q
      /\ \A v \in Watchers \ {w} : place'[v] = place[v]
  BY DEF LockInv
<1>2. \A v \in Watchers : Unopened(v)' = Unopened(v)
  BY DEF Unopened, Opened
<1>3. ASSUME NEW v \in Watchers, place[v] \in Watching \cup Over
      PROVE  place'[v] \in Watching \cup Over
  BY <1>1, <1>3 DEF Watching, Over, Claiming
<1>4. WritersOpened'
  BY <1>3 DEF LedgerInv, WritersOpened
<1>5. ASSUME NEW t \in Targets, NEW k \in 1 .. Len(ledger[t]) PROVE FinalGap(ledger[t], k)'
  <2>1. SUFFICES ASSUME ledger[t][k].event = "gap" PROVE FinalGap(ledger[t], k)'
    BY DEF FinalGap
  <2>2. PICK v \in Watchers :
            /\ place[v] \in Over /\ ledger[t][k].from \in SessionEntries(ledger[t], v)
            /\ \A j \in SessionEntries(ledger[t], v) : j < k
    BY <2>1 DEF LedgerInv, FinalGap
  <2>3. place'[v] \in Over
    BY <1>1, <2>2 DEF Over, Watching, Claiming
  <2> QED
    BY <2>2, <2>3 DEF FinalGap
<1>6. SessionsOpen'
  <2>1. ASSUME place[w] \in Claiming PROVE Unopened(w) # {}
    <3>1. place[w] \notin Watching \cup Over
      BY <2>1 DEF Claiming, Watching, Over
    <3>2. \A t \in Follows[w] : ~OpenedIn(ledger[t], w)
      <4> SUFFICES ASSUME NEW t \in Follows[w], OpenedIn(ledger[t], w) PROVE FALSE
        OBVIOUS
      <4>1. t \in Targets /\ SessionEntries(ledger[t], w) # {}
        BY FollowsTargets DEF OpenedIn, SessionEntries
      <4> QED
        BY <3>1, <4>1 DEF LedgerInv, WritersOpened
    <3> QED
      BY <3>2, FollowsTargets, OpenedAs DEF Unopened
  <2> SUFFICES ASSUME NEW v \in Watchers
               PROVE  /\ place'[v] \in Entering => Unopened(v) # {}
                      /\ place'[v] \in Watching \ Entering => Unopened(v) = {}
                      /\ place'[v] = "start" => ReadyToStart(ledger[Min(Unopened(v))])
    BY <1>2 DEF SessionsOpen
  <2>2. CASE v = w
    BY <1>1, <2>1, <2>2 DEF LedgerInv, SessionsOpen, Over, Watching, Entering, Claiming
  <2>3. CASE v # w
    BY <1>1, <2>3 DEF LedgerInv, SessionsOpen
  <2> QED
    BY <2>2, <2>3
<1> QED
  BY <1>4, <1>5, <1>6 DEF LedgerInv

\* Entries of a session that is open everywhere.
LEMMA SessionEntryKeeps ==
    ASSUME LockInv, LedgerInv, NEW w \in Watchers, place[w] \in Watching \ Entering,
           NEW S \in SUBSET Follows[w], NEW e \in Entries, e.by = w, e.event # "session_started",
           ledger' = [t \in Targets |-> IF t \in S THEN Append(ledger[t], e) ELSE ledger[t]],
           NEW q \in (Watching \ Entering) \cup Over, place' = [place EXCEPT ![w] = q]
    PROVE  LedgerInv'
<1>1. \A t \in Targets : ledger[t] \in Seq(Entries)
  BY DEF LedgerInv
<1>2. ledger' \in [Targets -> Seq(Entries)]
  BY <1>1
<1>3. ASSUME NEW t \in Follows[w]
      PROVE  OpenedIn(ledger[t], w)
  <2>1. Unopened(w) = {}
    BY DEF LedgerInv, SessionsOpen
  <2> QED
    BY <1>3, <2>1, OpenedAs DEF Unopened
<1>4. NoWatcher \notin Watchers
  BY WatchAssumption
<1>5. ASSUME NEW t \in Follows[w] PROVE Allowed(w, ledger[t], e)
  <2>1. t \in Targets /\ ledger[t] \in Seq(Entries)
    BY <1>1, FollowsTargets
  <2>2. OpenedIn(Append(ledger[t], e), w)
    BY <1>3, <2>1, OneMore
  <2>3. e.event # "gap"
    BY <1>4 DEF Entries
  <2>4. Append(ledger[t], e)[Len(ledger[t]) + 1] = e
    BY <2>1
  <2>5. Discloses(Append(ledger[t], e), Len(ledger[t]) + 1)
    BY <2>4 DEF Discloses
  <2> QED
    BY <2>2, <2>3, <2>5 DEF Allowed
<1>6. \A t \in Targets : \/ ledger'[t] = ledger[t]
                         \/ /\ t \in Follows[w]
                            /\ \E f \in Entries : /\ ledger'[t] = Append(ledger[t], f)
                                                  /\ Allowed(w, ledger[t], f)
  BY <1>5
<1>7. q \notin Entering
  BY DEF Over, Entering
<1>8. Unopened(w)' = {}
  <2>1. ASSUME NEW t \in Follows[w] PROVE OpenedIn(ledger'[t], w)
    <3>1. t \in Targets /\ ledger[t] \in Seq(Entries) /\ OpenedIn(ledger[t], w)
      BY <1>1, <1>3, FollowsTargets
    <3>2. OpenedIn(Append(ledger[t], e), w)
      BY <3>1, OneMore
    <3> QED
      BY <3>1, <3>2
  <2>2. ASSUME NEW t \in Follows[w] PROVE Opened(w, t)'
    BY <2>1, <2>2 DEF Opened, OpenedIn
  <2> QED
    BY <2>2 DEF Unopened
<1>9. place[w] \in Watching /\ q \in Watching \cup Over /\ q # "start"
  BY <1>7 DEF Entering
<1> QED
  BY <1>2, <1>6, <1>7, <1>8, <1>9, WritingKeeps

LEMMA RecordGapKeeps ==
    ASSUME LockInv, LedgerInv, NEW w \in Watchers, RecordGap(w)
    PROVE  LedgerInv'
<1>1. place[w] = "gap" /\ Unopened(w) # {}
  BY DEF RecordGap, LedgerInv, SessionsOpen, Entering
<1>2. PICK t \in Targets : t = Min(Unopened(w)) /\ t \in Unopened(w) /\ t \in Follows[w]
  BY <1>1, NextToOpen
<1> DEFINE gap == DetectSessionGap(ledger[t])
<1>3. ledger \in [Targets -> Seq(Entries)] /\ ledger[t] \in Seq(Entries)
  BY <1>2 DEF LedgerInv
<1>4. /\ ledger' = [ledger EXCEPT ![t] = WithGap(ledger[t], gap)]
      /\ place' = [place EXCEPT ![w] = "start"]
  BY <1>2 DEF RecordGap
<1>5. SessionEntries(ledger[t], w) = {}
  BY <1>2, OpenedAs DEF LedgerInv, WritersOpened, Unopened
<1> DEFINE more == WithGap(ledger[t], gap)
<1>6. /\ ReadyToStart(more)
      /\ \/ more = ledger[t]
         \/ /\ more = Append(ledger[t], gap) /\ gap \in Entries /\ gap.event = "gap"
            /\ gap.by = NoWatcher /\ Named(ledger[t]) # {}
            /\ gap.from \in SessionEntries(ledger[t], Latest(ledger[t]))
  BY <1>3, GapRecorded
<1> HIDE DEF gap, more
<1>7. ASSUME more # ledger[t] PROVE Allowed(w, ledger[t], gap)
  <2> DEFINE v == Latest(ledger[t])
  <2>1. /\ more = Append(ledger[t], gap) /\ gap \in Entries /\ gap.event = "gap"
        /\ gap.by = NoWatcher /\ Named(ledger[t]) # {} /\ gap.from \in SessionEntries(ledger[t], v)
    BY <1>6, <1>7
  <2>2. v \in Watchers
    <3>1. Max(Named(ledger[t])) \in Named(ledger[t])
      <4>1. Len(ledger[t]) \in Nat
        BY <1>3
      <4> QED
        BY <2>1, <4>1, LatestIsNamed DEF Named
    <3>2. Max(Named(ledger[t])) \in 1 .. Len(ledger[t]) /\ v # NoWatcher
      BY <3>1 DEF Named, Latest
    <3>3. ledger[t][Max(Named(ledger[t]))] \in Entries
      BY <1>3, <3>2
    <3> QED
      BY <3>2, <3>3 DEF Entries, Latest
  <2> HIDE DEF v
  <2>3. place[v] \in Watching \cup Over /\ t \in Follows[v]
    BY <1>2, <2>1, <2>2 DEF LedgerInv, WritersOpened
  <2>4. place[v] \notin Watching
    <3>1. v # w
      BY <1>5, <2>1
    <3>2. watchLock[t] = w
      BY <1>1, <1>2 DEF LockInv, Watching
    <3> QED
      BY <2>2, <2>3, <3>1, <3>2 DEF LockInv
  <2>5. Append(ledger[t], gap)[Len(ledger[t]) + 1] = gap
    BY <1>3, <2>1
  <2>6. Discloses(Append(ledger[t], gap), Len(ledger[t]) + 1)
    BY <2>1, <2>5 DEF Discloses
  <2>7. gap.by # w
    BY <2>1, WatchAssumption
  <2> QED
    BY <2>1, <2>2, <2>3, <2>4, <2>6, <2>7 DEF Allowed
<1>8. more \in Seq(Entries)
  BY <1>3, <1>6
<1>9. /\ ledger' \in [Targets -> Seq(Entries)] /\ ledger'[t] = more
      /\ \A u \in Targets \ {t} : ledger'[u] = ledger[u]
  BY <1>2, <1>3, <1>4, <1>8 DEF more
<1>10. \A u \in Targets : \/ ledger'[u] = ledger[u]
                          \/ /\ u \in Follows[w]
                             /\ \E f \in Entries : /\ ledger'[u] = Append(ledger[u], f)
                                                   /\ Allowed(w, ledger[u], f)
  BY <1>2, <1>6, <1>7, <1>9
<1>11. Unopened(w)' = Unopened(w)
  <2>1. \A u \in Targets \ {t} : Opened(w, u)' <=> Opened(w, u)
    BY <1>9 DEF Opened
  <2>2. OpenedIn(more, w) => OpenedIn(ledger[t], w)
    <3>1. CASE more = ledger[t]
      BY <3>1
    <3>2. CASE more # ledger[t]
      <4>1. gap \in Entries /\ gap.by # w /\ more = Append(ledger[t], gap)
        BY <1>6, <3>2, WatchAssumption
      <4> QED
        BY <1>3, <4>1, OneMore
    <3> QED
      BY <3>1, <3>2
  <2>3. ~Opened(w, t)' /\ ~Opened(w, t)
    <3>1. ~OpenedIn(ledger[t], w)
      BY <1>2, OpenedAs DEF Unopened
    <3> QED
      BY <1>9, <2>2, <3>1 DEF Opened, OpenedIn
  <2> QED
    BY <2>1, <2>3, FollowsTargets DEF Unopened
<1>12. ReadyToStart(ledger'[Min(Unopened(w)')])
  BY <1>2, <1>6, <1>9, <1>11
<1>13. place[w] \in Watching /\ "start" \in Entering /\ "start" \in Watching \cup Over
  BY <1>1 DEF Watching, Entering
<1> QED
  BY <1>1, <1>4, <1>9, <1>10, <1>11, <1>12, <1>13, WritingKeeps

\* The new session follows the gap of the last one.
LEMMA StartDiscloses ==
    ASSUME NEW entries \in Seq(Entries), NEW w \in Watchers, SessionEntries(entries, w) = {},
           ReadyToStart(entries), \A k \in 1 .. Len(entries) : FinalGap(entries, k)
    PROVE  Discloses(Append(entries, Started(w)), Len(entries) + 1)
<1> DEFINE more == Append(entries, Started(w))
           n == Len(entries) + 1
           v == Latest(entries)
<1>1. Started(w) \in Entries /\ Started(w).by = w
  BY WatchAssumption DEF Started, Entry, Entries, Events, States
<1>2. /\ more \in Seq(Entries) /\ Len(entries) \in Nat /\ Len(more) = n
      /\ \A i \in 1 .. Len(entries) : more[i] = entries[i]
      /\ \A u : u # w => SessionEntries(more, u) = SessionEntries(entries, u)
      /\ \A u : ReachedVerdict(entries, u) => ReachedVerdict(more, u)
  BY <1>1, OneMore
<1> HIDE DEF more
<1>3. {j \in 1 .. n - 1 : more[j].by # NoWatcher} = Named(entries)
  BY <1>2 DEF Named
<1>4. SUFFICES ASSUME Named(entries) # {}, ~ReachedVerdict(more, more[Max(Named(entries))].by)
               PROVE  \E k \in LastOf(more, more[Max(Named(entries))].by, n) .. n :
                          GapOf(more, k, more[Max(Named(entries))].by)
  BY <1>3 DEF Discloses, more
<1>5. Max(Named(entries)) \in Named(entries)
  BY <1>2, <1>4, LatestIsNamed DEF Named
<1>6. more[Max(Named(entries))].by = v
  BY <1>2, <1>5 DEF Named, Latest
<1>7. v # w /\ Max(Named(entries)) \in SessionEntries(entries, v)
  BY <1>5 DEF Named, Latest, SessionEntries
<1> HIDE DEF v
<1>8. PICK k \in 1 .. Len(entries) : GapOf(entries, k, v)
  BY <1>2, <1>4, <1>6 DEF ReadyToStart, v
<1>9. \A j \in SessionEntries(entries, v) : j < k
  <2>1. PICK u \in Watchers : /\ entries[k].from \in SessionEntries(entries, u)
                              /\ \A j \in SessionEntries(entries, u) : j < k
    BY <1>8 DEF FinalGap, GapOf
  <2>2. u = v
    BY <1>8, <2>1 DEF GapOf, SessionEntries
  <2> QED
    BY <2>1, <2>2
<1>10. LastOf(more, v, n) \in SessionEntries(entries, v)
  <2>1. Max(Named(entries)) < n
    BY <1>2, <1>5 DEF Named
  <2> QED
    BY <1>2, <1>7, <2>1, LastIsTheirs
<1>11. LastOf(more, v, n) < k /\ LastOf(more, v, n) \in Nat
  BY <1>9, <1>10 DEF SessionEntries
<1>12. k \in LastOf(more, v, n) .. n
  BY <1>2, <1>11
<1>13. GapOf(more, k, v)
  BY <1>2, <1>7, <1>8 DEF GapOf
<1> QED
  BY <1>6, <1>12, <1>13

LEMMA OpenSessionKeeps ==
    ASSUME LockInv, LedgerInv, NEW w \in Watchers, OpenSession(w)
    PROVE  LedgerInv'
<1>1. place[w] = "start" /\ Unopened(w) # {} /\ ReadyToStart(ledger[Min(Unopened(w))])
  BY DEF OpenSession, LedgerInv, SessionsOpen, Entering
<1>2. PICK t \in Targets : t = Min(Unopened(w)) /\ t \in Unopened(w) /\ t \in Follows[w]
  BY <1>1, NextToOpen
<1> DEFINE q == IF Unopened(w) = {t} THEN "first" ELSE "gap"
<1>3. ledger \in [Targets -> Seq(Entries)] /\ ledger[t] \in Seq(Entries)
  BY <1>2 DEF LedgerInv
<1>4. /\ ledger' = [ledger EXCEPT ![t] = Append(ledger[t], Started(w))]
      /\ place' = [place EXCEPT ![w] = q]
  BY <1>2 DEF OpenSession
<1>5. SessionEntries(ledger[t], w) = {}
  BY <1>2, OpenedAs DEF LedgerInv, WritersOpened, Unopened
<1>6. Started(w) \in Entries /\ Started(w).by = w /\ Started(w).event = "session_started"
  BY WatchAssumption DEF Started, Entry, Entries, Events, States
<1> DEFINE more == Append(ledger[t], Started(w))
<1>7. OpenedIn(more, w)
  <2>1. Len(more) \in 1 .. Len(more) /\ more[Len(more)] = Started(w)
    BY <1>3, <1>6
  <2> QED
    BY <1>6, <2>1 DEF OpenedIn
<1>8. Discloses(more, Len(ledger[t]) + 1)
  <2>1. \A k \in 1 .. Len(ledger[t]) : FinalGap(ledger[t], k)
    BY <1>2 DEF LedgerInv
  <2> QED
    BY <1>1, <1>2, <1>3, <1>5, <2>1, StartDiscloses
<1>9. Allowed(w, ledger[t], Started(w))
  BY <1>6, <1>7, <1>8 DEF Allowed
<1>10. more \in Seq(Entries)
  BY <1>3, <1>6
<1> HIDE DEF more, q
<1>11. /\ ledger' \in [Targets -> Seq(Entries)] /\ ledger'[t] = more
       /\ \A u \in Targets \ {t} : ledger'[u] = ledger[u]
  BY <1>2, <1>3, <1>4, <1>10 DEF more
<1>12. \A u \in Targets : \/ ledger'[u] = ledger[u]
                          \/ /\ u \in Follows[w]
                             /\ \E f \in Entries : /\ ledger'[u] = Append(ledger[u], f)
                                                   /\ Allowed(w, ledger[u], f)
  BY <1>2, <1>6, <1>9, <1>11 DEF more
<1>13. Unopened(w)' = Unopened(w) \ {t}
  <2>1. \A u \in Targets \ {t} : Opened(w, u)' <=> Opened(w, u)
    BY <1>11 DEF Opened
  <2>2. Opened(w, t)'
    BY <1>7, <1>11 DEF Opened, OpenedIn
  <2> QED
    BY <1>2, <2>1, <2>2, FollowsTargets DEF Unopened
<1>14. /\ q \in Watching \cup Over /\ place[w] \in Watching /\ q # "start"
       /\ q \in Entering => Unopened(w)' # {}
       /\ q \in Watching \ Entering => Unopened(w)' = {}
  BY <1>1, <1>2, <1>13 DEF q, Watching, Entering, Over
<1> QED
  BY <1>4, <1>11, <1>12, <1>14, WritingKeeps

\* A step of w, which is not dead, keeps the locks of the others that live and
\* gives them none.
LEMMA LocksKept ==
    ASSUME LockInv, NEW w \in Watchers, place[w] # "dead", NEW q \in WatchPlaces,
           place' = [place EXCEPT ![w] = q],
           watchLock' \in [Targets -> Watchers \cup {NoWatcher}],
           \A t \in Targets, v \in Watchers \ {w} :
               /\ v \in Live /\ watchLock[t] = v => watchLock'[t] = v
               /\ watchLock'[t] = v => watchLock[t] = v,
           claim' \in [Watchers -> Claims], \A v \in Watchers \ {w} : claim'[v] = claim[v],
           round' \in [Watchers -> Rounds], \A v \in Watchers \ {w} : round'[v] = round[v],
           q \in Watching => \A t \in Follows[w] : watchLock'[t] = w,
           q \in Claiming => Locked(w)' # Follows[w],
           q = "remove" => claim'[w].owner \notin Live,
           round'[w].seen \subseteq Follows[w], round'[w].seen # Follows[w]
    PROVE  LockInv'
<1>1. /\ place' \in [Watchers -> WatchPlaces] /\ place'[w] = q
      /\ \A v \in Watchers \ {w} : place'[v] = place[v]
  BY DEF LockInv
<1>2. Live' \subseteq Live
  BY <1>1 DEF Live
<1>3. ASSUME NEW v \in Watchers \ {w}
      PROVE  /\ place'[v] \in Watching => \A t \in Follows[v] : watchLock'[t] = v
             /\ place'[v] \in Claiming => Locked(v)' # Follows[v]
             /\ place'[v] = "remove" => claim'[v].owner \notin Live'
             /\ round'[v].seen \subseteq Follows[v] /\ round'[v].seen # Follows[v]
  <2>1. place'[v] = place[v] /\ claim'[v] = claim[v] /\ round'[v] = round[v]
    BY <1>1
  <2>2. ASSUME place[v] \in Watching, NEW t \in Follows[v] PROVE watchLock'[t] = v
    <3>1. t \in Targets /\ watchLock[t] = v
      BY <2>2, FollowsTargets DEF LockInv
    <3>2. v \in Live
      BY <2>2 DEF Live, Watching
    <3> QED
      BY <3>1, <3>2
  <2>3. Locked(v)' \subseteq Locked(v) /\ Locked(v) \subseteq Follows[v]
    BY FollowsTargets DEF Locked
  <2>4. /\ place[v] \in Claiming => Locked(v) # Follows[v]
        /\ place[v] = "remove" => claim[v].owner \notin Live
        /\ round[v].seen \subseteq Follows[v] /\ round[v].seen # Follows[v]
    BY DEF LockInv
  <2> QED
    BY <1>2, <2>1, <2>2, <2>3, <2>4
<1>4. q = "remove" => claim'[w].owner \notin Live'
  BY <1>2
<1> QED
  BY <1>1, <1>3, <1>4 DEF LockInv

LEMMA NextToLock ==
    ASSUME LockInv, NEW w \in Watchers, place[w] \in Claiming
    PROVE  NextLock(w) \in Follows[w] \ Locked(w) /\ NextLock(w) \in Targets
<1>1. Locked(w) \subseteq Follows[w] /\ Locked(w) # Follows[w]
  BY DEF LockInv, Locked
<1>2. Follows[w] \ Locked(w) \in SUBSET Nat /\ Follows[w] \ Locked(w) # {}
  BY <1>1, FollowsTargets
<1>3. NextLock(w) \in Follows[w] \ Locked(w)
  BY <1>2, MinIsLeast DEF NextLock
<1> QED
  BY <1>3, FollowsTargets

LEMMA NextToSee ==
    ASSUME LockInv, NEW w \in Watchers
    PROVE  NextSeen(w) \in Follows[w] \ round[w].seen
<1>1. round[w].seen \subseteq Follows[w] /\ round[w].seen # Follows[w]
  BY DEF LockInv
<1>2. Follows[w] \ round[w].seen \in SUBSET Nat /\ Follows[w] \ round[w].seen # {}
  BY <1>1, FollowsTargets
<1> QED
  BY <1>2, MinIsLeast DEF NextSeen

\* What a process knew is gone, and its locks with it.
LEMMA GoneTyped ==
    ASSUME LockInv, NEW w \in Watchers, Gone(w)
    PROVE  /\ claim' \in [Watchers -> Claims] /\ \A v \in Watchers \ {w} : claim'[v] = claim[v]
           /\ round' \in [Watchers -> Rounds] /\ \A v \in Watchers \ {w} : round'[v] = round[v]
           /\ round'[w].seen \subseteq Follows[w] /\ round'[w].seen # Follows[w]
<1>1. FirstClaim \in Claims /\ NewRound(0) \in Rounds /\ NewRound(0).seen = {}
  BY DEF FirstClaim, Claims, NewRound, Rounds
<1>2. claim' = [claim EXCEPT ![w] = FirstClaim] /\ round' = [round EXCEPT ![w] = NewRound(0)]
  BY DEF Gone
<1> QED
  BY <1>1, <1>2, FollowsTargets DEF LockInv

LEMMA ReleasedTyped ==
    ASSUME LockInv, NEW w \in Watchers, watchLock' = Released(w)
    PROVE  /\ watchLock' \in [Targets -> Watchers \cup {NoWatcher}]
           /\ \A t \in Targets, v \in Watchers \ {w} :
               /\ v \in Live /\ watchLock[t] = v => watchLock'[t] = v
               /\ watchLock'[t] = v => watchLock[t] = v
BY WatchAssumption DEF LockInv, Released

\* The watch ends.
LEMMA EndKeepsLocks ==
    ASSUME LockInv, NEW w \in Watchers, place[w] # "dead", NEW q \in Over,
           place' = [place EXCEPT ![w] = q], Gone(w),
           watchLock' = Released(w) \/ watchLock' = watchLock
    PROVE  LockInv'
<1>1. q \in WatchPlaces /\ q \notin Watching /\ q \notin Claiming
  BY DEF Over, WatchPlaces, Watching, Claiming
<1>2. /\ watchLock' \in [Targets -> Watchers \cup {NoWatcher}]
      /\ \A t \in Targets, v \in Watchers \ {w} :
            /\ v \in Live /\ watchLock[t] = v => watchLock'[t] = v
            /\ watchLock'[t] = v => watchLock[t] = v
  BY ReleasedTyped DEF LockInv
<1> QED
  BY <1>1, <1>2, GoneTyped, LocksKept DEF Claiming

\* The watch goes on under its locks.
LEMMA WatchingKeepsLocks ==
    ASSUME LockInv, NEW w \in Watchers, place[w] \in Watching, NEW q \in Watching,
           place' = [place EXCEPT ![w] = q], watchLock' = watchLock, claim' = claim,
           round' \in [Watchers -> Rounds], \A v \in Watchers \ {w} : round'[v] = round[v],
           round'[w].seen \subseteq Follows[w], round'[w].seen # Follows[w]
    PROVE  LockInv'
<1>1. q \in WatchPlaces /\ q \notin Claiming /\ place[w] # "dead"
  BY DEF WatchPlaces, Watching, Claiming
<1>2. \A t \in Follows[w] : watchLock'[t] = w
  BY DEF LockInv
<1> QED
  BY <1>1, <1>2, LocksKept DEF LockInv, Claiming

LEMMA JudgeOwnerKeepsLocks ==
    ASSUME LockInv, NEW w \in Watchers, JudgeOwner(w)
    PROVE  LockInv'
<1> DEFINE owner == watchLock[NextLock(w)]
<1>1. place[w] = "look" /\ place[w] \in Claiming /\ place[w] # "dead"
  BY DEF JudgeOwner, Claiming
<1>2. NextLock(w) \in Targets /\ owner \in Watchers \cup {NoWatcher}
  BY <1>1, NextToLock DEF LockInv
<1>3. CASE RefuseBusy(w)
  BY <1>1, <1>3, EndKeepsLocks DEF RefuseBusy, Over
<1>4. /\ Locked(w) # Follows[w] /\ round[w].seen \subseteq Follows[w] /\ round[w].seen # Follows[w]
      /\ watchLock \in [Targets -> Watchers \cup {NoWatcher}]
      /\ claim \in [Watchers -> Claims] /\ round \in [Watchers -> Rounds]
  BY <1>1 DEF LockInv
<1>5. CASE place' = [place EXCEPT ![w] = "create"] /\ UNCHANGED <<watchLock, mind>>
  <2>1. /\ watchLock' = watchLock /\ claim' = claim /\ round' = round
        /\ Locked(w)' = Locked(w)
    BY <1>5 DEF mind, Locked
  <2>2. "create" \in WatchPlaces /\ "create" \notin Watching /\ "create" # "remove"
    BY DEF WatchPlaces, Watching
  <2> QED
    BY <1>1, <1>4, <1>5, <2>1, <2>2, LocksKept
<1>6. CASE /\ owner \notin Live /\ place' = [place EXCEPT ![w] = "remove"]
           /\ claim' = [claim EXCEPT ![w].owner = owner] /\ UNCHANGED <<watchLock, round>>
  <2> DEFINE mine == [claim[w] EXCEPT !.owner = owner]
  <2>1. /\ claim' = [claim EXCEPT ![w] = mine] /\ claim \in [Watchers -> Claims]
        /\ claim[w] \in Claims
    BY <1>6 DEF LockInv
  <2> HIDE DEF owner
  <2>2. mine \in Claims /\ mine.owner = owner
    BY <1>2, <2>1 DEF Claims
  <2> HIDE DEF mine
  <2>3. /\ claim' \in [Watchers -> Claims] /\ claim'[w].owner \notin Live
        /\ \A v \in Watchers \ {w} : claim'[v] = claim[v]
    BY <1>6, <2>1, <2>2
  <2>4. watchLock' = watchLock /\ round' = round /\ Locked(w)' = Locked(w)
    BY <1>6 DEF Locked
  <2>5. "remove" \in WatchPlaces /\ "remove" \notin Watching
    BY DEF WatchPlaces, Watching
  <2> QED
    BY <1>1, <1>4, <1>6, <2>3, <2>4, <2>5, LocksKept
<1> QED
  BY <1>3, <1>5, <1>6 DEF JudgeOwner

LEMMA RemoveStaleKeepsLocks ==
    ASSUME LockInv, NEW w \in Watchers, RemoveStale(w)
    PROVE  LockInv'
<1>1. place[w] = "remove" /\ place[w] \in Claiming
  BY DEF RemoveStale, Claiming
<1>2. PICK t \in Targets : t = NextLock(w) /\ t \in Follows[w] \ Locked(w)
  BY <1>1, NextToLock
<1>3. /\ watchLock' = [watchLock EXCEPT ![t] = NoWatcher]
      /\ place' = [place EXCEPT ![w] = "create"]
      /\ claim' = claim /\ round' = round
      /\ watchLock[t] \in {NoWatcher, claim[w].owner}
  BY <1>2 DEF RemoveStale, OrderlyRemoval
<1>4. claim[w].owner \notin Live /\ watchLock \in [Targets -> Watchers \cup {NoWatcher}]
  BY <1>1 DEF LockInv
<1>5. watchLock[t] \notin Live /\ NoWatcher \notin Watchers
  BY <1>3, <1>4, WatchAssumption DEF Live
<1>6. /\ watchLock' \in [Targets -> Watchers \cup {NoWatcher}]
      /\ \A u \in Targets, v \in Watchers :
            /\ v \in Live /\ watchLock[u] = v => watchLock'[u] = v
            /\ watchLock'[u] = v => watchLock[u] = v
  BY <1>3, <1>4, <1>5
<1>7. Locked(w)' # Follows[w]
  <2>1. watchLock'[t] # w
    BY <1>3, <1>4, <1>5
  <2> QED
    BY <1>2, <2>1 DEF Locked
<1>8. "create" \in WatchPlaces /\ "create" \notin Watching /\ place[w] # "dead"
  BY <1>1 DEF WatchPlaces, Watching
<1>9. /\ round[w].seen \subseteq Follows[w] /\ round[w].seen # Follows[w]
      /\ claim \in [Watchers -> Claims] /\ round \in [Watchers -> Rounds]
  BY DEF LockInv
<1> QED
  BY <1>3, <1>6, <1>7, <1>8, <1>9, LocksKept

LEMMA CreateKeepsLocks ==
    ASSUME LockInv, NEW w \in Watchers, Create(w)
    PROVE  LockInv'
<1>1. place[w] = "create" /\ place[w] \in Claiming /\ place[w] # "dead"
  BY DEF Create, Claiming
<1>2. PICK t \in Targets : t = NextLock(w) /\ t \in Follows[w] \ Locked(w)
  BY <1>1, NextToLock
<1>3. /\ Locked(w) # Follows[w] /\ round[w].seen \subseteq Follows[w] /\ round[w].seen # Follows[w]
      /\ watchLock \in [Targets -> Watchers \cup {NoWatcher}]
      /\ claim \in [Watchers -> Claims] /\ round \in [Watchers -> Rounds]
  BY <1>1 DEF LockInv
<1>4. NoWatcher \notin Watchers /\ "look" \in WatchPlaces /\ "look" \notin Watching
  BY WatchAssumption DEF WatchPlaces, Watching
<1>5. FirstClaim \in Claims /\ [tries |-> 1, owner |-> NoWatcher] \in Claims
  BY DEF FirstClaim, Claims
<1>6. CASE /\ watchLock[t] = NoWatcher /\ watchLock' = [watchLock EXCEPT ![t] = w]
           /\ claim' = [claim EXCEPT ![w] = FirstClaim]
           /\ place' = [place EXCEPT ![w] = IF Follows[w] = Locked(w) \union {t} THEN "gap" ELSE "look"]
           /\ round' = round
  <2> DEFINE q == IF Follows[w] = Locked(w) \union {t} THEN "gap" ELSE "look"
  <2>1. /\ watchLock' \in [Targets -> Watchers \cup {NoWatcher}]
        /\ \A u \in Targets, v \in Watchers \ {w} :
              /\ v \in Live /\ watchLock[u] = v => watchLock'[u] = v
              /\ watchLock'[u] = v => watchLock[u] = v
    BY <1>3, <1>4, <1>6
  <2>2. claim' \in [Watchers -> Claims] /\ \A v \in Watchers \ {w} : claim'[v] = claim[v]
    BY <1>3, <1>5, <1>6
  <2>3. Locked(w)' = Locked(w) \union {t}
    BY <1>2, <1>3, <1>6, FollowsTargets DEF Locked
  <2>4. Locked(w)' \subseteq Follows[w] /\ \A u \in Locked(w)' : watchLock'[u] = w
    BY DEF Locked
  <2>5. /\ q \in WatchPlaces /\ q # "remove"
        /\ q \in Watching => \A u \in Follows[w] : watchLock'[u] = w
        /\ q \in Claiming => Locked(w)' # Follows[w]
    BY <2>3, <2>4 DEF WatchPlaces, Watching, Claiming
  <2> HIDE DEF q
  <2>6. place' = [place EXCEPT ![w] = q]
    BY <1>6 DEF q
  <2> QED
    BY <1>1, <1>3, <1>6, <2>1, <2>2, <2>5, <2>6, LocksKept
<1>7. CASE /\ claim' = [claim EXCEPT ![w] = [tries |-> 1, owner |-> NoWatcher]]
           /\ place' = [place EXCEPT ![w] = "look"] /\ UNCHANGED <<watchLock, round>>
  <2>1. claim' \in [Watchers -> Claims] /\ \A v \in Watchers \ {w} : claim'[v] = claim[v]
    BY <1>3, <1>5, <1>7
  <2>2. watchLock' = watchLock /\ round' = round /\ Locked(w)' = Locked(w)
    BY <1>7 DEF Locked
  <2> QED
    BY <1>1, <1>3, <1>4, <1>7, <2>1, <2>2, LocksKept
<1>8. CASE RefuseBusy(w)
  BY <1>1, <1>8, EndKeepsLocks DEF RefuseBusy, Over
<1> QED
  BY <1>2, <1>6, <1>7, <1>8 DEF Create

\* A round in which the next target was seen.
LEMMA RoundGoesOn ==
    ASSUME LockInv, NEW w \in Watchers, NEW some \in BOOLEAN, NEW bound \in BOOLEAN,
           NEW n \in Nat, NEW r,
           IF SeenAll(w) THEN r = NewRound(n)
           ELSE \/ r = [round[w] EXCEPT !.seen = round[w].seen \union {NextSeen(w)}, !.moved = some]
                \/ r = [round[w] EXCEPT !.seen = round[w].seen \union {NextSeen(w)},
                                        !.moved = some, !.last = bound],
           round' = [round EXCEPT ![w] = r]
    PROVE  /\ round' \in [Watchers -> Rounds] /\ \A v \in Watchers \ {w} : round'[v] = round[v]
           /\ round'[w].seen \subseteq Follows[w] /\ round'[w].seen # Follows[w]
<1>1. NextSeen(w) \in Follows[w] /\ Follows[w] \subseteq Targets /\ Follows[w] # {}
  BY NextToSee, FollowsTargets
<1>2. round \in [Watchers -> Rounds] /\ round[w] \in Rounds /\ round[w].seen \subseteq Follows[w]
  BY DEF LockInv
<1> DEFINE seen == round[w].seen \union {NextSeen(w)}
<1>3. seen \subseteq Follows[w] /\ seen \in SUBSET Targets
  BY <1>1, <1>2
<1>4. r \in Rounds /\ r.seen \subseteq Follows[w] /\ r.seen # Follows[w]
  <2>1. CASE SeenAll(w)
    <3>1. r = [wakes |-> n, seen |-> {}, moved |-> FALSE, last |-> FALSE]
      BY <2>1 DEF NewRound
    <3>2. r \in Rounds /\ r.seen = {}
      BY <3>1 DEF Rounds
    <3> QED
      BY <1>1, <3>2
  <2>2. CASE ~SeenAll(w)
    <3>1. seen # Follows[w]
      BY <2>2 DEF SeenAll
    <3>2. \/ r = [round[w] EXCEPT !.seen = seen, !.moved = some]
          \/ r = [round[w] EXCEPT !.seen = seen, !.moved = some, !.last = bound]
      BY <2>2
    <3> HIDE DEF seen
    <3>3. r \in Rounds /\ r.seen = seen
      BY <1>2, <1>3, <3>2 DEF Rounds
    <3> QED
      BY <1>3, <3>1, <3>3
  <2> QED
    BY <2>1, <2>2
<1> QED
  BY <1>2, <1>4

LEMMA WakeTyped ==
    ASSUME NEW w \in Watchers, NEW state \in {"", "verdict", "interrupted"}
    PROVE  /\ Woken(w, state) \in Entries /\ Woken(w, state).by = w
           /\ Woken(w, state).event # "session_started"
           /\ Ended(w) \in Entries /\ Ended(w).by = w /\ Ended(w).event # "session_started"
BY WatchAssumption DEF Woken, Ended, Entry, Entries, Events, States

\* An entry for the target the watch sees next.
LEMMA SightWritten ==
    ASSUME LockInv, LedgerInv, NEW w \in Watchers, NEW state \in {"", "verdict"},
           ledger' = [ledger EXCEPT ![NextSeen(w)] = Append(ledger[NextSeen(w)], Woken(w, state))]
    PROVE  \E S \in SUBSET Follows[w], e \in Entries :
              /\ e.by = w /\ e.event # "session_started"
              /\ ledger' = [u \in Targets |-> IF u \in S THEN Append(ledger[u], e) ELSE ledger[u]]
<1>1. NextSeen(w) \in Follows[w]
  BY NextToSee
<1>2. ledger \in [Targets -> Seq(Entries)]
  BY DEF LedgerInv
<1>3. /\ Woken(w, state) \in Entries /\ Woken(w, state).by = w
      /\ Woken(w, state).event # "session_started"
  <2>1. state \in {"", "verdict", "interrupted"}
    OBVIOUS
  <2> QED
    BY <2>1, WakeTyped
<1>4. ledger' = [u \in Targets |-> IF u \in {NextSeen(w)} THEN Append(ledger[u], Woken(w, state))
                                   ELSE ledger[u]]
  BY <1>2
<1>5. {NextSeen(w)} \in SUBSET Follows[w]
  BY <1>1
<1> QED
  BY <1>3, <1>4, <1>5

LEMMA SightKeeps ==
    ASSUME LockInv, LedgerInv, NEW w \in Watchers, place[w] \in Watching \ Entering,
           NEW S \in SUBSET Follows[w], NEW e \in Entries, e.by = w, e.event # "session_started",
           ledger' = [u \in Targets |-> IF u \in S THEN Append(ledger[u], e) ELSE ledger[u]],
           NEW q \in Watching \ Entering, place' = [place EXCEPT ![w] = q]
    PROVE  LedgerInv'
<1>1. q \in (Watching \ Entering) \cup Over
  OBVIOUS
<1> QED
  BY <1>1, SessionEntryKeeps

LEMMA JudgeFirstKeeps ==
    ASSUME LockInv, LedgerInv, NEW w \in Watchers, JudgeFirst(w)
    PROVE  LockInv' /\ LedgerInv'
<1>1. place[w] = "first" /\ watchLock' = watchLock /\ claim' = claim
  BY DEF JudgeFirst
<1>2. PICK shown \in {"nothing", "", "verdict"} :
         /\ ledger' = IF shown = "nothing" THEN ledger
                      ELSE [ledger EXCEPT ![NextSeen(w)] = Append(ledger[NextSeen(w)], Woken(w, shown))]
         /\ place' = [place EXCEPT ![w] =
                        IF ~SeenAll(w) THEN "first"
                        ELSE IF round[w].moved \/ shown = "verdict" THEN "close" ELSE "wake"]
         /\ round' = [round EXCEPT ![w] =
                        IF SeenAll(w) THEN NewRound(0)
                        ELSE [round[w] EXCEPT !.seen = round[w].seen \union {NextSeen(w)},
                                              !.moved = round[w].moved \/ shown = "verdict"]]
  BY DEF JudgeFirst
<1> DEFINE some == round[w].moved \/ shown = "verdict"
           q == IF ~SeenAll(w) THEN "first" ELSE IF some THEN "close" ELSE "wake"
           r == IF SeenAll(w) THEN NewRound(0)
                ELSE [round[w] EXCEPT !.seen = round[w].seen \union {NextSeen(w)}, !.moved = some]
<1>3. q \in Watching \ Entering /\ place[w] \in Watching \ Entering
      /\ place' = [place EXCEPT ![w] = q]
  BY <1>1, <1>2 DEF Watching, Entering
<1>4. some \in BOOLEAN /\ 0 \in Nat
  OBVIOUS
<1>5. round' = [round EXCEPT ![w] = r]
  BY <1>2
<1> HIDE DEF q, some
<1>6. /\ round' \in [Watchers -> Rounds] /\ \A v \in Watchers \ {w} : round'[v] = round[v]
      /\ round'[w].seen \subseteq Follows[w] /\ round'[w].seen # Follows[w]
  BY <1>4, <1>5, RoundGoesOn
<1>7. LockInv'
  BY <1>1, <1>3, <1>6, WatchingKeepsLocks
<1>8. CASE shown = "nothing"
  <2>1. ledger' = ledger /\ q \in WatchPlaces
    BY <1>2, <1>3, <1>8 DEF Watching, WatchPlaces
  <2> QED
    BY <1>3, <1>7, <2>1, StillnessKeeps
<1>9. CASE shown # "nothing"
  <2>1. shown \in {"", "verdict"}
    BY <1>9
  <2>2. PICK S \in SUBSET Follows[w], e \in Entries :
            /\ e.by = w /\ e.event # "session_started"
            /\ ledger' = [u \in Targets |-> IF u \in S THEN Append(ledger[u], e) ELSE ledger[u]]
    BY <1>2, <1>9, <2>1, SightWritten
  <2> QED
    BY <1>3, <1>7, <2>2, SightKeeps
<1> QED
  BY <1>8, <1>9

LEMMA WakeKeeps ==
    ASSUME LockInv, LedgerInv, NEW w \in Watchers, Wake(w)
    PROVE  LockInv' /\ LedgerInv'
<1>1. place[w] = "wake" /\ watchLock' = watchLock /\ claim' = claim
  BY DEF Wake
<1>2. PICK verdict \in BOOLEAN, some \in BOOLEAN, bound \in BOOLEAN :
         /\ ledger' = [ledger EXCEPT ![NextSeen(w)] =
                         Append(ledger[NextSeen(w)], Woken(w, IF verdict THEN "verdict" ELSE ""))]
         /\ place' = [place EXCEPT ![w] = IF SeenAll(w) /\ some THEN "close" ELSE "wake"]
         /\ round' = [round EXCEPT ![w] =
                        IF SeenAll(w) THEN NewRound(round[w].wakes + 1)
                        ELSE [round[w] EXCEPT !.seen = round[w].seen \union {NextSeen(w)},
                                              !.moved = some, !.last = bound]]
  <2>1. PICK judged, moved, held, bound \in BOOLEAN :
          LET returns == ~Focused(w) /\ w \notin UntilTerminal /\ moved /\ ~held
              verdict == judged \/ (bound /\ ~returns)
              some == round[w].moved \/ returns \/ verdict
          IN  /\ round[w].seen # {} => bound = round[w].last
              /\ ledger' = [ledger EXCEPT ![NextSeen(w)] =
                              Append(@, Woken(w, IF verdict THEN "verdict" ELSE ""))]
              /\ place' = [place EXCEPT ![w] = IF SeenAll(w) /\ some THEN "close" ELSE "wake"]
              /\ round' = [round EXCEPT ![w] =
                             IF SeenAll(w) THEN NewRound(round[w].wakes + 1)
                             ELSE [round[w] EXCEPT !.seen = round[w].seen \union {NextSeen(w)},
                                                   !.moved = some, !.last = bound]]
    BY DEF Wake
  <2> DEFINE returns == ~Focused(w) /\ w \notin UntilTerminal /\ moved /\ ~held
             verdict == judged \/ (bound /\ ~returns)
             some == round[w].moved \/ returns \/ verdict
  <2>2. verdict \in BOOLEAN /\ some \in BOOLEAN
    OBVIOUS
  <2>3. /\ ledger' = [ledger EXCEPT ![NextSeen(w)] =
                        Append(ledger[NextSeen(w)], Woken(w, IF verdict THEN "verdict" ELSE ""))]
        /\ place' = [place EXCEPT ![w] = IF SeenAll(w) /\ some THEN "close" ELSE "wake"]
        /\ round' = [round EXCEPT ![w] =
                       IF SeenAll(w) THEN NewRound(round[w].wakes + 1)
                       ELSE [round[w] EXCEPT !.seen = round[w].seen \union {NextSeen(w)},
                                             !.moved = some, !.last = bound]]
    BY <2>1
  <2> HIDE DEF verdict, some
  <2> QED
    BY <2>2, <2>3
<1> DEFINE q == IF SeenAll(w) /\ some THEN "close" ELSE "wake"
           r == IF SeenAll(w) THEN NewRound(round[w].wakes + 1)
                ELSE [round[w] EXCEPT !.seen = round[w].seen \union {NextSeen(w)},
                                      !.moved = some, !.last = bound]
           state == IF verdict THEN "verdict" ELSE ""
<1>3. q \in Watching \ Entering /\ place[w] \in Watching \ Entering
      /\ place' = [place EXCEPT ![w] = q]
  BY <1>1, <1>2 DEF Watching, Entering
<1>4. round[w].wakes + 1 \in Nat
  BY DEF LockInv, Rounds
<1>5. round' = [round EXCEPT ![w] = r]
  BY <1>2
<1> HIDE DEF q
<1>6. /\ round' \in [Watchers -> Rounds] /\ \A v \in Watchers \ {w} : round'[v] = round[v]
      /\ round'[w].seen \subseteq Follows[w] /\ round'[w].seen # Follows[w]
  BY <1>4, <1>5, RoundGoesOn
<1>7. LockInv'
  BY <1>1, <1>3, <1>6, WatchingKeepsLocks
<1>8. state \in {"", "verdict"}
  OBVIOUS
<1>9. LedgerInv'
  <2>1. PICK S \in SUBSET Follows[w], e \in Entries :
            /\ e.by = w /\ e.event # "session_started"
            /\ ledger' = [u \in Targets |-> IF u \in S THEN Append(ledger[u], e) ELSE ledger[u]]
    BY <1>2, <1>8, SightWritten
  <2> QED
    BY <1>3, <2>1, SightKeeps
<1> QED
  BY <1>7, <1>9

LEMMA EndingKeeps ==
    ASSUME LockInv, LedgerInv, NEW w \in Watchers,
           EndOpenSessions(w) \/ ReleaseLocks(w) \/ Interrupt(w) \/ WatchDies(w)
    PROVE  LockInv' /\ LedgerInv'
<1>1. Open(w) \in SUBSET Follows[w]
  BY DEF Open
<1>2. "done" \in Over /\ "dead" \in Over /\ Over \subseteq WatchPlaces
  BY DEF Over, WatchPlaces
<1>3. CASE EndOpenSessions(w)
  <2>1. /\ place[w] \in Watching \ Entering /\ "release" \in Watching \ Entering
        /\ place' = [place EXCEPT ![w] = "release"]
        /\ watchLock' = watchLock /\ claim' = claim /\ round' = round
        /\ ledger' = [t \in Targets |-> IF t \in Open(w) THEN Append(ledger[t], Ended(w)) ELSE ledger[t]]
    BY <1>3 DEF EndOpenSessions, Closed, mind, Watching, Entering
  <2>2. Ended(w) \in Entries /\ Ended(w).by = w /\ Ended(w).event # "session_started"
    BY WakeTyped
  <2>3. /\ round \in [Watchers -> Rounds] /\ round[w].seen \subseteq Follows[w]
        /\ round[w].seen # Follows[w]
    BY DEF LockInv
  <2>4. LockInv'
    BY <2>1, <2>3, WatchingKeepsLocks
  <2>5. "release" \in (Watching \ Entering) \cup Over
    BY <2>1
  <2> QED
    BY <1>1, <2>1, <2>2, <2>4, <2>5, SessionEntryKeeps
<1>4. CASE ReleaseLocks(w)
  <2>1. /\ place[w] # "dead" /\ place' = [place EXCEPT ![w] = "done"] /\ Gone(w)
        /\ watchLock' = Released(w) /\ ledger' = ledger
    BY <1>4 DEF ReleaseLocks
  <2> QED
    BY <1>2, <2>1, EndKeepsLocks, StillnessKeeps
<1>5. CASE Interrupt(w)
  <2>1. /\ place[w] \in Watching \ Entering /\ place[w] # "dead"
        /\ place' = [place EXCEPT ![w] = "done"] /\ Gone(w) /\ watchLock' = Released(w)
        /\ ledger' = [t \in Targets |-> IF t \in Open(w) THEN Append(ledger[t], Woken(w, "interrupted"))
                                        ELSE ledger[t]]
    BY <1>5 DEF Interrupt, Closed, Watching, Entering
  <2>2. /\ Woken(w, "interrupted") \in Entries /\ Woken(w, "interrupted").by = w
        /\ Woken(w, "interrupted").event # "session_started"
    BY WakeTyped
  <2>3. LockInv'
    BY <1>2, <2>1, EndKeepsLocks
  <2>4. "done" \in (Watching \ Entering) \cup Over
    BY <1>2
  <2> QED
    BY <1>1, <2>1, <2>2, <2>3, <2>4, SessionEntryKeeps
<1>6. CASE WatchDies(w)
  <2>1. /\ place[w] # "dead" /\ place' = [place EXCEPT ![w] = "dead"] /\ Gone(w)
        /\ watchLock' = watchLock /\ ledger' = ledger
    BY <1>6 DEF WatchDies
  <2> QED
    BY <1>2, <2>1, EndKeepsLocks, StillnessKeeps
<1> QED
  BY <1>3, <1>4, <1>5, <1>6

LEMMA ClaimingKeeps ==
    ASSUME LockInv, LedgerInv, NEW w \in Watchers, JudgeOwner(w) \/ RemoveStale(w) \/ Create(w)
    PROVE  LockInv' /\ LedgerInv'
<1>1. LockInv'
  BY JudgeOwnerKeepsLocks, RemoveStaleKeepsLocks, CreateKeepsLocks
<1>2. place[w] \in Claiming /\ ledger' = ledger
  BY DEF JudgeOwner, RemoveStale, Create, Claiming
<1>3. PICK q \in Claiming \cup {"gap", "done"} : place' = [place EXCEPT ![w] = q]
  BY DEF JudgeOwner, RemoveStale, Create, RefuseBusy, Claiming
<1>4. q \in WatchPlaces /\ (q \in Over \/ q \in Claiming \cup {"gap"})
  BY <1>3 DEF Claiming, WatchPlaces, Over
<1> QED
  BY <1>1, <1>2, <1>3, <1>4, StillnessKeeps

LEMMA StartingKeeps ==
    ASSUME LockInv, LedgerInv, NEW w \in Watchers, RecordGap(w) \/ OpenSession(w)
    PROVE  LockInv' /\ LedgerInv'
<1>1. LedgerInv'
  BY RecordGapKeeps, OpenSessionKeeps
<1>2. place[w] \in Watching /\ watchLock' = watchLock /\ claim' = claim /\ round' = round
  BY DEF RecordGap, OpenSession, mind, Watching
<1>3. PICK q \in Watching : place' = [place EXCEPT ![w] = q]
  BY DEF RecordGap, OpenSession, Watching
<1>4. /\ round \in [Watchers -> Rounds] /\ round[w].seen \subseteq Follows[w]
      /\ round[w].seen # Follows[w]
  BY DEF LockInv
<1> QED
  BY <1>1, <1>2, <1>3, <1>4, WatchingKeepsLocks

LEMMA WatchInvInit == HInit => LockInv /\ LedgerInv
<1> SUFFICES ASSUME HInit PROVE LockInv /\ LedgerInv
  OBVIOUS
<1>1. /\ watchLock = [t \in Targets |-> NoWatcher] /\ ledger = [t \in Targets |-> <<>>]
      /\ place = [w \in Watchers |-> "look"]
      /\ claim = [w \in Watchers |-> FirstClaim] /\ round = [w \in Watchers |-> NewRound(0)]
  BY DEF HInit
<1>2. FirstClaim \in Claims /\ NewRound(0) \in Rounds /\ NewRound(0).seen = {}
  BY DEF FirstClaim, Claims, NewRound, Rounds
<1>3. "look" \in WatchPlaces /\ "look" \notin Watching /\ "look" \notin Entering /\ "look" # "remove"
  BY DEF WatchPlaces, Watching, Entering
<1>4. ASSUME NEW w \in Watchers PROVE Locked(w) = {}
  <2>1. \A t \in Follows[w] : watchLock[t] = NoWatcher
    BY <1>1, FollowsTargets
  <2> QED
    BY <2>1, WatchAssumption DEF Locked
<1>5. LockInv
  BY <1>1, <1>2, <1>3, <1>4, FollowsTargets DEF LockInv
<1>6. \A t \in Targets : ledger[t] = <<>> /\ Len(ledger[t]) = 0 /\ ledger[t] \in Seq(Entries)
  BY <1>1
<1>7. \A t \in Targets, w \in Watchers : SessionEntries(ledger[t], w) = {}
  BY <1>6 DEF SessionEntries
<1>8. WritersOpened
  BY <1>7 DEF WritersOpened
<1>9. SessionsOpen
  BY <1>1, <1>3 DEF SessionsOpen, Entering, Watching
<1> QED
  BY <1>1, <1>5, <1>6, <1>8, <1>9 DEF LedgerInv

\* Time in which nobody watched a worker is disclosed, for any number of targets,
\* of watches and of deaths, and for focused and multiplexed watches alike, as
\* long as a removal only hits the lock of the owner it read.
THEOREM LostTimeIsShown == HSpec => []LostTimeIsDisclosed
<1>1. LockInv /\ LedgerInv /\ [HNext]_hVars => (LockInv /\ LedgerInv)'
  <2> SUFFICES ASSUME LockInv, LedgerInv, [HNext]_hVars PROVE LockInv' /\ LedgerInv'
    OBVIOUS
  <2>1. CASE UNCHANGED hVars
    <3>1. /\ watchLock' = watchLock /\ ledger' = ledger /\ place' = place
          /\ claim' = claim /\ round' = round
      BY <2>1 DEF hVars, mind
    <3>2. \A w \in Watchers : Locked(w)' = Locked(w) /\ Unopened(w)' = Unopened(w)
      BY <3>1 DEF Locked, Unopened, Opened
    <3>3. LockInv'
      BY <3>1, <3>2 DEF LockInv, Live
    <3>4. WritersOpened' /\ SessionsOpen'
      BY <3>1, <3>2 DEF LedgerInv, WritersOpened, SessionsOpen
    <3>5. \A t \in Targets : \A k \in 1 .. Len(ledger[t]) : FinalGap(ledger[t], k)'
      BY <3>1 DEF LedgerInv, FinalGap
    <3> QED
      BY <3>1, <3>3, <3>4, <3>5 DEF LedgerInv
  <2>2. ASSUME NEW w \in Watchers,
               \/ JudgeOwner(w) \/ RemoveStale(w) \/ Create(w)
               \/ RecordGap(w) \/ OpenSession(w) \/ JudgeFirst(w) \/ Wake(w)
               \/ EndOpenSessions(w) \/ ReleaseLocks(w) \/ Interrupt(w) \/ WatchDies(w)
        PROVE  LockInv' /\ LedgerInv'
    BY <2>2, ClaimingKeeps, StartingKeeps, JudgeFirstKeeps, WakeKeeps, EndingKeeps
  <2> QED
    BY <2>1, <2>2 DEF HNext
<1>2. LedgerInv => LostTimeIsDisclosed
  BY DEF LedgerInv, LostTimeIsDisclosed, Discloses, GapOf
<1> QED
  BY <1>1, <1>2, WatchInvInit, PTL DEF HSpec
=============================================================================
