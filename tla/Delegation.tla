----------------------------- MODULE Delegation -----------------------------
(***************************************************************************)
(* `pan delegate` runs the worker of the current invocation card.  The     *)
(* process holds a launch mutex of its own for as long as the worker runs, *)
(* but takes the run's operation mutex only twice: to read what to launch, *)
(* and to record the result.  In between, for hours, the operator may      *)
(* pause, resume or redirect the run, the output may be submitted, and the *)
(* delegating process may die and leave its worker running.                *)
(* One stage is modelled: sessions are recorded per stage.                 *)
(***************************************************************************)
EXTENDS Naturals, FiniteSets

CONSTANTS
    Delegates,   \* processes that run `pan delegate` on this run
    MaxCards     \* bound: cards prepared


VARIABLES
    drun,      \* the run: status, current_invocation (0: none), cards so far
    saved,     \* the status an operator pause will restore, or "none"
    last,      \* the stage's last submission: its card and outcome
    sentBack,  \* accepted cards the operator returned with a directive
    stageWorker,    \* external_executor_sessions[stage]: card and worker
    launch,    \* holder of the launch mutex, or NoWorker
    proc,      \* per process: step, card, card of the worker it resumes
    evidence,  \* the evidence dispatcher is at work
    workers,   \* live workers: the launcher if it lives, card, what it resumes
    output     \* cards whose output file has been written

dVars == <<drun, saved, last, sentBack, stageWorker, launch, proc, evidence,
           workers, output>>

Cards == 1 .. MaxCards
NoWorker == "nobody"
NoSession == 0
AtRest == [step |-> "idle", card |-> 0, resume |-> NoSession]

ASSUME DelegationAssumption == MaxCards \in Nat /\ NoWorker \notin Delegates

DTypeOK ==
    /\ drun \in [status : {"running", "awaiting", "paused",
                              "canceled"}, current : 0 .. MaxCards, cards : 0 .. MaxCards]
    /\ saved \in {"none", "running", "awaiting"}
    /\ last \in [card : 0 .. MaxCards, outcome : {"none", "success", "failed"}]
    /\ sentBack \subseteq 0 .. MaxCards
    /\ stageWorker \in 0 .. MaxCards
    /\ launch \in Delegates \cup {NoWorker}
    /\ proc \in [Delegates -> [step : {"idle", "launching", "working",
                    "returned", "written", "dead"}, card : 0 .. MaxCards,
                    resume : 0 .. MaxCards]]
    /\ evidence \in BOOLEAN
    /\ workers \subseteq [by : Delegates \cup {NoWorker}, card : Cards, resume : 0 .. MaxCards]
    /\ output \subseteq Cards

DInit ==
    /\ drun = [status |-> "running", current |-> 0, cards |-> 0]
    /\ saved = "none"
    /\ last = [card |-> 0, outcome |-> "none"]
    /\ sentBack = {}
    /\ stageWorker = NoSession
    /\ launch = NoWorker
    /\ proc = [p \in Delegates |-> AtRest]
    /\ evidence = FALSE
    /\ workers = {}
    /\ output = {}

-----------------------------------------------------------------------------
(* What the operator and the supervisor do to the run meanwhile            *)

launchVars == <<stageWorker, launch, proc, evidence, workers, output>>

PrepareCard ==
    /\ drun.status = "running" /\ drun.current = 0
    /\ drun.cards < MaxCards
    /\ drun' = [drun EXCEPT !.current = drun.cards + 1, !.cards = @ + 1]
    /\ UNCHANGED <<saved, last, sentBack, launchVars>>

\* The output of the current card is submitted: a success waits for the
\* operator, a failure is prepared again.
SubmitOutput ==
    /\ drun.status = "running" /\ drun.current \in output
    /\ \/ /\ last' = [card |-> drun.current, outcome |-> "success"]
          /\ drun' = [drun EXCEPT !.status = "awaiting"]
       \/ /\ last' = [card |-> drun.current, outcome |-> "failed"]
          /\ drun' = [drun EXCEPT !.current = 0]
    /\ UNCHANGED <<saved, sentBack, launchVars>>

\* The operator sends the accepted output back, or returns to the stage later
\* without a directive.
Decide(revise) ==
    /\ drun.status = "awaiting"
    /\ sentBack' = IF revise THEN sentBack \cup {last.card} ELSE sentBack
    /\ drun' = [drun EXCEPT !.status = "running", !.current = 0]
    /\ UNCHANGED <<saved, last, launchVars>>

PauseRun ==
    /\ drun.status \in {"running", "awaiting"}
    /\ saved' = drun.status
    /\ drun' = [drun EXCEPT !.status = "paused"]
    /\ UNCHANGED <<last, sentBack, launchVars>>

\* A resume gives the run back its card, or, with a note, with edits to ratify
\* or behind a pause of the harness, discards the card.
ResumeRun(keep) ==
    /\ drun.status = "paused"
    /\ drun' = IF keep /\ saved # "none" THEN [drun EXCEPT !.status = saved]
               ELSE [drun EXCEPT !.status = "running", !.current = 0]
    /\ saved' = "none"
    /\ UNCHANGED <<last, sentBack, launchVars>>

AbortRun ==
    /\ drun.status # "canceled"
    /\ drun' = [drun EXCEPT !.status = "canceled", !.current = 0]
    /\ saved' = "none"
    /\ UNCHANGED <<last, sentBack, launchVars>>

\* The evidence workers of a card are dispatched outside the run's mutex, one
\* after the other; each one's executor is probed when its turn comes.
BeginEvidence ==
    /\ ~evidence /\ drun.status = "running" /\ drun.current # 0
    /\ evidence' = TRUE
    /\ UNCHANGED <<drun, saved, last, sentBack, stageWorker, launch, proc, workers,
                   output>>

EndEvidence ==
    /\ evidence
    /\ evidence' = FALSE
    /\ UNCHANGED <<drun, saved, last, sentBack, stageWorker, launch, proc, workers,
                   output>>

\* A probe fails: the run is loaded again and paused, whatever it is by then.
EvidencePreflightFails ==
    /\ evidence
    /\ evidence' = FALSE
    /\ drun' = [drun EXCEPT !.status = "paused"]
    /\ UNCHANGED <<saved, last, sentBack, stageWorker, launch, proc, workers, output>>

-----------------------------------------------------------------------------
(* A delegating process                                                    *)

(* Mutant: the launch mutex is not asked for. *)
MutantLaunchFree == TRUE

\* A holder that died no longer counts (OperationMutex.tla).
LaunchFree == launch \in Delegates => proc[launch].step = "dead"

Awaited(card) == drun.status = "running" /\ drun.current = card

\* Only an operator revision of an accepted round resumes its worker.
ResumableWorker ==
    IF last.outcome = "success" /\ last.card \in sentBack /\ stageWorker = last.card
    THEN stageWorker
    ELSE NoSession

\* First critical section: what to launch is read once.
BeginDelegate(p) ==
    /\ proc[p].step = "idle" /\ LaunchFree
    /\ drun.current # 0 /\ Awaited(drun.current)
    /\ launch' = p
    /\ proc' = [proc EXCEPT ![p] = [step |-> "launching", card |-> drun.current,
                                    resume |-> ResumableWorker]]
    /\ UNCHANGED <<drun, saved, last, sentBack, stageWorker, evidence, workers, output>>

\* The executor is not ready: the run pauses before anything is launched.
PreflightFails(p) ==
    /\ proc[p].step = "idle" /\ LaunchFree
    /\ drun.current # 0 /\ Awaited(drun.current)
    /\ drun' = [drun EXCEPT !.status = "paused"]
    /\ launch' = NoWorker
    /\ UNCHANGED <<saved, last, sentBack, stageWorker, proc, evidence, workers, output>>

LaunchWorker(p) ==
    /\ proc[p].step = "launching"
    /\ proc' = [proc EXCEPT ![p].step = "working"]
    /\ workers' = workers \cup {[by |-> p, card |-> proc[p].card,
                                 resume |-> proc[p].resume]}
    /\ UNCHANGED <<drun, saved, last, sentBack, stageWorker, launch, evidence, output>>

\* A live worker writes its card's output, also when its launcher is dead or
\* its card is no longer the run's.
WorkerWrites(w) ==
    /\ w.card \notin output
    /\ output' = output \cup {w.card}
    /\ UNCHANGED <<drun, saved, last, sentBack, stageWorker, launch, proc, evidence, workers>>

Owns(p, w) == proc[p].step = "working" /\ w.by = p

\* The worker ends and its launcher, if it lives, holds the result.  A resume
\* that failed falls back to a fresh worker.
WorkerEnds(p, w) ==
    /\ Owns(p, w)
    /\ workers' = workers \ {w}
    /\ \/ proc' = [proc EXCEPT ![p].step = "returned"]
       \/ /\ w.resume # NoSession
          /\ proc' = [proc EXCEPT ![p] = [@ EXCEPT !.step = "launching",
                                                   !.resume = NoSession]]
    /\ UNCHANGED <<drun, saved, last, sentBack, stageWorker, launch, evidence, output>>

OrphanEnds(w) ==
    /\ w.by = NoWorker
    /\ workers' = workers \ {w}
    /\ UNCHANGED <<drun, saved, last, sentBack, stageWorker, launch, proc, evidence, output>>

\* Logs, delivered prompt and execution record are written outside the run's
\* mutex, so also when the run has moved on.
WriteEvidence(p) ==
    /\ proc[p].step = "returned"
    /\ proc' = [proc EXCEPT ![p].step = "written"]
    /\ UNCHANGED <<drun, saved, last, sentBack, stageWorker, launch, evidence, workers, output>>

FinishDelegate(p) ==
    /\ proc' = [proc EXCEPT ![p] = AtRest]
    /\ launch' = NoWorker

(* Mutant: the result is recorded without a look at the run. *)
MutantRecordResult(p) ==
    /\ proc[p].step = "written"
    /\ stageWorker' \in {stageWorker, proc[p].card}
    /\ FinishDelegate(p)
    /\ UNCHANGED <<drun, saved, last, sentBack, evidence, workers, output>>

\* Second critical section: a result still awaited records its worker, if it
\* has one; a failed result leaves the run waiting for the same card.
RecordResult(p) ==
    /\ proc[p].step = "written"
    /\ Awaited(proc[p].card)
    /\ stageWorker' \in {stageWorker, proc[p].card}
    /\ FinishDelegate(p)
    /\ UNCHANGED <<drun, saved, last, sentBack, evidence, workers, output>>

\* The run changed, or its mutex stayed busy for longer than the wait.
RefuseResult(p) ==
    /\ proc[p].step = "written"
    /\ FinishDelegate(p)
    /\ UNCHANGED <<drun, saved, last, sentBack, stageWorker, evidence, workers, output>>

\* The process is killed; its worker is a process of its own and goes on.
KillDelegate(p) ==
    /\ proc[p].step \notin {"idle", "dead"}
    /\ proc' = [proc EXCEPT ![p] = [AtRest EXCEPT !.step = "dead"]]
    /\ workers' = {IF w.by = p THEN [w EXCEPT !.by = NoWorker] ELSE w : w \in workers}
    /\ UNCHANGED <<drun, saved, last, sentBack, stageWorker, launch, evidence, output>>

\* The same command is run again by a new process.
RestartDelegate(p) ==
    /\ proc[p].step = "dead"
    /\ proc' = [proc EXCEPT ![p] = AtRest]
    /\ launch' = IF launch = p THEN NoWorker ELSE launch
    /\ UNCHANGED <<drun, saved, last, sentBack, stageWorker, evidence, workers, output>>

DelegateStep(p) ==
    \/ LaunchWorker(p) \/ WriteEvidence(p) \/ RecordResult(p) \/ RefuseResult(p)
    \/ \E w \in workers : WorkerEnds(p, w)

DNext ==
    \/ PrepareCard \/ SubmitOutput \/ PauseRun \/ AbortRun
    \/ BeginEvidence \/ EndEvidence \/ EvidencePreflightFails
    \/ \E yes \in BOOLEAN : Decide(yes) \/ ResumeRun(yes)
    \/ \E w \in workers : WorkerWrites(w) \/ OrphanEnds(w)
    \/ \E p \in Delegates :
          \/ BeginDelegate(p) \/ PreflightFails(p) \/ DelegateStep(p)
          \/ KillDelegate(p) \/ RestartDelegate(p)

DFairness == \A p \in Delegates : WF_dVars(DelegateStep(p))

DSpec == DInit /\ [][DNext]_dVars /\ DFairness

-----------------------------------------------------------------------------
(* Properties                                                              *)

\* Launch ownership lasts for the worker's lifetime: of all workers of the run
\* that run at once, at most one was not orphaned by its launcher's death.
OneOwnedWorker ==
    Cardinality({w \in workers : w.by # NoWorker}) <= 1

\* A worker is recorded only while the run still waits for the very card the
\* worker was launched with: never for one that was submitted, discarded or
\* replaced during the hours the worker ran.
RecordedWhileAwaited ==
    [][stageWorker' # stageWorker => /\ Awaited(stageWorker') /\ stageWorker' # last.card]_dVars
=============================================================================
