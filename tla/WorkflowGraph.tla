---------------------------- MODULE WorkflowGraph ----------------------------
(***************************************************************************)
(* The workflow a run follows: src/library/workflows/<slug>/, as           *)
(* loadRunWorkflow and stageBySlug give it to the engine.  A workflow is a *)
(* constant of a run: the engine reads the snapshot taken when the run was *)
(* created.  Prompts, personas, context projections and commands are left  *)
(* out; what is kept is what decides where a run goes next.                *)
(***************************************************************************)
EXTENDS Naturals

CONSTANTS
    Stages,          \* the stage slugs of the workflow
    StartStage,      \* workflow.start_stage
    Position,        \* the index of a stage in workflow.stages
    OnOutcome,       \* stage.transitions: stage -> outcome -> target
    GateOf,          \* stage.gate
    EntryGateOf,     \* stage.entry_gate, with its repair route classified
    VerifyStage,     \* the stage whose slug is 'verify' (or no stage)
    ShipStage,       \* the stage whose slug is 'ship' (or no stage)
    ReturnStages,    \* stages that refresh profiles on a return from repair
    RepairStage,     \* the stage whose slug is 'remediate' (or no stage)
    EvidenceStages,  \* stages that declare evidence workers
    Criteria,        \* the hard criteria a failure can name
    MaxTransitions,  \* limits.max_total_transitions
    MaxAttempts,     \* limits.max_stage_attempts
    MaxFailures,     \* limits.max_consecutive_failures
    LongHorizon,     \* the run carries the long_horizon contract
    Candidate,       \* the run is a best-of-N candidate
    AwayMode         \* away mode is enabled for the run

NoStage == "no_stage"

Outcomes == {"success", "failure", "blocked"}
TerminalTargets == {"succeeded", "failed", "canceled"}
Targets == Stages \cup TerminalTargets \cup {"paused"}
StageGates == {"next_stage", "stage_verdict", "supervisor", "operator"}

(* How a failed entry gate returns from its repair stage; "none" is a      *)
(* stage that declares no entry gate.                                      *)
EntryRoutes == {"none", "direct", "through", "unsatisfiable"}
EntryGate == [route : EntryRoutes, repair : Stages, maxLoops : Nat]

(* The set of hard criteria that failed in one submission; empty when the  *)
(* worker reports a failure no criterion shows.                            *)
Signatures == SUBSET Criteria

ASSUME StagesAssumption ==
    /\ StartStage \in Stages
    /\ Stages \cap (TerminalTargets \cup {"paused", NoStage}) = {}

ASSUME GraphAssumption ==
    /\ Position \in [Stages -> Nat]
    /\ OnOutcome \in [Stages -> [Outcomes -> Targets]]
    /\ GateOf \in [Stages -> StageGates]
    /\ EntryGateOf \in [Stages -> EntryGate]
    /\ ReturnStages \subseteq Stages
    /\ EvidenceStages \subseteq Stages

ASSUME LimitsAssumption ==
    /\ MaxTransitions \in Nat
    /\ MaxAttempts \in Nat
    /\ MaxFailures \in Nat

ASSUME ContractAssumption ==
    /\ LongHorizon \in BOOLEAN
    /\ Candidate \in BOOLEAN
    /\ AwayMode \in BOOLEAN

HasEntryGate(s) == EntryGateOf[s].route # "none"

(* isSameReasonTrackedStage: verification loops through remediation, the   *)
(* other tracked stages loop through themselves.                           *)
SameReasonTracked(s) == s = VerifyStage \/ OnOutcome[s]["failure"] = s

(* A failure transition that names another live stage: the repair route of *)
(* the long-horizon ladder.                                                *)
HasRepairRoute(s) == OnOutcome[s]["failure"] \in Stages \ {s}
=============================================================================
