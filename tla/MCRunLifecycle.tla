---------------------------- MODULE MCRunLifecycle ----------------------------
(***************************************************************************)
(* Small workflows for TLC.  Each is the graph of a shipped workflow, or   *)
(* the smallest graph with the feature a run asks about.                   *)
(***************************************************************************)
EXTENDS RunClaims

Edges(success, failure) ==
    [o \in Outcomes |-> CASE o = "success" -> success
                          [] o = "failure" -> failure
                          [] OTHER -> "paused"]
NoEntryGate(S) ==
    [s \in S |-> [route |-> "none", repair |-> s, maxLoops |-> 0]]

(* library/workflows/delivery *)
DeliveryStages == {"implement", "verify", "remediate", "ship"}
DeliveryPosition == [s \in DeliveryStages |->
    CASE s = "implement" -> 1 [] s = "verify" -> 2 [] s = "remediate" -> 3
      [] OTHER -> 4]
DeliveryEdges == [s \in DeliveryStages |->
    CASE s = "implement" -> Edges("verify", "implement")
      [] s = "verify" -> Edges("ship", "remediate")
      [] s = "remediate" -> Edges("verify", "remediate")
      [] OTHER -> Edges("succeeded", "remediate")]
DeliveryGates == [s \in DeliveryStages |->
    CASE s = "verify" -> "stage_verdict" [] s = "ship" -> "operator"
      [] OTHER -> "next_stage"]
DeliveryEntryGates == NoEntryGate(DeliveryStages)

(* library/workflows/planning *)
PlanningStages == {"plan"}
PlanningPosition == [s \in PlanningStages |-> 1]
PlanningEdges == [s \in PlanningStages |-> Edges("succeeded", "plan")]
PlanningGates == [s \in PlanningStages |-> "operator"]
PlanningEntryGates == NoEntryGate(PlanningStages)

(* library/workflows/delivery-chunk, from its verify stage on *)
ChunkStages == {"verify", "remediate"}
ChunkPosition == [s \in ChunkStages |-> IF s = "verify" THEN 1 ELSE 2]
ChunkEdges == [s \in ChunkStages |->
    IF s = "verify" THEN Edges("succeeded", "remediate")
                    ELSE Edges("verify", "remediate")]
ChunkGates == [s \in ChunkStages |->
    IF s = "verify" THEN "stage_verdict" ELSE "next_stage"]
ChunkEntryGates == NoEntryGate(ChunkStages)

(* library/workflows/delivery-candidate, implement left out *)
CandidateStages == {"plan", "verify", "remediate"}
CandidatePosition == [s \in CandidateStages |->
    CASE s = "plan" -> 1 [] s = "verify" -> 2 [] OTHER -> 3]
CandidateEdges == [s \in CandidateStages |->
    CASE s = "plan" -> Edges("verify", "plan")
      [] s = "verify" -> Edges("succeeded", "remediate")
      [] OTHER -> Edges("verify", "remediate")]
CandidateGates == [s \in CandidateStages |->
    CASE s = "plan" -> "supervisor" [] s = "verify" -> "stage_verdict"
      [] OTHER -> "next_stage"]
CandidateEntryGates == NoEntryGate(CandidateStages)

(* A project workflow whose stages declare entry gates: a release gate on  *)
(* ship that is repaired by a stage whose own success leads elsewhere, and *)
(* a gate on build whose repair cannot bring the run back.                 *)
GatedStages == {"build", "repair", "ship"}
GatedPosition == [s \in GatedStages |->
    CASE s = "build" -> 1 [] s = "repair" -> 2 [] OTHER -> 3]
GatedEdges == [s \in GatedStages |->
    CASE s = "build" -> Edges("ship", "repair")
      [] s = "repair" -> Edges("build", "repair")
      [] OTHER -> Edges("succeeded", "repair")]
GatedGates == [s \in GatedStages |->
    IF s = "ship" THEN "operator" ELSE "next_stage"]
GatedEntryGates == [s \in GatedStages |->
    CASE s = "ship" ->
            [route |-> "direct", repair |-> "repair", maxLoops |-> 1]
      [] s = "build" ->
            [route |-> "unsatisfiable", repair |-> "repair", maxLoops |-> 1]
      [] OTHER -> [route |-> "none", repair |-> "repair", maxLoops |-> 0]]
ReleaseGateOnly == [GatedEntryGates EXCEPT !["build"].route = "none"]
=============================================================================
