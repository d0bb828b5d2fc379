---------------------------- MODULE CohortsProofs ----------------------------
(***************************************************************************)
(* What a cohort session promises, for every plan, every parallelism, any  *)
(* number of runs per chunk and of commands that die half-way.             *)
(***************************************************************************)
EXTENDS Cohorts, Extrema, FiniteSetTheorems

Used(u) == {n \in RunNumbers : unitRuns[u][n] # "none"}
Newest(u, n) == n \in Used(u) /\ \A m \in Used(u) : m <= n

(* The runs of a unit are numbered without a gap, only the newest may be   *)
(* live, and a unit's record names the newest.                             *)
RunsInOrder ==
    \A u \in Units :
        /\ \A n \in LiveRuns(u) : Newest(u, n)
        /\ \A n \in Used(u) : \A m \in 1 .. n : m \in Used(u)
        /\ chunk[u].run # 0 => Newest(u, chunk[u].run)

(* A start works through chunks of one cohort that have no run, and every  *)
(* earlier cohort has its proof.                                           *)
Starting ==
    op.kind = "start" =>
        /\ op.group \in Groups
        /\ \A k \in Groups : k < op.group => k \in proofs
        /\ op.todo \subseteq GroupOf(op.group)
        /\ \A c \in op.todo : chunk[c].run = 0
        /\ op.step \in {"pick", "named", "tree", "bound"}
        /\ op.step # "pick" => op.at \in GroupOf(op.group) \ op.todo

(* A release run is started after the last proof.                          *)
Releasing ==
    op.kind = "release" =>
        /\ op.at = ReleaseUnit /\ Groups \subseteq proofs
        /\ op.step \in {"named", "tree", "bound"}

(* The unit that is placed has no recorded run yet, and once a run is      *)
(* bound to it there is a newest one to record.                            *)
Placing ==
    /\ op.step \in {"named", "tree", "bound"} =>
          op.kind \in {"start", "release"} /\ chunk[op.at].run = 0
    /\ op.step = "bound" => \E n \in RunNumbers : Newest(op.at, n)

(* What is left to merge has no live run that could still write, is        *)
(* committed before the first merge, and all the rest is merged.           *)
Merging ==
    op.kind = "integrate" =>
        /\ op.group \in Groups
        /\ op.step \in {"commit", "merge"}
        /\ op.todo \subseteq GroupOf(op.group)
        /\ \A c \in op.todo : LiveRuns(c) = {}
        /\ op.step = "merge" => \A c \in op.todo : work[c] = "committed"
        /\ \A c \in GroupOf(op.group) :
              chunk[c].abandoned \/ c \in op.todo \/ c \in content[target]

(* The session's branch exists.                                            *)
HeadExists == content[target] # Missing

(* Neither promise is inductive.  A proof is written when nothing is left  *)
(* to merge: Merging says that what is gone from the list is on the        *)
(* branch, which takes that no run wrote after the commit, and that takes  *)
(* RunsInOrder: the run a chunk names is the only one that could.  A       *)
(* worktree starts at the head: Starting and Releasing say which proofs    *)
(* are there by then, and ProofMeansMerged what they are worth.            *)
CInv ==
    /\ CTypeOK
    /\ RunsInOrder /\ Starting /\ Releasing /\ Placing /\ Merging /\ HeadExists
    /\ ProofMeansMerged /\ PredecessorsVisible

-----------------------------------------------------------------------------
(* The parts of a plan                                                     *)

(* Chunks, cohorts and run numbers are naturals, and none but the release  *)
(* unit is zero.                                                           *)
LEMMA Numbered ==
    /\ Chunks \subseteq Nat \ {0} /\ Units \subseteq Nat
    /\ ReleaseUnit \in Units /\ ReleaseUnit \notin Chunks /\ ReleaseUnit = 0
    /\ Groups \subseteq Nat \ {0}
    /\ RunNumbers \subseteq Nat \ {0}
    /\ \A c \in Chunks : CohortOf[c] \in Groups
    /\ Missing \notin SUBSET Chunks
BY CohortsAssumption DEF Chunks, Units, Groups, RunNumbers, ReleaseUnit, Missing

(* The first cohort that is not satisfied comes after proofs only.         *)
LEMMA FirstUnsatisfied ==
    ASSUME Unsatisfied # {}
    PROVE  /\ Min(Unsatisfied) \in Groups
           /\ \A k \in Groups : k < Min(Unsatisfied) => k \in proofs
<1>1. Unsatisfied \in SUBSET Nat /\ Unsatisfied \subseteq Groups
  BY Numbered DEF Unsatisfied
<1>2. Min(Unsatisfied) \in Unsatisfied /\ \A k \in Unsatisfied : Min(Unsatisfied) <= k
  BY <1>1, MinIsLeast
<1>3. ASSUME NEW k \in Groups, k < Min(Unsatisfied) PROVE k \in proofs
  <2>1. \A m, n \in Nat : m < n => ~(n <= m)
    OBVIOUS
  <2>2. k \in Nat /\ Min(Unsatisfied) \in Nat
    BY <1>1, <1>2, Numbered
  <2>3. k \notin Unsatisfied
    BY <1>2, <1>3, <2>1, <2>2
  <2> QED
    BY <2>3 DEF Unsatisfied, Satisfied
<1> QED
  BY <1>1, <1>2, <1>3

(* A step in the names the proofs use.                                     *)
LEMMA CohortSteps ==
    ASSUME CNext
    PROVE  \/ StartCohort \/ PickChunk
           \/ \E kind \in {"start", "release"} : AddWorktree(kind)
           \/ \E kind \in {"start", "release"} : BindRun(kind)
           \/ \E kind \in {"start", "release"} : RecordRun(kind)
           \/ \E u \in Units, n \in RunNumbers, s \in {"succeeded", "failed"} : EndRun(u, n, s)
           \/ \E b \in Branches : IntegrateCohort(b)
           \/ \E c \in Chunks : ReadAdvance(c) \/ AdvanceRefused(c)
           \/ \E c \in Chunks : AdvanceCohort(c)
           \/ \E c \in Chunks : AbandonChunk(c)
           \/ CommitUnits \/ MergeChunk \/ MergeConflict \/ RecordProof
           \/ StartReleaseRun \/ CleanCohort \/ CohortCommandDies
           \/ \E p \in Routers : ReadRoute(p) \/ OpenRoute(p) \/ RecordRoute(p) \/ RouterDies(p)
BY Zenon DEF CNext

(* A hook reads the session and never writes it.                           *)
LEMMA RoutesApart ==
    ASSUME NEW p \in Routers, ReadRoute(p) \/ OpenRoute(p) \/ RecordRoute(p) \/ RouterDies(p)
    PROVE  UNCHANGED sessionVars
BY DEF ReadRoute, OpenRoute, RecordRoute, RouterDies

-----------------------------------------------------------------------------
(* Types                                                                   *)

(* Max finds a run when there is one to record.                            *)
LEMMA RecordedRun ==
    ASSUME CTypeOK, Placing, op.step = "bound"
    PROVE  Newest(op.at, Max({n \in RunNumbers : unitRuns[op.at][n] # "none"}))
<1> DEFINE S == {n \in RunNumbers : unitRuns[op.at][n] # "none"}
<1>1. PICK n \in RunNumbers : Newest(op.at, n)
  BY DEF Placing
<1>2. S \in SUBSET Nat /\ n \in S /\ \A m \in S : m <= n
  BY <1>1, Numbered DEF Newest, Used
<1>3. Max(S) \in S /\ \A m \in S : m <= Max(S)
  BY <1>2, MaxIsGreatest
<1> QED
  BY <1>3 DEF Newest, Used

LEMMA CTypeInit == CInit => CTypeOK
<1> SUFFICES ASSUME CInit PROVE CTypeOK
  OBVIOUS
<1> USE DEF CInit
<1>1. chunk \in [Units -> [run : 0 .. MaxUnitRuns, abandoned : BOOLEAN]]
  BY CohortsAssumption
<1>2. unitRuns \in [Units -> [RunNumbers -> {"none", "live", "succeeded", "failed"}]]
  OBVIOUS
<1>3. target \in Branches /\ content \in [Branches -> (SUBSET Chunks) \cup {Missing}]
  BY CohortsAssumption
<1>4. op \in [kind : {"none", "start", "integrate", "release"},
               group : Groups \cup {0}, todo : SUBSET Chunks, at : Units,
               step : {"none", "pick", "named", "tree", "bound", "commit",
                       "merge", "prove"}]
  BY DEF NoOp, Units
<1>5. opened \in 0 .. MaxOpened /\ setbacks \in 0 .. MaxSetbacks
  BY CohortsAssumption
<1> QED
  BY <1>1, <1>2, <1>3, <1>4, <1>5 DEF CTypeOK

(* Every command keeps the session well-formed.                            *)
LEMMA CTypeStep ==
    ASSUME CInv, [CNext]_cVars
    PROVE  CTypeOK'
<1> USE DEF CTypeOK, NoOp
<1> CTypeOK
  BY DEF CInv
<1> Units \subseteq Nat /\ ReleaseUnit \in Units /\ Chunks \subseteq Units
  BY Numbered DEF Units
<1>1. CASE StartCohort
  <2>1. Min(Unsatisfied) \in Groups
    BY <1>1, FirstUnsatisfied DEF StartCohort
  <2>2. Pending(Min(Unsatisfied)) \subseteq Chunks
    BY DEF Pending, Unstarted, GroupOf
  <2> QED
    BY <1>1, <2>1, <2>2 DEF StartCohort, routeVars
<1>2. CASE PickChunk
  <2>1. op.todo # {} => Min(op.todo) \in op.todo
    BY MinIsLeast, Numbered
  <2> QED
    BY <1>2, <2>1 DEF PickChunk, routeVars
<1>3. ASSUME NEW kind \in {"start", "release"}, AddWorktree(kind) PROVE CTypeOK'
  <2>1. op.at \in Units /\ content[target] \in SUBSET Chunks
    BY DEF CInv, HeadExists
  <2>2. base' \in [Units -> SUBSET Chunks]
    BY <1>3, <2>1 DEF AddWorktree
  <2> QED
    BY <1>3, <2>1, <2>2 DEF AddWorktree, routeVars
<1>4. ASSUME NEW kind \in {"start", "release"}, BindRun(kind) PROVE CTypeOK'
  <2>1. unitRuns' \in [Units -> [RunNumbers -> {"none", "live", "succeeded", "failed"}]]
    <3>1. CASE UNCHANGED unitRuns
      BY <3>1
    <3>2. CASE ~UNCHANGED unitRuns
      <4>1. PICK n \in RunNumbers : unitRuns' = [unitRuns EXCEPT ![op.at][n] = "live"]
        BY <1>4, <3>2 DEF BindRun
      <4>2. op.at \in Units
        OBVIOUS
      <4> QED
        BY <4>1, <4>2
    <3> QED
      BY <3>1, <3>2
  <2> QED
    BY <1>4, <2>1 DEF BindRun, routeVars
<1>5. ASSUME NEW kind \in {"start", "release"}, RecordRun(kind) PROVE CTypeOK'
  <2>1. Max({n \in RunNumbers : unitRuns[op.at][n] # "none"}) \in 0 .. MaxUnitRuns
    BY <1>5, RecordedRun, CohortsAssumption DEF RecordRun, CInv, Newest, Used, RunNumbers
  <2> QED
    BY <1>5, <2>1 DEF RecordRun, routeVars
<1>6. ASSUME NEW u \in Units, NEW n \in RunNumbers, NEW s \in {"succeeded", "failed"},
             EndRun(u, n, s)
      PROVE  CTypeOK'
  <2>1. unitRuns' \in [Units -> [RunNumbers -> {"none", "live", "succeeded", "failed"}]]
    BY <1>6 DEF EndRun
  <2>2. setbacks' \in 0 .. MaxSetbacks
    BY <1>6, CohortsAssumption DEF EndRun
  <2>3. /\ work' \in [Chunks -> {"none", "dirty", "committed"}]
        /\ hook' \in [Chunks -> {"idle", "due", "ready", "failed"}]
    BY <1>6 DEF EndRun, Units
  <2> QED
    BY <1>6, <2>1, <2>2, <2>3 DEF EndRun, routeVars
<1>7. ASSUME NEW b \in Branches, IntegrateCohort(b) PROVE CTypeOK'
  <2>1. Min(Unsatisfied) \in Groups
    BY <1>7, FirstUnsatisfied DEF IntegrateCohort
  <2>2. Integrating(Min(Unsatisfied)) \in
           [kind : {"none", "start", "integrate", "release"},
            group : Groups \cup {0}, todo : SUBSET Chunks, at : Units,
            step : {"none", "pick", "named", "tree", "bound", "commit", "merge", "prove"}]
    BY <2>1 DEF Integrating, GroupOf
  <2> QED
    BY <1>7, <2>2 DEF IntegrateCohort, Retarget, routeVars
<1>8. ASSUME NEW c \in Chunks, ReadAdvance(c) \/ AdvanceRefused(c) PROVE CTypeOK'
  <2>1. hook' \in [Chunks -> {"idle", "due", "ready", "failed"}]
    BY <1>8 DEF ReadAdvance, AdvanceRefused
  <2> QED
    BY <1>8, <2>1 DEF ReadAdvance, AdvanceRefused, routeVars
<1>9. ASSUME NEW c \in Chunks, AdvanceCohort(c) PROVE CTypeOK'
  <2>1. CohortOf[c] \in Groups
    BY Numbered
  <2>2. Integrating(CohortOf[c]) \in
           [kind : {"none", "start", "integrate", "release"},
            group : Groups \cup {0}, todo : SUBSET Chunks, at : Units,
            step : {"none", "pick", "named", "tree", "bound", "commit", "merge", "prove"}]
    BY <2>1 DEF Integrating, GroupOf
  <2> QED
    BY <1>9, <2>2 DEF AdvanceCohort, routeVars
<1>10. ASSUME NEW c \in Chunks, AbandonChunk(c) PROVE CTypeOK'
  <2>1. chunk' \in [Units -> [run : 0 .. MaxUnitRuns, abandoned : BOOLEAN]]
    <3>1. chunk[c] \in [run : 0 .. MaxUnitRuns, abandoned : BOOLEAN]
      OBVIOUS
    <3>2. chunk' = [chunk EXCEPT ![c] = [chunk[c] EXCEPT !.abandoned = TRUE]]
      BY <1>10 DEF AbandonChunk
    <3> QED
      BY <3>1, <3>2
  <2>2. setbacks' \in 0 .. MaxSetbacks
    BY <1>10, CohortsAssumption DEF AbandonChunk
  <2> QED
    BY <1>10, <2>1, <2>2 DEF AbandonChunk, routeVars
<1>11. CASE CommitUnits
  BY <1>11 DEF CommitUnits, routeVars
<1>12. CASE MergeChunk
  <2>1. Min(op.todo) \in op.todo
    BY <1>12, MinIsLeast, Numbered DEF MergeChunk
  <2>2. content' \in [Branches -> (SUBSET Chunks) \cup {Missing}]
    BY <1>12, <2>1 DEF MergeChunk, CInv, HeadExists
  <2> QED
    BY <1>12, <2>1, <2>2 DEF MergeChunk, routeVars
<1>13. CASE MergeConflict
  BY <1>13 DEF MergeConflict, routeVars
<1>14. CASE RecordProof
  BY <1>14 DEF RecordProof, routeVars, CInv, Merging
<1>15. CASE StartReleaseRun
  BY <1>15 DEF StartReleaseRun, routeVars
<1>16. CASE CleanCohort
  BY <1>16 DEF CleanCohort, routeVars
<1>17. CASE CohortCommandDies
  BY <1>17, CohortsAssumption DEF CohortCommandDies, routeVars
<1>18. ASSUME NEW p \in Routers,
              ReadRoute(p) \/ OpenRoute(p) \/ RecordRoute(p) \/ RouterDies(p)
       PROVE  CTypeOK'
  <2>1. route' \in [Routers -> {"idle", "unrouted", "open"}] /\ handoff' \in BOOLEAN
    BY <1>18 DEF ReadRoute, OpenRoute, RecordRoute, RouterDies
  <2>2. opened' \in 0 .. MaxOpened /\ setbacks' \in 0 .. MaxSetbacks
    BY <1>18, CohortsAssumption DEF ReadRoute, OpenRoute, RecordRoute, RouterDies
  <2> QED
    BY <1>18, <2>1, <2>2, RoutesApart DEF sessionVars
<1>19. CASE UNCHANGED cVars
  BY <1>19 DEF cVars
<1> QED
  BY <1>1, <1>2, <1>3, <1>4, <1>5, <1>6, <1>7, <1>8, <1>9, <1>10, <1>11, <1>12, <1>13,
     <1>14, <1>15, <1>16, <1>17, <1>18, <1>19, CohortSteps

-----------------------------------------------------------------------------
(* Who changes what                                                        *)

(* Runs are bound, ended and recorded, and chunks given up, by four steps. *)
LEMMA RunsTouched ==
    ASSUME [CNext]_cVars
    PROVE  \/ UNCHANGED <<unitRuns, chunk>>
           \/ \E kind \in {"start", "release"} : BindRun(kind) \/ RecordRun(kind)
           \/ \E u \in Units, n \in RunNumbers, s \in {"succeeded", "failed"} : EndRun(u, n, s)
           \/ \E c \in Chunks : AbandonChunk(c)
<1>1. CASE CNext
  BY <1>1, CohortSteps, RoutesApart
  DEF StartCohort, PickChunk, AddWorktree, IntegrateCohort, ReadAdvance, AdvanceRefused,
      AdvanceCohort, CommitUnits, MergeChunk, MergeConflict, RecordProof, StartReleaseRun,
      CleanCohort, CohortCommandDies, sessionVars
<1>2. CASE UNCHANGED cVars
  BY <1>2 DEF cVars
<1> QED
  BY <1>1, <1>2

(* The command's place changes under its own steps, and no other step      *)
(* touches it; it begins only when there is none.                          *)
LEMMA OpTouched ==
    ASSUME [CNext]_cVars
    PROVE  \/ op' = op
           \/ op' = NoOp
           \/ StartCohort \/ PickChunk \/ StartReleaseRun
           \/ \E kind \in {"start", "release"} :
                  AddWorktree(kind) \/ BindRun(kind) \/ RecordRun(kind)
           \/ CommitUnits \/ MergeChunk
           \/ \E b \in Branches : IntegrateCohort(b)
           \/ \E c \in Chunks : AdvanceCohort(c)
<1>1. CASE CNext
  BY <1>1, CohortSteps, RoutesApart
  DEF EndRun, ReadAdvance, AdvanceRefused, AbandonChunk, MergeConflict, RecordProof,
      CleanCohort, CohortCommandDies, sessionVars
<1>2. CASE UNCHANGED cVars
  BY <1>2 DEF cVars
<1> QED
  BY <1>1, <1>2

(* What is merged stays merged, also on the branch the session moves to,   *)
(* and proofs and abandoned chunks stay.                                   *)
LEMMA SessionGrows ==
    ASSUME CInv, [CNext]_cVars
    PROVE  /\ content[target] \subseteq content'[target'] /\ HeadExists'
           /\ proofs \subseteq proofs'
           /\ \A c \in Chunks : chunk[c].abandoned => chunk'[c].abandoned
<1> USE DEF CInv, CTypeOK, HeadExists
<1>1. CTypeOK'
  BY CTypeStep
<1>2. content[target] \in SUBSET Chunks
  OBVIOUS
<1>3. content[target] \subseteq content'[target'] /\ HeadExists'
  <2>1. ASSUME NEW b \in Branches, IntegrateCohort(b)
        PROVE  content[target] \subseteq content'[target'] /\ HeadExists'
    BY <2>1 DEF IntegrateCohort, Retarget
  <2>2. CASE MergeChunk
    <3>1. Min(op.todo) \in Chunks
      BY <2>2, MinIsLeast, Numbered DEF MergeChunk
    <3>2. content'[target'] \in {content[target], content[target] \cup {Min(op.todo)}}
      BY <2>2 DEF MergeChunk
    <3> QED
      BY <1>2, <3>1, <3>2, Numbered
  <2>3. CASE CNext /\ ~MergeChunk /\ ~\E b \in Branches : IntegrateCohort(b)
    <3>1. UNCHANGED <<content, target>>
      BY <2>3, CohortSteps, RoutesApart
      DEF StartCohort, PickChunk, AddWorktree, BindRun, RecordRun, EndRun, ReadAdvance,
          AdvanceRefused, AdvanceCohort, AbandonChunk, CommitUnits, MergeConflict,
          RecordProof, StartReleaseRun, CleanCohort, CohortCommandDies, sessionVars
    <3> QED
      BY <3>1
  <2>4. CASE UNCHANGED cVars
    BY <2>4 DEF cVars
  <2> QED
    BY <2>1, <2>2, <2>3, <2>4
<1>4. proofs \subseteq proofs'
  <2>1. CASE RecordProof
    BY <2>1 DEF RecordProof
  <2>2. CASE CNext /\ ~RecordProof
    BY <2>2, CohortSteps, RoutesApart
    DEF StartCohort, PickChunk, AddWorktree, BindRun, RecordRun, EndRun, IntegrateCohort,
        ReadAdvance, AdvanceRefused, AdvanceCohort, AbandonChunk, CommitUnits, MergeChunk,
        MergeConflict, StartReleaseRun, CleanCohort, CohortCommandDies, sessionVars
  <2>3. CASE UNCHANGED cVars
    BY <2>3 DEF cVars
  <2> QED
    BY <2>1, <2>2, <2>3
<1>5. ASSUME NEW c \in Chunks, chunk[c].abandoned PROVE chunk'[c].abandoned
  <2>1. c \in Units /\ chunk[c] \in [run : 0 .. MaxUnitRuns, abandoned : BOOLEAN]
    BY DEF Units
  <2>2. ASSUME NEW kind \in {"start", "release"}, RecordRun(kind) PROVE chunk'[c].abandoned
    <3>1. PICK v : chunk' = [chunk EXCEPT ![op.at] = [chunk[op.at] EXCEPT !.run = v]]
      BY <2>2 DEF RecordRun
    <3> QED
      BY <1>5, <2>1, <3>1
  <2>3. ASSUME NEW d \in Chunks, AbandonChunk(d) PROVE chunk'[c].abandoned
    BY <1>5, <2>1, <2>3 DEF AbandonChunk
  <2>4. CASE UNCHANGED chunk
    BY <1>5, <2>4
  <2> QED
    BY <2>2, <2>3, <2>4, RunsTouched DEF BindRun, EndRun
<1> QED
  BY <1>3, <1>4, <1>5

-----------------------------------------------------------------------------
(* The runs of a unit                                                      *)

(* A run is only created when none is live, one above all that were used,  *)
(* and a run that ended stays used.                                        *)
LEMMA RunsStep ==
    ASSUME CInv, [CNext]_cVars
    PROVE  RunsInOrder'
<1> CTypeOK /\ RunsInOrder
  BY DEF CInv
<1> USE Numbered DEF CTypeOK, RunsInOrder, Newest, Used, LiveRuns
<1>1. ASSUME NEW kind \in {"start", "release"}, BindRun(kind) PROVE RunsInOrder'
  <2>1. CASE UNCHANGED unitRuns
    BY <1>1, <2>1 DEF BindRun
  <2>2. CASE ~UNCHANGED unitRuns
    <3> PICK a \in Units : a = op.at
      OBVIOUS
    <3>1. LiveRuns(a) = {} /\ a \in Units /\ chunk' = chunk
      BY <1>1, <2>2 DEF BindRun
    <3>2. PICK n \in RunNumbers :
             /\ unitRuns[a][n] = "none"
             /\ \A m \in RunNumbers : unitRuns[a][m] = "none" => n <= m
             /\ unitRuns' = [unitRuns EXCEPT ![a][n] = "live"]
      BY <1>1, <2>2 DEF BindRun
    <3>3. chunk[a].run = 0
      BY <1>1 DEF BindRun, CInv, Placing
    <3>4. \A m \in Used(a) : m <= n
      <4> SUFFICES ASSUME NEW m \in Used(a), ~(m <= n) PROVE FALSE
        OBVIOUS
      <4>1. n \in 1 .. m
        OBVIOUS
      <4>2. n \in Used(a)
        BY <4>1
      <4> QED
        BY <3>2, <4>2
    <3>5. Used(a)' = Used(a) \cup {n} /\ LiveRuns(a)' = {n}
      BY <3>1, <3>2
    <3>6. \A u \in Units \ {a} : Used(u)' = Used(u) /\ LiveRuns(u)' = LiveRuns(u)
      BY <3>1, <3>2
    <3>7. \A m \in 1 .. n : m \in Used(a)'
      <4> SUFFICES ASSUME NEW m \in 1 .. n PROVE m = n \/ m \in Used(a)
        BY <3>5
      <4>1. m \in RunNumbers
        BY CohortsAssumption DEF RunNumbers
      <4> QED
        BY <3>2, <4>1
    <3> HIDE DEF Used, LiveRuns, CTypeOK
    <3>8. ASSUME NEW u \in Units
          PROVE  /\ \A m \in LiveRuns(u)' : Newest(u, m)'
                 /\ \A m \in Used(u)' : \A i \in 1 .. m : i \in Used(u)'
                 /\ chunk'[u].run # 0 => Newest(u, chunk[u].run)'
      <4>1. CASE u = a
        <5>1. \A m \in Used(u)' : m <= n
          <6>1. n <= n
            BY CohortsAssumption DEF RunNumbers
          <6> QED
            BY <3>4, <3>5, <4>1, <6>1
        <5>2. \A m \in Used(u)' : \A i \in 1 .. m : i \in Used(u)'
          BY <3>5, <3>7, <4>1
        <5> QED
          BY <3>1, <3>3, <3>5, <4>1, <5>1, <5>2
      <4>2. CASE u # a
        BY <3>1, <3>6, <4>2
      <4> QED
        BY <4>1, <4>2
    <3> QED
      BY <3>8
  <2> QED
    BY <2>1, <2>2
<1>2. ASSUME NEW kind \in {"start", "release"}, RecordRun(kind) PROVE RunsInOrder'
  <2> DEFINE n == Max({m \in RunNumbers : unitRuns[op.at][m] # "none"})
  <2>1. Newest(op.at, n)
    BY <1>2, RecordedRun DEF RecordRun, CInv
  <2>2. op.at \in Units /\ unitRuns' = unitRuns
    BY <1>2 DEF RecordRun
  <2>3. chunk' = [chunk EXCEPT ![op.at] = [chunk[op.at] EXCEPT !.run = n]]
    BY <1>2 DEF RecordRun
  <2> HIDE DEF n
  <2>4. \A u \in Units : chunk'[u].run = IF u = op.at THEN n ELSE chunk[u].run
    BY <2>2, <2>3
  <2> QED
    BY <2>1, <2>2, <2>4
<1>3. ASSUME NEW u \in Units, NEW n \in RunNumbers, NEW s \in {"succeeded", "failed"},
             EndRun(u, n, s)
      PROVE  RunsInOrder'
  <2>1. /\ unitRuns[u][n] = "live" /\ chunk' = chunk
        /\ unitRuns' = [unitRuns EXCEPT ![u][n] = s]
    BY <1>3 DEF EndRun
  <2>2. \A v \in Units : Used(v)' = Used(v) /\ LiveRuns(v)' \subseteq LiveRuns(v)
    BY <2>1
  <2> HIDE DEF Used, LiveRuns
  <2> QED
    BY <2>1, <2>2
<1>4. ASSUME NEW c \in Chunks, AbandonChunk(c) PROVE RunsInOrder'
  <2>1. unitRuns' = unitRuns /\ chunk' = [chunk EXCEPT ![c].abandoned = TRUE]
    BY <1>4 DEF AbandonChunk
  <2>2. \A u \in Units : chunk'[u].run = chunk[u].run
    BY <2>1
  <2> QED
    BY <2>1, <2>2
<1>5. CASE UNCHANGED <<unitRuns, chunk>>
  BY <1>5
<1> QED
  BY <1>1, <1>2, <1>3, <1>4, <1>5, RunsTouched

(* Only the recording step changes which run a unit names.                 *)
LEMMA RecordKept ==
    ASSUME CTypeOK, [CNext]_cVars,
           \A kind \in {"start", "release"} : ~RecordRun(kind)
    PROVE  \A u \in Units : chunk'[u].run = chunk[u].run
<1>1. ASSUME NEW c \in Chunks, AbandonChunk(c) PROVE \A u \in Units : chunk'[u].run = chunk[u].run
  BY <1>1 DEF AbandonChunk, CTypeOK
<1> QED
  BY <1>1, RunsTouched DEF BindRun, EndRun

(* Only the binding step makes a run live.                                 *)
LEMMA RunsKept ==
    ASSUME CTypeOK, [CNext]_cVars,
           \A kind \in {"start", "release"} : ~BindRun(kind)
    PROVE  \A u \in Units : Used(u)' = Used(u) /\ LiveRuns(u)' \subseteq LiveRuns(u)
<1>1. ASSUME NEW u \in Units, NEW n \in RunNumbers, NEW s \in {"succeeded", "failed"},
             EndRun(u, n, s)
      PROVE  \A v \in Units : Used(v)' = Used(v) /\ LiveRuns(v)' \subseteq LiveRuns(v)
  BY <1>1 DEF EndRun, CTypeOK, Used, LiveRuns
<1>2. CASE UNCHANGED unitRuns
  BY <1>2 DEF Used, LiveRuns
<1> QED
  BY <1>1, <1>2, RunsTouched DEF RecordRun, AbandonChunk

(* A unit whose recorded run succeeded has no run that could still write.  *)
LEMMA SucceededIsDone ==
    ASSUME CTypeOK, RunsInOrder, NEW u \in Units, Current(u) = "succeeded"
    PROVE  LiveRuns(u) = {}
<1>1. chunk[u].run # 0 /\ unitRuns[u][chunk[u].run] = "succeeded"
  BY DEF Current
<1> SUFFICES ASSUME NEW n \in LiveRuns(u) PROVE FALSE
  OBVIOUS
<1>2. Newest(u, n) /\ Newest(u, chunk[u].run)
  BY <1>1 DEF RunsInOrder
<1>3. n \in Nat /\ chunk[u].run \in Nat /\ n <= chunk[u].run /\ chunk[u].run <= n
  BY <1>2, Numbered DEF Newest, Used
<1>4. n = chunk[u].run
  BY <1>3
<1> QED
  BY <1>1, <1>4 DEF LiveRuns

-----------------------------------------------------------------------------
(* The command that holds the mutex                                        *)

(* The merge begins with every chunk that is not abandoned on its list.    *)
LEMMA IntegratingMerges ==
    ASSUME CInv, [CNext]_cVars, NEW k \in Groups, Mergeable(k), op' = Integrating(k),
           chunk' = chunk, unitRuns' = unitRuns
    PROVE  Merging'
<1> CTypeOK /\ RunsInOrder
  BY DEF CInv
<1> DEFINE todo == {c \in GroupOf(k) : ~chunk[c].abandoned}
<1>1. op' = [kind |-> "integrate", group |-> k, todo |-> todo, at |-> ReleaseUnit,
             step |-> "commit"]
  BY DEF Integrating, NoOp
<1>2. GroupOf(k) \subseteq Units
  BY DEF GroupOf, Units
<1>3. \A c \in todo : LiveRuns(c)' = {}
  <2>1. \A c \in todo : Current(c) = "succeeded"
    BY DEF Mergeable
  <2> QED
    BY <1>2, <2>1, SucceededIsDone DEF LiveRuns
<1>4. todo \subseteq GroupOf(k) /\ \A c \in GroupOf(k) : chunk[c].abandoned \/ c \in todo
  OBVIOUS
<1> HIDE DEF todo
<1> QED
  BY <1>1, <1>3, <1>4 DEF Merging

(* What the mutex holder relies on survives its own steps and everybody    *)
(* else's: runs that end, chunks given up, proofs and merges that come.    *)
OpInv == Starting /\ Releasing /\ Placing /\ Merging

LEMMA OpKept ==
    ASSUME CInv, [CNext]_cVars, op' = op
    PROVE  OpInv'
<1> CTypeOK /\ RunsInOrder /\ Starting /\ Releasing /\ Placing /\ Merging
  BY DEF CInv
<1>1. \A kind \in {"start", "release"} : ~RecordRun(kind) /\ ~BindRun(kind)
  BY DEF RecordRun, BindRun, NoOp, CTypeOK
<1>2. ~CommitUnits
  BY DEF CommitUnits, CTypeOK
<1>3. \A u \in Units : chunk'[u].run = chunk[u].run
  BY <1>1, RecordKept
<1>4. \A u \in Units : Used(u)' = Used(u) /\ LiveRuns(u)' \subseteq LiveRuns(u)
  BY <1>1, RunsKept
<1>5. \A k : GroupOf(k) \subseteq Units /\ GroupOf(k) \subseteq Chunks
  BY DEF GroupOf, Units
<1>6. Starting' /\ Releasing'
  BY <1>3, <1>5, SessionGrows DEF Starting, Releasing
<1>7. Placing'
  <2>1. op.at \in Units
    BY DEF CTypeOK
  <2>2. PICK a \in Units : a = op.at
    BY <2>1
  <2>3. Used(a)' = Used(a) /\ \A n : Newest(a, n)' <=> Newest(a, n)
    BY <1>4 DEF Newest
  <2>4. \A n : Newest(op.at, n)' <=> Newest(op.at, n)
    BY <2>2, <2>3 DEF Newest, Used
  <2> QED
    BY <1>3, <2>1, <2>4 DEF Placing
<1>8. Merging'
  <2> SUFFICES ASSUME op.kind = "integrate" PROVE Merging'
    BY DEF Merging
  <2>1. \A c \in op.todo : LiveRuns(c)' = {}
    BY <1>4, <1>5 DEF Merging
  <2>2. ASSUME op.step = "merge", NEW c \in op.todo PROVE work'[c] = "committed"
    <3>1. work[c] = "committed" /\ LiveRuns(c) = {} /\ c \in Chunks
      BY <1>5, <2>2 DEF Merging
    <3>2. ASSUME NEW u \in Units, NEW n \in RunNumbers, NEW s \in {"succeeded", "failed"},
                 EndRun(u, n, s)
          PROVE  work'[c] = work[c]
      <4>1. u # c
        BY <3>1, <3>2 DEF EndRun, LiveRuns
      <4> QED
        BY <3>1, <3>2, <4>1 DEF EndRun, CTypeOK
    <3>3. CASE CNext /\ ~\E u \in Units, n \in RunNumbers, s \in {"succeeded", "failed"} :
                            EndRun(u, n, s)
      BY <1>2, <3>1, <3>3, CohortSteps, RoutesApart
      DEF StartCohort, PickChunk, AddWorktree, BindRun, RecordRun, IntegrateCohort,
          ReadAdvance, AdvanceRefused, AdvanceCohort, AbandonChunk, MergeChunk,
          MergeConflict, RecordProof, StartReleaseRun, CleanCohort, CohortCommandDies,
          sessionVars
    <3>4. CASE UNCHANGED cVars
      BY <3>1, <3>4 DEF cVars
    <3> QED
      BY <3>1, <3>2, <3>3, <3>4
  <2>3. \A c \in GroupOf(op.group) :
            chunk'[c].abandoned \/ c \in op.todo \/ c \in content'[target']
    BY <1>5, SessionGrows DEF Merging
  <2> QED
    BY <2>1, <2>2, <2>3 DEF Merging
<1> QED
  BY <1>6, <1>7, <1>8 DEF OpInv

LEMMA OpStep ==
    ASSUME CInv, [CNext]_cVars
    PROVE  OpInv'
<1> CTypeOK /\ RunsInOrder /\ Starting /\ Releasing /\ Placing /\ Merging
  BY DEF CInv
<1> DEFINE rest == <<chunk, unitRuns, proofs, content, target, work>>
<1>1. CASE op' = op
  BY <1>1, OpKept
<1>2. CASE op' = NoOp
  BY <1>2 DEF OpInv, Starting, Releasing, Placing, Merging, NoOp
<1>3. CASE StartCohort
  <2>1. PICK k \in Groups : /\ k = Min(Unsatisfied)
                            /\ \A j \in Groups : j < k => j \in proofs
    BY <1>3, FirstUnsatisfied DEF StartCohort
  <2>2. Pending(k) \subseteq GroupOf(k) /\ \A c \in Pending(k) : chunk[c].run = 0
    BY DEF Pending, Unstarted
  <2>3. op' = [kind |-> "start", group |-> k, todo |-> Pending(k), at |-> ReleaseUnit,
               step |-> "pick"]
    BY <1>3, <2>1 DEF StartCohort, NoOp
  <2>4. UNCHANGED rest
    BY <1>3 DEF StartCohort
  <2> QED
    BY <2>1, <2>2, <2>3, <2>4 DEF OpInv, Starting, Releasing, Placing, Merging, GroupOf
<1>4. CASE PickChunk /\ op' # NoOp
  <2>1. op.kind = "start" /\ op.step = "pick" /\ op.todo # {} /\ UNCHANGED rest
    BY <1>4 DEF PickChunk
  <2>2. PICK c \in op.todo : c = Min(op.todo)
    BY <2>1, MinIsLeast, Numbered DEF CTypeOK
  <2>3. op' = [op EXCEPT !.at = c, !.todo = @ \ {c}, !.step = "named"]
    BY <1>4, <2>1, <2>2 DEF PickChunk
  <2>4. /\ op'.kind = "start" /\ op'.group = op.group /\ op'.at = c
        /\ op'.todo = op.todo \ {c} /\ op'.step = "named"
    BY <2>1, <2>3 DEF CTypeOK
  <2>5. c \in GroupOf(op.group) \ op'.todo /\ chunk[c].run = 0
    BY <2>1, <2>4 DEF Starting
  <2> QED
    BY <2>1, <2>4, <2>5 DEF OpInv, Starting, Releasing, Placing, Merging, GroupOf
<1>5. CASE StartReleaseRun
  <2>1. /\ op' = [kind |-> "release", group |-> 0, todo |-> {}, at |-> ReleaseUnit,
                  step |-> "named"]
        /\ Unsatisfied = {} /\ chunk[ReleaseUnit].run = 0 /\ UNCHANGED rest
    BY <1>5 DEF StartReleaseRun, NoOp
  <2>2. Groups \subseteq proofs
    BY <2>1 DEF Unsatisfied, Satisfied
  <2> QED
    BY <2>1, <2>2 DEF OpInv, Starting, Releasing, Placing, Merging
<1>6. ASSUME NEW kind \in {"start", "release"}, AddWorktree(kind) PROVE OpInv'
  <2>1. op.kind = kind /\ op.step = "named" /\ UNCHANGED rest
    BY <1>6 DEF AddWorktree
  <2>2. /\ op'.kind = op.kind /\ op'.group = op.group /\ op'.todo = op.todo
        /\ op'.at = op.at /\ op'.step = "tree"
    BY <1>6 DEF AddWorktree, CTypeOK
  <2> QED
    BY <2>1, <2>2 DEF OpInv, Starting, Releasing, Placing, Merging, GroupOf
<1>7. ASSUME NEW kind \in {"start", "release"}, BindRun(kind) PROVE OpInv'
  <2>1. /\ op.kind = kind /\ op.step = "tree"
        /\ UNCHANGED <<chunk, proofs, content, target, work>>
    BY <1>7 DEF BindRun
  <2>2. /\ op'.kind = op.kind /\ op'.group = op.group /\ op'.todo = op.todo
        /\ op'.at = op.at /\ op'.step = "bound"
    BY <1>7 DEF BindRun, CTypeOK
  <2>3. PICK a \in Units : a = op.at
    BY DEF CTypeOK
  <2>4. \E n \in RunNumbers : Newest(a, n)'
    <3>1. RunsInOrder'
      BY RunsStep
    <3>2. \E n \in RunNumbers : unitRuns'[a][n] = "live"
      <4>1. CASE LiveRuns(a) # {}
        BY <1>7, <2>3, <4>1 DEF BindRun, LiveRuns
      <4>2. CASE LiveRuns(a) = {}
        BY <1>7, <2>3, <4>2 DEF BindRun, CTypeOK
      <4> QED
        BY <4>1, <4>2
    <3> QED
      BY <3>1, <3>2 DEF RunsInOrder, LiveRuns
  <2>5. \E n \in RunNumbers : Newest(op.at, n)'
    BY <2>2, <2>3, <2>4 DEF Newest, Used
  <2> QED
    BY <2>1, <2>2, <2>5 DEF OpInv, Starting, Releasing, Placing, Merging, GroupOf
<1>8. ASSUME NEW kind \in {"start", "release"}, RecordRun(kind), op' # NoOp PROVE OpInv'
  <2>1. /\ op.kind = "start" /\ op.step = "bound"
        /\ UNCHANGED <<unitRuns, proofs, content, target, work>>
    BY <1>8 DEF RecordRun
  <2>2. /\ op'.kind = "start" /\ op'.group = op.group /\ op'.todo = op.todo
        /\ op'.at = op.at /\ op'.step = "pick"
    BY <1>8, <2>1 DEF RecordRun, CTypeOK
  <2>3. PICK v : chunk' = [chunk EXCEPT ![op.at] = [chunk[op.at] EXCEPT !.run = v]]
    BY <1>8 DEF RecordRun
  <2>4. \A c \in op.todo : c # op.at /\ c \in Units
    BY <2>1 DEF Starting, CTypeOK, Units
  <2>5. \A c \in op.todo : chunk'[c].run = 0
    BY <2>1, <2>3, <2>4 DEF Starting, CTypeOK
  <2> QED
    BY <2>1, <2>2, <2>5 DEF OpInv, Starting, Releasing, Placing, Merging, GroupOf
<1>9. CASE CommitUnits
  <2>1. /\ op.kind = "integrate" /\ UNCHANGED <<chunk, unitRuns, proofs, content, target>>
        /\ work' = [c \in Chunks |-> IF c \in op.todo THEN "committed" ELSE work[c]]
    BY <1>9 DEF CommitUnits
  <2>2. /\ op'.kind = op.kind /\ op'.group = op.group /\ op'.todo = op.todo
        /\ op'.at = op.at /\ op'.step = "merge"
    BY <1>9 DEF CommitUnits, CTypeOK
  <2>3. \A c \in op.todo : work'[c] = "committed"
    BY <2>1 DEF CTypeOK
  <2> QED
    BY <2>1, <2>2, <2>3
    DEF OpInv, Starting, Releasing, Placing, Merging, GroupOf, LiveRuns
<1>10. CASE MergeChunk
  <2>1. PICK c \in op.todo : c = Min(op.todo)
    BY <1>10, MinIsLeast, Numbered DEF MergeChunk, CTypeOK
  <2>2. /\ op.kind = "integrate" /\ op.step = "merge"
        /\ UNCHANGED <<chunk, unitRuns, proofs, target, work>>
    BY <1>10 DEF MergeChunk
  <2>3. /\ op'.kind = op.kind /\ op'.group = op.group /\ op'.todo = op.todo \ {c}
        /\ op'.at = op.at /\ op'.step = op.step
    BY <1>10, <2>1 DEF MergeChunk, CTypeOK
  <2>4. work[c] = "committed"
    BY <2>2 DEF Merging
  <2>5. content'[target] = content[target] \cup {c}
    BY <1>10, <2>1, <2>4 DEF MergeChunk, CTypeOK
  <2> QED
    BY <2>2, <2>3, <2>5 DEF OpInv, Starting, Releasing, Placing, Merging, GroupOf, LiveRuns
<1>11. ASSUME NEW b \in Branches, IntegrateCohort(b), op' # NoOp PROVE OpInv'
  <2>1. PICK k \in Groups : k = Min(Unsatisfied)
    BY <1>11, FirstUnsatisfied DEF IntegrateCohort
  <2>2. Mergeable(k) /\ op' = Integrating(k) /\ chunk' = chunk /\ unitRuns' = unitRuns
    BY <1>11, <2>1 DEF IntegrateCohort
  <2>3. Merging'
    BY <2>2, IntegratingMerges
  <2>4. op'.kind = "integrate" /\ op'.step = "commit"
    BY <2>2 DEF Integrating, NoOp
  <2> QED
    BY <2>3, <2>4 DEF OpInv, Starting, Releasing, Placing
<1>12. ASSUME NEW c \in Chunks, AdvanceCohort(c), op' # NoOp PROVE OpInv'
  <2>1. /\ CohortOf[c] \in Groups /\ Mergeable(CohortOf[c])
        /\ op' = Integrating(CohortOf[c]) /\ chunk' = chunk /\ unitRuns' = unitRuns
    BY <1>12, Numbered DEF AdvanceCohort
  <2>2. Merging'
    BY <2>1, IntegratingMerges
  <2>3. op'.kind = "integrate" /\ op'.step = "commit"
    BY <2>1 DEF Integrating, NoOp
  <2> QED
    BY <2>2, <2>3 DEF OpInv, Starting, Releasing, Placing
<1> QED
  BY <1>1, <1>2, <1>3, <1>4, <1>5, <1>6, <1>7, <1>8, <1>9, <1>10, <1>11, <1>12, OpTouched

-----------------------------------------------------------------------------
(* The promises                                                            *)

LEMMA ProofStep ==
    ASSUME CInv, [CNext]_cVars
    PROVE  ProofMeansMerged'
<1>1. ASSUME NEW k \in proofs', k \notin proofs, NEW c \in GroupOf(k), ~chunk'[c].abandoned
      PROVE  c \in content'[target']
  <2>1. RecordProof
    BY <1>1, CohortSteps, RoutesApart
    DEF cVars, StartCohort, PickChunk, AddWorktree, BindRun, RecordRun, EndRun,
        IntegrateCohort, ReadAdvance, AdvanceRefused, AdvanceCohort, AbandonChunk,
        CommitUnits, MergeChunk, MergeConflict, StartReleaseRun, CleanCohort,
        CohortCommandDies, sessionVars
  <2>2. /\ op.kind = "integrate" /\ op.todo = {} /\ k = op.group
        /\ UNCHANGED <<chunk, content, target>>
    BY <1>1, <2>1 DEF RecordProof
  <2> QED
    BY <1>1, <2>2 DEF CInv, Merging
<1>2. ASSUME NEW k \in proofs, NEW c \in GroupOf(k), ~chunk'[c].abandoned
      PROVE  c \in content'[target']
  <2>1. c \in Chunks /\ ~chunk[c].abandoned
    BY <1>2, SessionGrows DEF GroupOf
  <2> QED
    BY <1>2, <2>1, SessionGrows DEF CInv, ProofMeansMerged
<1> QED
  BY <1>1, <1>2 DEF ProofMeansMerged, GroupOf

LEMMA BranchStep ==
    ASSUME CInv, [CNext]_cVars
    PROVE  PredecessorsVisible'
<1> CTypeOK
  BY DEF CInv
<1>1. ASSUME NEW kind \in {"start", "release"}, AddWorktree(kind),
             NEW u \in trees', NEW c \in Chunks, ~chunk'[c].abandoned,
             u = ReleaseUnit \/ CohortOf[c] < CohortOf[u]
      PROVE  c \in base'[u]
  <2>1. ~chunk[c].abandoned
    BY <1>1 DEF AddWorktree
  <2>2. CASE u \in trees
    <3>1. base'[u] = base[u]
      BY <1>1, <2>2 DEF AddWorktree, CTypeOK
    <3> QED
      BY <1>1, <2>1, <2>2, <3>1 DEF CInv, PredecessorsVisible
  <2>3. CASE u \notin trees
    <3>1. u = op.at /\ base'[u] = content[target] /\ op.kind = kind /\ op.step = "named"
      BY <1>1, <2>3 DEF AddWorktree, CTypeOK
    <3>2. CohortOf[c] \in proofs
      <4>1. CASE kind = "release"
        BY <3>1, <4>1, Numbered DEF CInv, Releasing
      <4>2. CASE kind = "start"
        <5>1. u \in GroupOf(op.group) /\ \A k \in Groups : k < op.group => k \in proofs
          BY <3>1, <4>2 DEF CInv, Starting
        <5>2. u \in Chunks /\ CohortOf[u] = op.group /\ u # ReleaseUnit
          BY <5>1, Numbered DEF GroupOf
        <5> QED
          BY <1>1, <5>1, <5>2, Numbered
      <4> QED
        BY <4>1, <4>2
    <3>3. c \in GroupOf(CohortOf[c])
      BY DEF GroupOf
    <3> QED
      BY <2>1, <3>1, <3>2, <3>3 DEF CInv, ProofMeansMerged
  <2> QED
    BY <2>2, <2>3
<1>2. CASE \A kind \in {"start", "release"} : ~AddWorktree(kind)
  <2>1. trees' \subseteq trees /\ base' = base
    BY <1>2, CohortSteps, RoutesApart
    DEF cVars, StartCohort, PickChunk, BindRun, RecordRun, EndRun, IntegrateCohort,
        ReadAdvance, AdvanceRefused, AdvanceCohort, AbandonChunk, CommitUnits, MergeChunk,
        MergeConflict, RecordProof, StartReleaseRun, CleanCohort, CohortCommandDies,
        sessionVars
  <2> QED
    BY <2>1, SessionGrows DEF CInv, PredecessorsVisible
<1> QED
  BY <1>1, <1>2 DEF PredecessorsVisible

LEMMA CInvInit == CInit => CInv
<1> SUFFICES ASSUME CInit PROVE CInv
  OBVIOUS
<1>1. CTypeOK
  BY CTypeInit
<1>2. RunsInOrder
  BY DEF CInit, RunsInOrder, LiveRuns, Used
<1>3. OpInv
  BY DEF CInit, NoOp, OpInv, Starting, Releasing, Placing, Merging
<1>4. HeadExists
  BY CohortsAssumption DEF CInit, HeadExists, Missing
<1>5. ProofMeansMerged /\ PredecessorsVisible
  BY DEF CInit, ProofMeansMerged, PredecessorsVisible
<1> QED
  BY <1>1, <1>2, <1>3, <1>4, <1>5 DEF CInv, OpInv

LEMMA CInvStep ==
    ASSUME CInv, [CNext]_cVars
    PROVE  CInv'
BY CTypeStep, RunsStep, OpStep, SessionGrows, ProofStep, BranchStep DEF CInv, OpInv

LEMMA CohortsInvariant == CSpec => []CInv
BY CInvInit, CInvStep, PTL DEF CSpec

(* A satisfaction entry means the branch holds the cohort's work: of every *)
(* chunk that was not given up, what its run had committed and what it had *)
(* not, for every plan and whatever conflicted or died before.             *)
THEOREM ProofsAreMerged == CSpec => []ProofMeansMerged
<1>1. CInv => ProofMeansMerged
  BY DEF CInv
<1> QED
  BY <1>1, CohortsInvariant, PTL

(* Every checkout starts from a head that holds the work of all earlier    *)
(* cohorts, for every plan, the release run's checkout included.           *)
THEOREM BranchesSeePredecessors == CSpec => []PredecessorsVisible
<1>1. CInv => PredecessorsVisible
  BY DEF CInv
<1> QED
  BY <1>1, CohortsInvariant, PTL

(* Two live runs of a unit would both be its newest.                       *)
LEMMA NewestIsOne ==
    ASSUME CInv
    PROVE  OneRunPerCheckout
<1> SUFFICES ASSUME NEW u \in Units PROVE Cardinality(LiveRuns(u)) <= 1
  BY DEF OneRunPerCheckout
<1>1. \A m, n \in LiveRuns(u) : m = n
  <2> SUFFICES ASSUME NEW m \in LiveRuns(u), NEW n \in LiveRuns(u) PROVE m = n
    OBVIOUS
  <2>1. m \in Nat /\ n \in Nat /\ m <= n /\ n <= m
    BY Numbered DEF CInv, RunsInOrder, Newest, Used, LiveRuns
  <2> QED
    BY <2>1
<1>2. CASE LiveRuns(u) = {}
  BY <1>2, FS_EmptySet
<1>3. CASE LiveRuns(u) # {}
  <2>1. PICK n : LiveRuns(u) = {n}
    BY <1>1, <1>3
  <2> QED
    BY <2>1, FS_Singleton
<1> QED
  BY <1>2, <1>3

(* A checkout has at most one live run, for any number of commands that    *)
(* died between creating one and recording it.                             *)
THEOREM CheckoutsHaveOneRun == CSpec => []OneRunPerCheckout
BY CohortsInvariant, NewestIsOne, PTL
==============================================================================
