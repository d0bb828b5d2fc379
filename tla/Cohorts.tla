------------------------------ MODULE Cohorts ------------------------------
(***************************************************************************)
(* Delivery cohorts.  A ratified plan is routed into one delivery run or   *)
(* into a cohort session: groups of chunks, one run and one worktree per   *)
(* chunk, the branches of a group merged before the next group starts and  *)
(* one release run at the end.  Commands on a session hold its mutex,      *)
(* which refuses and does not wait; routing a plan holds nothing.          *)
(* Processes die between any two writes.                                   *)
(***************************************************************************)
EXTENDS Integers, FiniteSets, FiniteSetsExt, Sequences

CONSTANTS
    CohortOf,      \* per chunk, in the order of the plan, its cohort
    Limits,        \* the parallelism limits a session may have
    Routers,       \* processes that route the plan: the approval, a retry
    Branches,      \* branches a session may merge into
    MaxUnitRuns,   \* bound: runs of one unit
    MaxOpened,     \* bound: sessions or delivery runs one plan may open
    MaxSetbacks    \* bound: commands that die, runs that fail, chunks given up

Chunks == DOMAIN CohortOf
ReleaseUnit == 0                       \* the unit the release run works on
Units == Chunks \cup {ReleaseUnit}
Groups == {CohortOf[c] : c \in Chunks}
RunNumbers == 1 .. MaxUnitRuns     \* the runs of one unit
GroupOf(k) == {c \in Chunks : CohortOf[c] = k}

\* Cohorts are numbered from one, and a session starts at its base branch.
ASSUME CohortsAssumption ==
    /\ CohortOf \in Seq(Nat \ {0})
    /\ Limits \subseteq Nat
    /\ "base" \in Branches
    /\ MaxUnitRuns \in Nat /\ MaxOpened \in Nat /\ MaxSetbacks \in Nat

VARIABLES
    limit,     \* max_parallel of the session
    chunk,     \* per unit its record: run number (0: none), abandoned
    trees,     \* units whose worktree exists
    base,      \* per unit the chunks its branch started from
    work,      \* per chunk what its run left: none, dirty, committed
    unitRuns,  \* per unit and number the status of the run
    target,    \* the integration branch
    content,   \* per branch the chunks merged into it, or Missing
    proofs,    \* cohorts with a satisfaction entry
    op,        \* the command that holds the session mutex
    hook,      \* per chunk the advance hook of its finished run
    route,     \* per router: idle, or what it found
    opened,    \* what the plan was routed to: sessions, or live runs
    handoff,   \* the plan run names where its plan went
    setbacks   \* how often something went wrong

cVars == <<limit, chunk, trees, base, work, unitRuns, target, content, proofs,
           op, hook, route, opened, handoff, setbacks>>
sessionVars == <<limit, chunk, trees, base, work, unitRuns, target, content,
                 proofs, op, hook>>
routeVars == <<route, opened, handoff>>

Missing == {-1}
NoOp == [kind |-> "none", group |-> 0, todo |-> {}, at |-> ReleaseUnit, step |-> "none"]

CTypeOK ==
    /\ limit \in Limits
    /\ chunk \in [Units -> [run : 0 .. MaxUnitRuns, abandoned : BOOLEAN]]
    /\ trees \subseteq Units
    /\ base \in [Units -> SUBSET Chunks]
    /\ work \in [Chunks -> {"none", "dirty", "committed"}]
    /\ unitRuns \in [Units -> [RunNumbers -> {"none", "live", "succeeded", "failed"}]]
    /\ target \in Branches
    /\ content \in [Branches -> (SUBSET Chunks) \cup {Missing}]
    /\ proofs \subseteq Groups
    /\ op \in [kind : {"none", "start", "integrate", "release"},
               group : Groups \cup {0}, todo : SUBSET Chunks, at : Units,
               step : {"none", "pick", "named", "tree", "bound", "commit",
                       "merge", "prove"}]
    /\ hook \in [Chunks -> {"idle", "due", "ready", "failed"}]
    /\ route \in [Routers -> {"idle", "unrouted", "open"}]
    /\ opened \in 0 .. MaxOpened /\ handoff \in BOOLEAN
    /\ setbacks \in 0 .. MaxSetbacks

CInit ==
    /\ limit \in Limits
    /\ chunk = [u \in Units |-> [run |-> 0, abandoned |-> FALSE]]
    /\ trees = {} /\ base = [u \in Units |-> {}]
    /\ work = [c \in Chunks |-> "none"]
    /\ unitRuns = [u \in Units |-> [n \in RunNumbers |-> "none"]]
    /\ target = "base" /\ content = [b \in Branches |-> IF b = "base" THEN {} ELSE Missing]
    /\ proofs = {} /\ op = NoOp
    /\ hook = [c \in Chunks |-> "idle"]
    /\ route = [p \in Routers |-> "idle"]
    /\ opened = 0 /\ handoff = FALSE /\ setbacks = 0

-----------------------------------------------------------------------------
(* What the records say                                                    *)

Current(u) == IF chunk[u].run = 0 THEN "none" ELSE unitRuns[u][chunk[u].run]

RunsSucceeded(k) ==
    \A c \in GroupOf(k) : chunk[c].abandoned \/ Current(c) = "succeeded"

(* Mutant: succeeded runs count without the proof of their merge. *)
MutantSatisfied(k) == RunsSucceeded(k)

Satisfied(k) == RunsSucceeded(k) /\ k \in proofs

Unsatisfied == {k \in Groups : ~Satisfied(k)}

Unstarted(k) == {c \in GroupOf(k) : chunk[c].run = 0 /\ ~chunk[c].abandoned}

LiveChunkRuns(k) ==
    Cardinality({c \in GroupOf(k) : ~chunk[c].abandoned /\ Current(c) = "live"})

\* The first chunks of the plan that need a run, as many as slots are free.
Pending(k) ==
    {c \in Unstarted(k) :
        Cardinality({d \in Unstarted(k) : d < c}) < limit - LiveChunkRuns(k)}

LiveRuns(u) == {n \in RunNumbers : unitRuns[u][n] = "live"}

-----------------------------------------------------------------------------
(* pan cohort start                                                        *)

StartCohort ==
    /\ op.kind = "none" /\ handoff /\ Unsatisfied # {}
    /\ LET k == Min(Unsatisfied) IN
       /\ Pending(k) # {}
       /\ op' = [NoOp EXCEPT !.kind = "start", !.group = k, !.todo = Pending(k),
                             !.step = "pick"]
    /\ UNCHANGED <<limit, chunk, trees, base, work, unitRuns, target, content,
                   proofs, hook, routeVars, setbacks>>

\* The next chunk; the record names its worktree before there is one.
PickChunk ==
    /\ op.kind = "start" /\ op.step = "pick"
    /\ op' = IF op.todo = {} THEN NoOp
             ELSE [op EXCEPT !.at = Min(op.todo), !.todo = @ \ {Min(op.todo)},
                             !.step = "named"]
    /\ UNCHANGED <<limit, chunk, trees, base, work, unitRuns, target, content,
                   proofs, hook, routeVars, setbacks>>

\* A worktree that exists is kept, another starts at the integration head.
AddWorktree(kind) ==
    /\ op.kind = kind /\ op.step = "named"
    /\ trees' = trees \cup {op.at}
    /\ base' = IF op.at \in trees THEN base
               ELSE [base EXCEPT ![op.at] = content[target]]
    /\ op' = [op EXCEPT !.step = "tree"]
    /\ UNCHANGED <<limit, chunk, work, unitRuns, target, content, proofs, hook,
                   routeVars, setbacks>>

(* Mutant: nothing is adopted. *)
MutantBindRun(kind) ==
    /\ op.kind = kind /\ op.step = "tree"
    /\ \E n \in RunNumbers :
          /\ unitRuns[op.at][n] = "none"
          /\ \A m \in RunNumbers : unitRuns[op.at][m] = "none" => n <= m
          /\ unitRuns' = [unitRuns EXCEPT ![op.at][n] = "live"]
    /\ op' = [op EXCEPT !.step = "bound"]
    /\ UNCHANGED <<limit, chunk, trees, base, work, target, content, proofs,
                   hook, routeVars, setbacks>>

\* A live run of the unit is adopted, else one is created.
BindRun(kind) ==
    /\ op.kind = kind /\ op.step = "tree"
    /\ IF LiveRuns(op.at) # {} THEN UNCHANGED unitRuns
       ELSE \E n \in RunNumbers :
               /\ unitRuns[op.at][n] = "none"
               /\ \A m \in RunNumbers : unitRuns[op.at][m] = "none" => n <= m
               /\ unitRuns' = [unitRuns EXCEPT ![op.at][n] = "live"]
    /\ op' = [op EXCEPT !.step = "bound"]
    /\ UNCHANGED <<limit, chunk, trees, base, work, target, content, proofs,
                   hook, routeVars, setbacks>>

\* The newest run of the unit is the one that was just bound.
RecordRun(kind) ==
    /\ op.kind = kind /\ op.step = "bound"
    /\ chunk' = [chunk EXCEPT ![op.at].run =
                    Max({n \in RunNumbers : unitRuns[op.at][n] # "none"})]
    /\ op' = IF kind = "release" THEN NoOp ELSE [op EXCEPT !.step = "pick"]
    /\ UNCHANGED <<limit, trees, base, work, unitRuns, target, content, proofs,
                   hook, routeVars, setbacks>>

-----------------------------------------------------------------------------
(* Runs of the units                                                       *)

\* A run ends.  A chunk run that succeeds leaves its work uncommitted in the
\* worktree, and the submission that ended it goes on to the advance hook.
EndRun(u, n, status) ==
    /\ unitRuns[u][n] = "live"
    /\ unitRuns' = [unitRuns EXCEPT ![u][n] = status]
    /\ status = "failed" => setbacks < MaxSetbacks
    /\ setbacks' = IF status = "failed" THEN setbacks + 1 ELSE setbacks
    /\ IF u = ReleaseUnit \/ status = "failed" THEN UNCHANGED <<work, hook>>
       ELSE /\ hook' = [hook EXCEPT ![u] = "due"]
            /\ work' = [work EXCEPT ![u] = "dirty"]
    /\ UNCHANGED <<limit, chunk, trees, base, target, content, proofs, op,
                   routeVars>>

-----------------------------------------------------------------------------
(* pan cohort integrate, and the hook that does the same                   *)

\* A new branch starts at the integration head, an existing one contains it.
Retarget(b) ==
    /\ content[b] = Missing \/ content[target] \subseteq content[b]
    /\ target' = b
    /\ content' = IF content[b] = Missing
                  THEN [content EXCEPT ![b] = content[target]] ELSE content

\* Every unit that was not abandoned succeeded and has its worktree.
Mergeable(k) ==
    \A c \in GroupOf(k) : chunk[c].abandoned \/ (Current(c) = "succeeded" /\ c \in trees)

Integrating(k) ==
    [NoOp EXCEPT !.kind = "integrate", !.group = k,
                 !.todo = {c \in GroupOf(k) : ~chunk[c].abandoned},
                 !.step = "commit"]

\* The operator's command.  The new branch is recorded even if the cohort then
\* turns out not to be mergeable.
IntegrateCohort(b) ==
    /\ op.kind = "none" /\ handoff /\ Unsatisfied # {}
    /\ Retarget(b)
    /\ op' = IF Mergeable(Min(Unsatisfied)) THEN Integrating(Min(Unsatisfied)) ELSE NoOp
    /\ UNCHANGED <<limit, chunk, trees, base, work, unitRuns, proofs, hook,
                   routeVars, setbacks>>

\* maybeAdvanceCohort reads the session before it takes the mutex.
ReadAdvance(c) ==
    /\ hook[c] = "due"
    /\ hook' = [hook EXCEPT ![c] =
                   IF CohortOf[c] \in proofs \/ ~RunsSucceeded(CohortOf[c])
                   THEN "idle" ELSE "ready"]
    /\ UNCHANGED <<limit, chunk, trees, base, work, unitRuns, target, content,
                   proofs, op, routeVars, setbacks>>

AdvanceCohort(c) ==
    /\ hook[c] = "ready" /\ op.kind = "none"
    /\ hook' = [hook EXCEPT ![c] = "idle"]
    /\ op' = IF CohortOf[c] \in Unsatisfied /\ CohortOf[c] = Min(Unsatisfied)
                  /\ Mergeable(CohortOf[c])
             THEN Integrating(CohortOf[c]) ELSE NoOp
    /\ UNCHANGED <<limit, chunk, trees, base, work, unitRuns, target, content,
                   proofs, routeVars, setbacks>>

\* The mutex is held: the hook reports that the advance failed.
AdvanceRefused(c) ==
    /\ hook[c] = "ready" /\ op.kind # "none"
    /\ hook' = [hook EXCEPT ![c] = "failed"]
    /\ UNCHANGED <<limit, chunk, trees, base, work, unitRuns, target, content,
                   proofs, op, routeVars, setbacks>>

(* Mutant: the branches are merged as they are. *)
MutantCommitUnits ==
    /\ op.kind = "integrate" /\ op.step = "commit"
    /\ op' = [op EXCEPT !.step = "merge"]
    /\ UNCHANGED <<limit, chunk, trees, base, work, unitRuns, target, content,
                   proofs, hook, routeVars, setbacks>>

\* commitUnitWorktree commits what the units left.
CommitUnits ==
    /\ op.kind = "integrate" /\ op.step = "commit"
    /\ work' = [c \in Chunks |-> IF c \in op.todo THEN "committed" ELSE work[c]]
    /\ op' = [op EXCEPT !.step = "merge"]
    /\ UNCHANGED <<limit, chunk, trees, base, unitRuns, target, content, proofs,
                   hook, routeVars, setbacks>>

\* Branches are merged one after another.
MergeChunk ==
    /\ op.kind = "integrate" /\ op.step = "merge" /\ op.todo # {}
    /\ LET c == Min(op.todo) IN
       /\ content' = IF work[c] = "committed"
                     THEN [content EXCEPT ![target] = @ \cup {c}] ELSE content
       /\ op' = [op EXCEPT !.todo = @ \ {c}]
    /\ UNCHANGED <<limit, chunk, trees, base, work, unitRuns, target, proofs,
                   hook, routeVars, setbacks>>

\* A conflict, or a checkout that is not clean, stops the merge; what landed
\* before it stays.
MergeConflict ==
    /\ op.kind = "integrate" /\ op.step = "merge" /\ op.todo # {}
    /\ op' = NoOp
    /\ UNCHANGED <<limit, chunk, trees, base, work, unitRuns, target, content,
                   proofs, hook, routeVars, setbacks>>

\* The proof is written last, also for a cohort that was abandoned whole.
RecordProof ==
    /\ op.kind = "integrate" /\ op.step = "merge" /\ op.todo = {}
    /\ proofs' = proofs \cup {op.group}
    /\ op' = NoOp
    /\ UNCHANGED <<limit, chunk, trees, base, work, unitRuns, target, content,
                   hook, routeVars, setbacks>>

-----------------------------------------------------------------------------
(* pan cohort release, abandon, clean                                      *)

\* Also the continuation after the last proof.
StartReleaseRun ==
    /\ op.kind = "none" /\ handoff /\ Unsatisfied = {}
    /\ chunk[ReleaseUnit].run = 0
    /\ op' = [NoOp EXCEPT !.kind = "release", !.step = "named"]
    /\ UNCHANGED <<limit, chunk, trees, base, work, unitRuns, target, content,
                   proofs, hook, routeVars, setbacks>>

AbandonChunk(c) ==
    /\ op.kind = "none" /\ handoff /\ ~chunk[c].abandoned
    /\ setbacks < MaxSetbacks /\ setbacks' = setbacks + 1
    /\ chunk' = [chunk EXCEPT ![c].abandoned = TRUE]
    /\ UNCHANGED <<limit, trees, base, work, unitRuns, target, content, proofs,
                   op, hook, routeVars>>

\* Nothing is removed if one recorded run is live or one worktree holds work
\* that is neither committed nor abandoned.
CleanCohort ==
    /\ op.kind = "none" /\ trees \cap Chunks # {}
    /\ \A c \in trees \cap Chunks :
          /\ Current(c) # "live"
          /\ work[c] # "dirty" \/ chunk[c].abandoned
    /\ trees' = trees \ Chunks
    /\ UNCHANGED <<limit, chunk, base, work, unitRuns, target, content, proofs,
                   op, hook, routeVars, setbacks>>

\* The command dies; its mutex is stale and the next command takes it.
CohortCommandDies ==
    /\ op.kind # "none" /\ setbacks < MaxSetbacks
    /\ op' = NoOp /\ setbacks' = setbacks + 1
    /\ UNCHANGED <<limit, chunk, trees, base, work, unitRuns, target, content,
                   proofs, hook, routeVars>>

-----------------------------------------------------------------------------
(* Routing the plan: a session, or the live run of a plan with one chunk   *)

(* Mutant: every attempt opens its own session. *)
MutantReadRoute(p) ==
    /\ route[p] = "idle" /\ ~handoff
    /\ route' = [route EXCEPT ![p] = "unrouted"]
    /\ UNCHANGED <<sessionVars, opened, handoff, setbacks>>

\* An earlier attempt is adopted: its session, or its run on the worktree.
ReadRoute(p) ==
    /\ route[p] = "idle" /\ ~handoff
    /\ route' = [route EXCEPT ![p] = IF opened > 0 THEN "open" ELSE "unrouted"]
    /\ UNCHANGED <<sessionVars, opened, handoff, setbacks>>

OpenRoute(p) ==
    /\ route[p] = "unrouted" /\ opened < MaxOpened
    /\ opened' = opened + 1
    /\ route' = [route EXCEPT ![p] = "open"]
    /\ UNCHANGED <<sessionVars, handoff, setbacks>>

RecordRoute(p) ==
    /\ route[p] = "open"
    /\ handoff' = TRUE
    /\ route' = [route EXCEPT ![p] = "idle"]
    /\ UNCHANGED <<sessionVars, opened, setbacks>>

RouterDies(p) ==
    /\ route[p] # "idle" /\ setbacks < MaxSetbacks
    /\ route' = [route EXCEPT ![p] = "idle"]
    /\ setbacks' = setbacks + 1
    /\ UNCHANGED <<sessionVars, opened, handoff>>

CNext ==
    \/ StartCohort \/ PickChunk
    \/ \E kind \in {"start", "release"} :
          AddWorktree(kind) \/ BindRun(kind) \/ RecordRun(kind)
    \/ \E u \in Units, n \in RunNumbers, s \in {"succeeded", "failed"} : EndRun(u, n, s)
    \/ \E b \in Branches : IntegrateCohort(b)
    \/ \E c \in Chunks : \/ ReadAdvance(c) \/ AdvanceCohort(c) \/ AdvanceRefused(c)
                         \/ AbandonChunk(c)
    \/ CommitUnits \/ MergeChunk \/ MergeConflict \/ RecordProof
    \/ StartReleaseRun \/ CleanCohort \/ CohortCommandDies
    \/ \E p \in Routers : ReadRoute(p) \/ OpenRoute(p) \/ RecordRoute(p) \/ RouterDies(p)

CSpec == CInit /\ [][CNext]_cVars

-----------------------------------------------------------------------------
(* Properties                                                              *)

\* A chunk branches from a head that holds the work of every earlier cohort,
\* whichever merges conflicted, died or were repeated, and whichever branch the
\* session merges into.  The release run sees the work of all of them.
PredecessorsVisible ==
    \A u \in trees : \A c \in Chunks :
        ~chunk[c].abandoned /\ (u = ReleaseUnit \/ CohortOf[c] < CohortOf[u])
            => c \in base[u]

\* A satisfaction entry means that the integration branch holds all the work of
\* the cohort's chunks, also what the runs had not committed.
ProofMeansMerged ==
    \A k \in proofs : \A c \in GroupOf(k) :
        ~chunk[c].abandoned => c \in content[target]

\* A checkout never has two live runs: a command that died between creating a
\* run and recording it is repeated without a second one.
OneRunPerCheckout == \A u \in Units : Cardinality(LiveRuns(u)) <= 1

\* initCohortSession: one plan fans out once.
OnePlanOneSession == opened <= 1
=============================================================================
