# Verification of Pancreator

TLA+ models of the Pancreator harness, checked with TLC on small instances and
proved about with TLAPS. Paths are relative to the repository root; unless a
directory is given, `x.ts` means `src/lib/engine/x.ts` or `src/lib/x.ts`.

Pancreator drives coding agents through *workflow runs*. A run follows a
workflow (a small graph of stages), issues a *card* for the stage it is at,
waits for the worker's outcome, and routes on it. Three actors act on a run:
its *supervisor* (an agent that types `pan` commands), the *operator* (a
person, or away mode on their behalf), and background processes that watch
evidence workers. Every command is one short process; what ties them together
is a handful of files: the stored state, an event log and lock files.

## 1. Inventory

| Component | State | Operations | What makes it correct |
|---|---|---|---|
| Run engine (`engine/*`) | `RunState`: status, stage, pending action, current card, attempts, history, limits, gates, pause | prepare, submit, assess, decide, pause, resume, set-stage, waive-gate, abort, record-landed, evidence failure | status, pending action, card and saved pause agree on every path; budgets bound the run; outcomes belong to their cards; the run comes to rest |
| Away mode (`away-mode.ts`, `away-orchestration.ts`) | none of its own: the state it decided on | decide from a state read outside the mutex, apply through the engine | a decision on an old state does no more than the same decision typed now |
| Operation mutex (`io.ts`) | a file that names its owner | link, poll, refuse, sweep a stale file, release | one callback at a time, whoever dies |
| Run store (`state.ts`, `core.ts`) | `state.json`, event log, revision artifacts | load with recovery, persist | no change is lost, whoever dies between two writes or repairs beside a writer |
| Landing mutex (`landing-mutex.ts`) | `landing.lock`, the reclaim mutex | acquire with wait, reclaim, time out, release | one landing at a time; a reclaim never takes a live lock; waiters end |
| Inbox (`inbox.ts`, `create-run.ts`) | request files in status directories, the copy in the run | claim, roll back, finish, restore, clean up | a request is never lost and ends where its run ended |
| Delegation (`delegate.ts`, `evidence-workers.ts`) | a launch mutex held for a worker's lifetime, the recorded worker of a stage | launch, late result, retry, orphans | one owned worker; a late result never lands on another card |
| Verification execution (`verification-execution.ts`) | manifest of observations, context key of a launch | collect, bind, archive, judge the report | what is graded was observed on the content it is graded for |
| Gate passes (`gate-cache.ts`, `shell-check.ts`) | cache of clean checks, without a lock | look up, accept, run, store | an accepted pass was earned for exactly what the gate asks |
| Supervisor handoff (`supervisor-handoff.ts`, `cursor-handoff/`) | handoff records, card attestation, generation | record, send, mark, abort, accept, fence | one open handoff; nothing is sent without a record |
| Watch (`watch/`) | per target a lock and a ledger of sessions | claim, open, wake, close, interrupt | time nobody observed is disclosed |
| Hypervisor (`hypervisor.ts`) | registry of agents | register, complete, tick | no agent is written away |
| Headless driver (`headless-driver.ts`) | none | the next command of a run | it stops exactly where a person is needed |
| Cohorts (`cohorts/`) | chunks, runs, worktrees, integration branch, proofs | route, start, integrate, advance, release, abandon, clean | a unit starts from a head that holds its predecessors; one run per checkout |
| Best-of-N (`best-of-n/`) | candidates, worktrees, consolidation run | open, adopt, exclude, consolidate, clean, prune | one consolidation; nothing is removed while it is worked on |
| Horizon (`horizon/`, `horizon-arbiter.ts`) | task queue, slot, overrides, checkpoints | start, next, arbitrate, re-plan, defer, reinstate, abandon | a task succeeds with its real work; the session ends |
| Schedule (`schedule/`) | decision ledger, alert | tick, run, finalize | only a later success clears an alert |
| Release landing (`release-landing/`, `release-allocation.ts`) | allocations, trees, `pan-dev`, release index | allocate, finalize, land | versions rise; a dead landing can be repeated |
| Worktrees (`worktree/`) | index, checkouts, branches | create, adopt, reconcile, remove, clean up | no work is lost; what died can be asked for again |

The rest (executor adapters, validators, rendering, briefs, governance,
configuration, spend accounting, agent transcripts, test tooling, evaluations,
command line) reads and writes documents or starts programs. It keeps no state a
protocol depends on; `PROJECT.json` lists it with the reason it is left out.

How they interact: every command that changes a run takes the *operation
mutex* of the run, *loads* the stored state, changes it in memory and
*persists* it once, then releases. So the engine's commands are atomic with
respect to each other **if** mutex and store keep their promise. The project is
split along that line: `RunLifecycle` treats one command as one step, and
`OperationMutex` and `RunStore` examine the promise.

What is hard here: commands of the operator at any moment between two commands
of the supervisor (a pause saves a status and pending action that a redirect
must drop); watches that outlive the pause of their run; decisions taken from a
state read before the mutex; counters that are reset by some paths only;
processes that die between two writes or while they hold a lock; the sweep of a
lock of a dead process, which is three file operations; and workers, watches and
sessions that hold no mutex for the hours they take. What is created for a
session (a run, a worktree, a branch) is on disk before or after the session
names it, never at once, so every command has to find out what a dead one left.
`PROJECT.json` lists these hazards line by line with the properties aimed at
them.

## 2. Modules

| Module | Models | State |
|---|---|---|
| `WorkflowGraph` | workflow files, `types/workflow.ts` | none: the stages, edges, gates, limits and contract of one run, and what validation guarantees of them |
| `RunLifecycle` | `engine/*`, away mode | one stored run; one action per command |
| `StageCards` | – (abstract) | a card is issued when none is open; an outcome answers the open card; where evidence is watched, the newest card may be answered again |
| `RunClaims` | a statement of the documentation | – |
| `OperationMutex` | `io.ts` | the mutex file in single file operations |
| `DurableRun` | – (abstract) | one sequence of changes, loads never older than their beginning |
| `RunStore` | `state.ts`, `persistRun` | state file, log and revisions, inside `OperationMutex` |
| `LandingMutex` | `landing-mutex.ts` | landers; the reclaim runs inside `OperationMutex` |
| `SupervisorHandoff` | `supervisor-handoff.ts`, `supervisor-card.ts`, `cursor-handoff/driver` | records, card and attestation, red line, CLI processes, chat window |
| `VerificationExecution` | `verification-execution*.ts`, verify validators | source and authority, manifest, worker's report |
| `GatePasses` | `gate-cache.ts`, `shell-check.ts`, `gate-passes.ts` | clock, workspace fingerprint, cache file, checks in progress |
| `Delegation` | `delegate.ts`, `evidence-workers.ts` | run, launch mutex, processes, live workers, output files |
| `WatchSessions` | `watch/session.ts`, `focused.ts`, `multiplexed.ts` | locks, ledgers, watches |
| `HorizonSession` | `horizon/*`, `horizon-arbiter.ts` | session, tasks, runs |
| `Inbox` | `inbox.ts`, the claim in `create-run.ts` | request files, runs, steps of a claim, a restore and a clean-up |
| `Hypervisor` | `hypervisor.ts` | registry, transcripts, scans |
| `Cohorts` | `cohorts/*` | chunks, branches, worktrees, runs, proofs, routers |
| `BestOfN` | `best-of-n/*` | candidates, runs, worktrees, session commands |
| `ScheduleTicks` | `schedule/*` | clock, ledger, alert, ticks |
| `ReleaseLanding` | `release-landing/*`, `release-allocation.ts` | ledger, candidate trees, `pan-dev` |
| `Worktrees` | `worktree/*`, `cleanup/plan.ts` | index, checkouts, branches, work |
| `MCRunLifecycle`, `MCStore`, `MCHandoff`, `MCWorkers`, `MCCohorts`, `MCGroups` | the graphs of shipped workflows, small instances | `focus`, see section 3 |
| `*Proofs` | theorems, section 5 | |
| `Extrema` | – | the least and greatest number of a finite set, for the proofs |

### RunLifecycle

`run` is the stored `RunState`. Fields keep their meaning: `status`, `stage`
(`current_stage`), `pending` (`pending_action`), `current`
(`current_invocation`, as the number of a card), `cards` (the
`invocation_prepared` events), `attempts`, `revisions`, `history`,
`transitions`, `failures`, `trackers` (same-reason trackers), `ladder`
(long-horizon ladder), `gates` (entry-gate records), `waived` (directives that
cover an entry gate), `pause` (`operator_pause`), and `inbox`, the status of the
request file. `plan` is a command away mode has decided on and not yet applied.
`since` in a saved pause is the length of the history when its `operator_pause`
event was appended. `interventions` counts the commands that came from outside
the run's own loop, so that properties can speak of an unattended run; it is not
in the code.

What the code does to a loaded state is an operator on run records
(`ApplyTransition`, `Tracked`, `HorizonFailure`, `GateWaived`, ...), in the
order the code does it; the action of a command is its guard and one `Persist`.
A command that throws persists nothing, so `inbox = "throws"` makes an action
impossible. A best-of-N candidate and a long-horizon run are constants.
`EvidenceStages` are the stages with evidence workers: the watch of such a stage
may report on its card at any moment, also after the card was answered or its
run paused. The runs bound that to one late report (`MaxReports`).

Abstracted: an outcome's failed hard criteria are a subset of `Criteria`; an
entry gate's repair route is classified as direct, through another stage or
unsatisfiable; how validators and checks compute an outcome is an input.

### OperationMutex, RunStore, LandingMutex

A process is named by its pid. The file is `Nobody` or the owner it names.
`clearStaleOperationMutex` is three steps (look, read, remove), because other
processes run in between. A load is up to three steps and a persist three;
a state is the sequence of the changes it contains. In `LandingMutex` a lander
links its record, reads the lock, judges its holder, reclaims in the mutex
`landing.reclaim`, polls, times out, and releases in two steps. A process may
die anywhere.

*Orderly schedules.* The sweep of a mutex may remove a file that a live process
published after the sweeper looked. `double_hold` shows it with two processes
and no crash. Everything above the mutex would fail in those schedules for that
one reason, so `RunStore` and `LandingMutex` are checked and proved under
`OrderlySweep`: the removed file names no live owner. Nothing in the code
enforces it; the results say what the rest of the code adds to it. The modules
above treat one critical section of a mutex as one step, for the same reason.

### Workers, watches and handoffs

`Delegation` keeps of a run what `delegateInvocation` reads (status, current
card), of a process its step and the card it launched, and of a worker who
started it; between the two critical sections of a process everything else may
happen, and a launcher that dies leaves an orphan. In `VerificationExecution` an
operation begins and ends in separate steps, up to its timeout apart, and so do
collection, worker and judgement; source and authority change between any two.
An observation is the fingerprint of the collection, a status, and the content
the operation *ended* on, which is all the code compares it with.
`SupervisorHandoff` follows the CLI through the chat window step by step, with
an operator at the same screen. In `WatchSessions` a ledger is a sequence of
entries; what an observation shows is a choice, and what a restarted watch makes
of the ledger is `DetectSessionGap`, branch by branch. Its `OrderlyRemoval` is
the counterpart of `OrderlySweep` for the lock of a watch. `Hypervisor` splits a
tick into the scan without and the write with the ledger lock. In `GatePasses`
content and configuration may change at any moment, also under a command and
back again. An entry remembers (`of`) what its command started on, and whether
that was edited before the command ended.

### Sessions, releases, worktrees

A session command is several steps where it writes the session before or after
what it names, and may die between them (`MaxSessionDeaths`, `MaxHorizonDeaths`,
`MaxReleaseDeaths`, `MaxWorktreeDeaths`, and the setbacks of `Cohorts`). Git is
external: a branch is the set of units of work it holds, a merge is a union, a
conflict a choice. `Branches` are the branches a session may merge
into and `MaxUnitRuns` bounds the runs of a unit; the allocations of a worktree
are the places in the ledger that name it, and the latest of them is the one it
holds. A run inside a session only ends, fails, stops or goes on;
`RunLifecycle` says which of these a run can do. In `HorizonSession` a planning
run succeeds in one step and hands over to a delivery in another, later one, or
never (`PlanApproved`, `RouteStarted`); the arbiter's own approval succeeds
without any. A prune of best-of-N and the ticks of a scheduled job overlap with
everything else, since no lock covers them.

## 3. Runs

Components that share no variable share a run: the initial state of `store`,
`handoff`, `workers` and `groups` chooses the component in *focus*, and only that
component takes steps. It is several small models in one state space, not a
composition: what they assume of each other is in the modules.

| Run | Asks | Bounds |
|---|---|---|
| `delivery` | type invariant, attempts, cards under one command of the operator at any moment; implements `StageCards` | the delivery graph (4 stages, evidence workers at verify), 4 transitions, 2 attempts, 2 failures, 1 intervention, 1 late report |
| `gated` | no card past a failed entry gate, repair loops end, with away mode | 3 stages, evidence workers at the last, a direct and an unsatisfiable repair route, 5 transitions, 1 attempt, 1 intervention, 1 late report |
| `candidate` | the same reason twice stops a candidate; outcomes stay with their cards although a watch reports at any moment; it comes to rest | 3 stages, no intervention, 2 criteria, 1 report |
| `horizon` | the ladder ends after four failed cards | 3 stages, evidence workers at the repair stage, one release gate, 1 intervention, 1 late report |
| `store` | *run*: status, pending action and saved pause stay in step under the operator. *store*: every change starts from the last recorded one, the files implement `DurableRun`. *inbox*, *cleanup*: no request is lost, a success is filed. *agents*: no agent is lost | 1 gated stage with 3 interventions; 2 processes, 1 death, 3 revisions; 1 request, 2 runs, 1 crash, once with restores and once with a clean-up; 2 ticks, 2 invocations |
| `handoff` | *handoff*: one open record, nothing sent without one, sending resolves. *verification*: accepted as observed, not rerolled. *gates*: an accepted pass was earned | 2 attempts, 1 policy edit, 1 touch of the screen; 1 required and 1 optional operation, 3 collections; 1 gate, 1 agent, 2 profiles, 2 contents, 2 configurations, 1 cache entry |
| `workers` | *delegation*: one owned worker, recorded only while awaited. *watch*: lost time is disclosed. *horizon*: success is real, sessions end. *landing*: one landing, a live lock is never taken, landers end | 2 launchers, 2 cards; a multiplexed and 2 focused watches of 2 workers, 2 deaths, 1 wake each; 2 tasks, 3 runs, 1 death; 3 landers, 2 deaths |
| `groups` | *cohorts*: predecessors visible, proofs are merges, one run per checkout. *best-of-n*: one consolidation, removed only when resolved. *schedule*: alerts stand. *release*: versions rise. *worktrees*: work is kept, deaths are retried | 3 chunks, concurrency 1 and 2, 1 setback; 2 candidates, 1 death; 2 overlapping ticks, 3 instants, 1 kill; 2 candidates, 3 versions, 1 death; 3 worktrees, 1 unit of work each, 1 death |
| `late_watch` | *violated*: a paused run is moved by its own loop | |
| `double_hold` | *violated*: two commands in the mutex at once | 2 processes, no death |
| `plan_race` | *violated*: one plan is routed twice | 2 routers, no death |
| `freed_version` | *violated*: a version that landed is handed out again | 2 worktrees, 3 versions, no death |

Why the bounds are enough to be interesting: transitions, attempts and failures
are small so that every limit is reached and exceeded, and the graphs are small
so that a stage is visited more than once before they are. Three interventions
on one stage cover every sequence pause, redirect or waiver, resume. Two
processes and one death cover a writer that dies in any of its writes while a
reader repairs; three landers and two deaths cover a dead holder, a reclaimer
that dies in the reclaim mutex, and one that must still end. Two cards and two
launchers cover a late result, a retry and a continued worker. Three watches of
one worker cover a session, one that was never recovered, and one after it, so
that two gaps with the same reason stand in one ledger. What makes a stored pass
sound does not depend on the other entries, and with one entry every store
evicts. Three instants cover a job that fails or is overdue, a tick that judges
on an older ledger, and a success. Three chunks in two groups cover a group with
a sibling that conflicts, and one that must see both. One death is enough for
what a *single* interrupted command leaves; two interrupted commands in a row
are covered for landings and watches only.

*Deadlock* is not checked: a run that finished, waits for an operator who used
up the bound on interventions, or a component whose bound is used up, stops.

*Fairness.* `candidate` uses weak fairness of `Prepare`, `Worker` and
`Supervisor`: the supervisor is obliged to continue through every action the
harness leaves to it, and a worker to answer its card (`ORCH-001`). Nothing is
assumed of the operator. `LanderEnds` uses weak fairness of the steps of a living
lander, which polls once a second; a landing is assumed to end. `SendingResolves`
uses it of the steps of a living CLI process, which waits for nobody.
`HorizonEnds` uses it of the commands of a session and of the runs it opened: a
driver loop repeats the commands, and a run rests by `ComesToRest`. Neither a
death nor a timeout nor a choice of the operator is ever forced.

## 4. What the code does differently from what it says

Four disagreements have a run of their own.

- `late_watch`: `recordEvidenceGateFailure` checks the card, not the status, so
  a watch that outlived a pause routes the paused run on and leaves the saved
  pause behind.
- `double_hold`: see orderly schedules above.
- `plan_race`: routing a plan looks for an earlier session or run and then
  creates one, without a mutex.
- `freed_version`: a landed version counts as unpublished once another worktree
  has landed the next one and the first was updated to it, and that worktree is
  handed the landed version again.

Others were met while modelling; the model has the behaviour where it says so,
no run states it.

*Run engine.*
- Attempt numbers start over when a stage is left, history items do not, so an
  old outcome with the same number makes an unused card look submitted
  (`prepare.ts:271`, `docs/runtime-protocol.md:622`).
- A waiver and a redirecting rejection do not clear the routes of entry gates,
  unlike set-stage and resume (`waive-gate.ts:582`, comment at
  `entry-gate.ts:77`). The route of a gate is taken before the limits are judged
  (`transition.ts:70`).
- `pauseRun` of a run that is paused already replaces the pending action and so
  drops the mark that reserves a decision for the operator
  (`pause-resume.ts:198`); away mode may waive the gate of a run whose pause is
  reserved (`away-orchestration.ts:158`).
- A revision by the operator counts as a transition (`transition.ts:63`);
  `docs/runtime-protocol.md:618` does not mention it.
- A late evidence report moves a paused run on and leaves its saved pause on the
  moving run, where a later resume could restore it (`evidence-gate.ts:74`);
  `PauseIsForgotten` names this one exception. The same watch may record a
  second outcome for a card that was answered (`StageCards`, `RecordAgain`).
- A closed run that was reopened with set-stage cannot be aborted: its request
  is in a terminal directory and the move throws (`run-status.ts:42`,
  `inbox.ts:431`).
- An event line that was only partly appended makes the next load throw
  (`io.ts:171`).

*Locks.*
- With an unrestricted sweep, four landers and two deaths let two landings
  overlap, against the comment at `landing-mutex.ts:134`.
- Two watches that find one dead lock may both remove it and both watch
  (`watch/session.ts:172-197`, comment at 146-150); without `OrderlyRemoval`,
  `LostTimeIsDisclosed` fails in the model.
- A gap recorded by a watch that died before its own session began keeps its
  earlier end: the key is its beginning and reason (`watch/session.ts:287`, 374).

*Workers and handoffs.*
- Probing evidence workers pauses a run that was canceled meanwhile
  (`evidence-workers.ts:153-183`, `docs/runtime-protocol.md:674`).
- A verifier is launched again when anything in the manifest changed, also
  without an observation it asked for (`docs/verification-execution.md:103-107`).
- If the reply to Send is lost after the press, the record is aborted and the
  fence lifted although the prompt went out (`docs/operator-guide.md:2580`). A
  card that is rendered anew starts its generations over, so an old red line
  counts for the new first one (`docs/target-repo-primer.md:230`). The prepare
  that gives a run its first card skips the fence.
- A collection compares fingerprints when an operation has ended
  (`verification-execution.ts:565`), up to 120 s after it began: a change that is
  undone meanwhile is recorded as collected. `AcceptedAsObserved` promises the
  content at the *end* of the operation, which is as much as the code knows.
- `pan prepare` may collect while a worker is out and bind the report it will
  write to a manifest that worker never read (`verification-execution.ts:732`,
  `docs/verification-execution.md:121-123`). No property covers it.
- `runShellCheck` stores a pass under the fingerprint read before the command
  ran and does not read it again (`shell-check.ts:779`): a pass may stand for
  content that was edited under the gate's command. `recordProfileGatePass`
  compares fingerprints before and after, which an edit that is undone defeats,
  and digests the configuration after the run. `AcceptedWasEarned` says what is
  left: the command *started* on that content, or it was edited meanwhile.

*Inbox, hypervisor.*
- A restore moves the file before it detaches the run (`inbox.ts:374`, comment
  at 345); a clean-up rewrites runs it read earlier (`inbox.ts:690-715`), hence
  `cleanups = 0` in `SucceededIsFiled`.
- A completion recorded during a tick is overwritten; overlapping ticks can lose
  a quarantine; `dead` is unreachable because no process id is ever recorded;
  an agent a tick discovers before it is registered keeps default values.

*Sessions.*
- The loser of two advancing commands reports a failure although the group
  advanced (`cohorts/integration.ts:149-152`).
- `prune` lists the sessions a second time to protect one that starts beside it
  (`best-of-n/cleanup.ts:402-403`). A session written after that second list has
  its clean worktrees removed all the same; `createRun` then refuses the missing
  workspace, or a run goes on without its worktree. `RemovedWhenResolved` names
  this one exception, and says that uncommitted work is kept even then.
- Approving a plan succeeds the planning run durably, and the delivery is started
  afterwards, outside of its mutex (`delivery.ts:96`, 530-561). A checkpoint or a
  death in between, and every approval by the arbiter (`horizon-arbiter.ts:561`),
  ends the task as succeeded with no delivery (`horizon/driver.ts:217-222`; the
  comment at 191-198 says success orphans no run any more). `SucceededForReal` therefore speaks of a
  delivery the run has *named* by the time the session looks. A route that is
  repeated after a failed one is never seen by the session.
- A re-planned task may succeed with its own route (`horizon/driver.ts:190-198`),
  two runs may advance in one session (`horizon/next.ts:153-156`), a restarted
  task keeps its old route, reinstating revives an abandoned session, and a
  prompt task whose command died stays active (`horizon/next.ts:177`).
- Overlapping ticks can start one occurrence twice, and a tick can clear an alert
  it never read, by writing over it (`schedule/tick.ts:312`): the exception
  `AlertStands` names. A torn line of the ledger hides healthy ones, so a failure
  may open no alert at all (`docs/operator-guide.md:1138`).

*Releases, worktrees.*
- Two worktrees can be handed one version (`release-allocation.ts:41-44`); a
  pair that is used again leaves entries of the candidate in the index of
  `pan-dev` (`release-landing/steps.ts:485-491`).
- Inputs that were carried over and are exempt from the check make a removal use
  force after the check (`worktree/remove.ts:209-213`, comment at 140-145). A
  kept branch blocks a new worktree of its name; a creation that died before setup is taken
  over as ready; a clean-up removes a worktree a run was started in after the
  plan was made.

## 5. Proofs

All theorems hold for every value of the constants that satisfies the named
assumptions of the modules: any workflow graph, any limits, any number of
processes, cards, records, worktrees and deaths.

| Theorem | Module | States | Needs |
|---|---|---|---|
| `RunStateTyped` | `RunLifecycleProofs` | `Spec => []TypeOK` | the assumptions of `WorkflowGraph`, `BoundsAssumption` |
| `ActorNamed` | `RunLifecycleProofs` | `Spec => []StatusNamesTheActor` | the same |
| `OutcomesAnswerCards` | `RunCardsProofs` | `Spec => []OutcomesMatchCards` | the same |
| `AttemptsBounded` | `RunCardsProofs` | `Spec => []AttemptsWithinCeiling` | the same |
| `PausesEnd` | `RunCardsProofs` | `Spec => []PauseIsForgotten` | the same |
| `CardsAreCovered` | `RunCardsProofs` | `Spec => []GateCoversCard` | the same |
| `CardsInOrder` | `RunCardsProofs` | `Spec => AnswersItsCards` | the same |
| `RepairsAreBounded` | `RunCardsProofs` | `Spec => []RepairLoopsBounded` | the same |
| `ReasonsStop` | `RunCardsProofs` | `Spec => []SameReasonStops` | the same |
| `LadderEnds` | `RunCardsProofs` | `Spec => []HorizonLadderEnds` | the same |
| `LandingsAreSerial` | `RunStoreProofs` | `LandingSpec => []OneLanding` | `MutexAssumption` |
| `LandingsKeepTheirLock` | `RunStoreProofs` | `LandingSpec => LandingKeepsLock` | `MutexAssumption` |
| `LoadsAreCurrent` | `RunStoreProofs` | `StoreSpec => []LoadIsCurrent` | `MutexAssumption` and those of `RunStore` |
| `FilesAreDurable` | `RunStoreProofs` | `StoreSpec => Durable` | the same |
| `RequestsAreKept` | `RunStoreProofs` | `ISpec => []RequestKept` | `InboxAssumption` |
| `SuccessIsFiled` | `RunStoreProofs` | `ISpec => []SucceededIsFiled` | `InboxAssumption` |
| `AgentsAreKept` | `RunStoreProofs` | `YSpec => RegisteredKept` | none |
| `OneHandoffIsOpen` | `HandoffProofs` | `HSpec => []OneOpenHandoff` | `HandoffAssumption` |
| `NothingSentUnrecorded` | `HandoffProofs` | `HSpec => []SentUnderRecord` | `HandoffAssumption` |
| `AcceptanceIsObserved` | `HandoffProofs` | `VSpec => []AcceptedAsObserved` | `VerificationAssumption` |
| `ObservationsStand` | `HandoffProofs` | `VSpec => NotRerolled` | `VerificationAssumption` |
| `AcceptedPassesAreEarned` | `HandoffProofs` | `GSpec => []AcceptedWasEarned` | `GatesAssumption` |
| `OneWorkerIsOwned` | `WorkersProofs` | `DSpec => []OneOwnedWorker` | `DelegationAssumption` |
| `ResultsAreAwaited` | `WorkersProofs` | `DSpec => RecordedWhileAwaited` | `DelegationAssumption` |
| `TasksAreDone` | `WorkersProofs` | `SSpec => SucceededForReal` | `HorizonAssumption` |
| `LostTimeIsShown` | `WorkersProofs` | `HSpec => []LostTimeIsDisclosed` | `WatchAssumption` |
| `ProofsAreMerged` | `CohortsProofs` | `CSpec => []ProofMeansMerged` | `CohortsAssumption` |
| `BranchesSeePredecessors` | `CohortsProofs` | `CSpec => []PredecessorsVisible` | `CohortsAssumption` |
| `CheckoutsHaveOneRun` | `CohortsProofs` | `CSpec => []OneRunPerCheckout` | `CohortsAssumption` |
| `WorkIsKept` | `WorktreesProofs` | `WSpec => []WorkKept` | `WorktreeAssumption` |
| `DeathsAreRetried` | `WorktreesProofs` | `WSpec => []DeathIsRetried` | `WorktreeAssumption` |
| `ConsolidatesOnce` | `WorktreesProofs` | `BSpec => []OneConsolidation` | `SessionsAssumption` |
| `ResolvedBeforeRemoval` | `WorktreesProofs` | `BSpec => RemovedWhenResolved` | `SessionsAssumption` |
| `AlertsStand` | `WorktreesProofs` | `SchSpec => AlertStands` | `ScheduleAssumption` |
| `VersionsRise` | `WorktreesProofs` | `RSpec => []LandingsRise` | `ReleaseAssumption` |

The assumptions of `WorkflowGraph` are what workflow validation and the
defaults of the limits guarantee: stages are strings other than the targets,
edges lead to targets, limits are natural numbers. The locks and the store are
proved for orderly schedules only (section 2), and so are the locks of watches.
No other theorem has a hypothesis beside the assumptions on its constants.

*Arguments.*

- `ActorNamed`. Status, pending action and stage agree only because the saved
  pause is coherent too (`Restored` copies it back) and because a run that is
  not closed has a stage. The inductive invariant `RunInv` is `TypeOK`,
  `StatusNamesTheActor`, coherence of the saved pause, a range for the current
  card, and the stage of a decided away-mode plan. One lemma per operator on
  run records says what it needs and what it keeps; the step lemma for each
  action only combines them.
- `LandingsAreSerial`. The lock names every live lander between acquisition and
  release; a reclaimer between its recheck and its rename is the only live
  process in the reclaim mutex, and the holder it saw is dead, so no lander can
  have replaced the lock it is going to move. Exclusion of the reclaim mutex comes
  from `MutexInv`: the file names every process in the callback
  (`HolderOwnsFile`), and the owner a process read is dead or live for good only
  while the file is not exchanged, which is what orderly schedules say.
- `OutcomesAnswerCards`, `AttemptsBounded`. A handler takes the stage of an
  outcome from the run and the attempt from the card, so the two agree only if
  the current card always belongs to the stage of the run. The inductive
  invariant `CardsKept` adds that. Almost every operator is `Quiet`: it keeps
  cards and outcomes, keeps or drops the current card, changes the stage only
  when it drops the card or closes the run, and raises no attempt above its
  ceiling. `Quiet` is transitive, so each lemma is about one operator, and only
  recording an outcome, issuing a card and saving a pause need more.
- `PausesEnd`. From a paused run only commands that forget the saved pause, or
  leave the run paused or closed, are possible; a late evidence watch is the
  exception. `Ends` adds that the pause is no younger than the history, so that
  the report of a watch on the paused run lies after it for good.
- `CardsAreCovered`. A pause hides a card that a resume brings back, and a watch
  may report on a card that was kept over a pause, so the property speaks of
  every card that is out at a stage. What is inductive (`CardFits`) adds that the
  current card is the newest and that none is out while the next is to be
  prepared. `GateAnswered` depends on the gate, the history and the stage only:
  each command keeps those (`KeepsGate`), drops the card, or admits the stage.
- `CardsInOrder`. A quiet step of the refinement discards the open card or
  stutters. The delicate cases are a card that was answered, which must not be
  open again, a closed run that a waiver reopens, which has dropped its card, and
  a second answer: it needs a watch, because without one every outcome has a
  record and `CanSubmit` refuses (`AllRecorded`), and it is for the newest card
  (`CardFits`).
- `RepairsAreBounded`. Every operator but `RefusedByGate` keeps the counts of the
  gates or resets them. `RefusedByGate` counts one, and beyond `max_loops` it
  leaves the run paused with no card. So each count beyond `max_loops` is paid by
  a command from outside or by the pause the run is held in (`LoopInv`); the
  report of a watch cannot move a run that is `Held`, because it has no card.
- `LoadsAreCurrent`, `FilesAreDurable`. `state.json` may fall behind the log,
  and even go back when a reader repairs it late. `StoreInv` says that it is
  always a prefix of the log, and that whoever has loaded under the mutex has
  the end of the log; exclusion comes from `MutexInv`. The
  refinement maps the log to the abstract sequence, and each step to a change,
  a load or a stutter.
- `OneHandoffIsOpen`, `NothingSentUnrecorded`. A new record is appended only
  behind a closed one, and only the latest record changes. `HandoffInv` adds
  what a CLI process knows: one that has come past the callback before Send has
  a record, whatever happened to that record since.
- `OneWorkerIsOwned`, `ResultsAreAwaited`. `WorkerInv`: every process that is
  under way holds the launch mutex, and every worker that is not orphaned
  belongs to a process that is working. `CardInv`: a card the run can still work
  on, now or after a resume, is not the one submitted last.
- `ReasonsStop`. A pair of equal failures appears at the end of the history at
  the moment the run stops, or not at all (`ReasonsKept`). That the second
  failure is recognised takes that the tracker of a stage holds the reason of
  its last outcome whenever that was a failure with a reason (`Remembered`):
  other stages, entry gates and verdicts of the supervisor leave trackers and
  history alone (`SameFailures`), and a success needs no tracker. A failure of a
  blocked environment is not tracked, but it pauses the run. The report of a
  late watch has no record of its own, which the property excludes.
- `LadderEnds`. The failed cards of an unattended run are at most the rungs it has
  climbed: two retries and one change of strategy (`RungsKept`). One more is
  possible only in a paused run without a card, or with one that failed already:
  a late watch may report on it once more and move the run on, which climbs a
  rung or adds no card.
- `RequestsAreKept`, `SuccessIsFiled`. Every step replaces a file by one of the
  same request, and moves none out of `complete` unless a clean-up has begun
  (`FilesMove`). `InboxInv` says of each command under way which file it holds
  (`Item`), and that a run which is about to be persisted as succeeded has its
  request filed already (`Filed`); what a reconciliation writes back names the
  request its run has.
- `AgentsAreKept`. The property is inductive as it stands: a registration reads
  and writes the registry in one step under the ledger's lock, and a tick merges
  what it scanned into the registry of that moment.
- `AcceptanceIsObserved`, `ObservationsStand`. A record is truthful
  (`RecordsTruthful`): if it says a success on a content, that content was in the
  workspace when the operation ended. `CollectionKeeps` and `CollectionClaims`
  say what a collection under way will write back and that nobody else collects;
  `RunsAreDue` that an operation is only run for a content without a record.
- `AcceptedPassesAreEarned`. `PassesEarned` says the same of the cache as the
  property says of what was accepted; it takes what is known of the commands that
  run (`OriginsKnown`): a gate's command started on the content and configuration
  of its key or one that was edited meanwhile, an agent's on the first content
  of its bracket.
- `OneHandoffIsOpen`, `OneWorkerIsOwned`, `LandingsAreSerial` and
  `CheckoutsHaveOneRun` have one shape: the lock, record or binding names its
  holder, and whoever replaces it has seen the holder gone.
- `TasksAreDone`. No step loses a run or makes one name a run that does not exist
  (`Onward`), and a step that ends a task justifies it (`Justified`): what a
  command drives exists and is the run or route of its task (`RunsExist`,
  `DrivesItsTask`), so what it read of run and route is true of that task.
- `LostTimeIsShown`. `LockInv`: a watch that is past its claims holds the lock
  of every target it follows. So of a ledger there is only one writer, and
  `LedgerInv` can say of each entry which watch will still end it: a session
  starts only behind a gap that is final (`FinalGap`), and what precedes it is
  disclosed (`Discloses`), also for a gap with the same reason as an earlier one.
- `ProofsAreMerged`, `BranchesSeePredecessors`. A proof is written when nothing
  is left to merge: `Merging` says that what is gone from the list is on the
  branch, which takes that no run wrote after the commit, and that takes
  `RunsInOrder`, the run a chunk names is the only one that could. A worktree
  starts at the head: `Starting` and `Releasing` say which proofs are there by
  then, and `ProofMeansMerged` what they are worth.
- `WorkIsKept`. `WorkKept` alone is not inductive: a commit in a checkout whose
  branch is gone would lose it. `KeptInv` adds that a checkout that is there has
  its branch, and that a removal which has come to the branch has no checkout.
- `DeathsAreRetried`. What a command under way has left of its name so far
  (`Underway`) is what it leaves when it dies (`LeftBehind`): a creation a
  checkout that is not recorded, a removal its record. Both are what the same
  command accepts.
- `ConsolidatesOnce`, `ResolvedBeforeRemoval`. A command that is about to create
  a consolidation run has found none (`OnlyFirst`), so the first is the only one
  a removal has to look at.
- `AlertsStand`. A tick that is about to close the alert it read has seen a
  success since that one opened (`Judged`), and the ledger only grows. The latest
  decision with a given outcome exists because a finite set of numbers has a
  greatest element (`Extrema`).
- `VersionsRise`. `LandingKnows` follows a landing through its steps: from the
  moment it has read the tip of `pan-dev` to the moment it moves it, the version
  it carries is the next one, unless the tip has moved and the fast-forward is
  refused. A landing that died may be found half-done in its tree: `TreeInv`.

Only model-checked: liveness (`ComesToRest`, `LanderEnds`, `SendingResolves`,
`HorizonEnds`), which is out of the prover's reach. Every safety invariant and
action property of the passing runs is a theorem. What remains open are locks
beyond orderly schedules.

## 6. Not modelled, and next

Not modelled: the executor adapters, validators, rendering, context, governance
texts, requirement authoring, agent transcripts, spend accounting, evaluations,
test tooling, configuration and the command line. Together they are by far the
largest part of the source. They are functions of text or calls of programs;
what they decide enters the models as a choice (an outcome, a failed criterion,
an observation, a conflict), so a model of them would restate them. The share of
the source lines the models stand for is small for that reason: the protocols
are a small part of the program, and the part where order and failure matter.

Partly modelled components name what is left out in `PROJECT.json`. The largest
omissions: the repair of worktree records and of a checkout the operator holds;
chunk dependencies inside a cohort's plan; ship repair and `syncLocalRelease`;
the daemon of the hypervisor; archiving and expiry of artifacts; the watches of
processes, agents and timers. Compositions across modules are not explored: a run
inside a session is a choice of what a run can do, and a critical section is one
step.

Next, in order:

1. A composition of `RunLifecycle` with `Delegation` (the card of the run is the
   card of the worker) and of `Cohorts` with `Worktrees`.
2. Proofs: refinements of `Worktrees`, `Inbox` and `SupervisorHandoff` to what
   they promise their callers.
3. The repair of worktree records; chunk dependencies; artifact retention.
