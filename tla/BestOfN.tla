------------------------------ MODULE BestOfN ------------------------------
(***************************************************************************)
(* Best-of-N sessions: candidate runs of one task, each in a worktree, and *)
(* one consolidation run over their results.  A session is written before  *)
(* what it names exists, and a run before the session names it, so every   *)
(* command first adopts the runs it finds.  `prune` removes what no        *)
(* session it has seen protects.                                           *)
(***************************************************************************)
EXTENDS Integers, FiniteSets

CONSTANTS
    Slots,            \* the configured candidates
    MaxSessionDeaths  \* bound: commands that die

ASSUME SessionsAssumption == MaxSessionDeaths \in Nat

VARIABLES
    status,      \* session record: none, initializing, ready
    slot,        \* per candidate its record: none, pending, run
    excluded,    \* candidates the operator excluded
    tree,        \* candidates whose worktree is registered
    dirt,        \* candidates whose worktree holds uncommitted work
    run,         \* per candidate its run: none, live, succeeded, failed
    named,       \* the session names its consolidation run
    merging,     \* status of each consolidation run
    cmd,         \* the command that holds the session mutex: kind, slot, step
    prune,       \* what the prune read: none, or whether it saw the session
    sessionDeaths

bVars == <<status, slot, excluded, tree, dirt, run, named, merging, cmd, prune,
           sessionDeaths>>

Ended == {"succeeded", "failed"}
NoSlot == "no slot"
NoCmd == [kind |-> "none", at |-> NoSlot, step |-> "none"]

BTypeOK ==
    /\ status \in {"none", "initializing", "ready"}
    /\ slot \in [Slots -> {"none", "pending", "run"}]
    /\ excluded \subseteq Slots /\ tree \subseteq Slots /\ dirt \subseteq tree
    /\ run \in [Slots -> {"none", "live"} \cup Ended]
    /\ named \in BOOLEAN
    /\ merging \in [1 .. 2 -> {"none", "live"} \cup Ended]
    /\ cmd \in [kind : {"none", "init", "consolidate"}, at : Slots \cup {NoSlot},
                step : {"none", "next", "claimed", "tree", "created"}]
    /\ prune \in {"none", "unseen", "seen"}
    /\ sessionDeaths \in 0 .. MaxSessionDeaths

BInit ==
    /\ status = "none" /\ slot = [s \in Slots |-> "none"]
    /\ excluded = {} /\ tree = {} /\ dirt = {}
    /\ run = [s \in Slots |-> "none"]
    /\ named = FALSE /\ merging = [i \in 1 .. 2 |-> "none"]
    /\ cmd = NoCmd /\ prune = "none" /\ sessionDeaths = 0

Consolidations == {i \in 1 .. 2 : merging[i] # "none"}
ConsolidationLive == \E i \in Consolidations : merging[i] = "live"

-----------------------------------------------------------------------------
(* initBestOfN                                                             *)

InitSession ==
    /\ status = "none" /\ cmd.kind = "none"
    /\ status' = "initializing"
    /\ cmd' = [kind |-> "init", at |-> NoSlot, step |-> "next"]
    /\ UNCHANGED <<slot, excluded, tree, dirt, run, named, merging, prune, sessionDeaths>>

\* The slot is claimed before its worktree exists.
ClaimSlot(s) ==
    /\ cmd.kind = "init" /\ cmd.step = "next" /\ slot[s] = "none"
    /\ slot' = [slot EXCEPT ![s] = "pending"]
    /\ cmd' = [cmd EXCEPT !.at = s, !.step = "claimed"]
    /\ UNCHANGED <<status, excluded, tree, dirt, run, named, merging, prune, sessionDeaths>>

AddCandidateTree ==
    /\ cmd.kind = "init" /\ cmd.step = "claimed"
    /\ tree' = tree \cup {cmd.at}
    /\ cmd' = [cmd EXCEPT !.step = "tree"]
    /\ UNCHANGED <<status, slot, excluded, dirt, run, named, merging, prune, sessionDeaths>>

\* A prune may have removed the worktree: then createRun refuses its workspace
\* and the command ends with what it has written.
CandidateRefused ==
    /\ cmd.kind = "init" /\ cmd.step = "tree" /\ cmd.at \notin tree
    /\ cmd' = NoCmd
    /\ UNCHANGED <<status, slot, excluded, tree, dirt, run, named, merging, prune, sessionDeaths>>

CreateCandidate ==
    /\ cmd.kind = "init" /\ cmd.step = "tree" /\ cmd.at \in tree
    /\ run' = [run EXCEPT ![cmd.at] = "live"]
    /\ cmd' = [cmd EXCEPT !.step = "created"]
    /\ UNCHANGED <<status, slot, excluded, tree, dirt, named, merging, prune, sessionDeaths>>

RecordCandidate ==
    /\ cmd.kind = "init" /\ cmd.step = "created"
    /\ slot' = [slot EXCEPT ![cmd.at] = "run"]
    /\ cmd' = [cmd EXCEPT !.at = NoSlot, !.step = "next"]
    /\ UNCHANGED <<status, excluded, tree, dirt, run, named, merging, prune, sessionDeaths>>

SessionReady ==
    /\ cmd.kind = "init" /\ cmd.step = "next" /\ \A s \in Slots : slot[s] = "run"
    /\ status' = "ready" /\ cmd' = NoCmd
    /\ UNCHANGED <<slot, excluded, tree, dirt, run, named, merging, prune, sessionDeaths>>

-----------------------------------------------------------------------------
(* Every later command takes the mutex and adopts what it finds            *)

(* Mutant: a run that was not recorded is not looked for. *)
MutantAdopted == slot

Adopted == [s \in Slots |-> IF run[s] # "none" THEN "run" ELSE slot[s]]

(* Mutant: candidates are adopted, a consolidation run is not. *)
MutantReconcile ==
    /\ status # "none" /\ cmd.kind = "none"
    /\ slot' = Adopted
    /\ named' = named
    /\ status' = IF \A s \in Slots : Adopted[s] = "run" THEN "ready" ELSE status

Reconcile ==
    /\ status # "none" /\ cmd.kind = "none"
    /\ slot' = Adopted
    /\ named' = (named \/ Consolidations # {})
    /\ status' = IF \A s \in Slots : Adopted[s] = "run" THEN "ready" ELSE status

Abandon(s) ==
    /\ Reconcile
    /\ slot'[s] = "run" /\ s \notin excluded
    /\ excluded' = excluded \cup {s}
    /\ UNCHANGED <<tree, dirt, run, merging, cmd, prune, sessionDeaths>>

\* Every candidate is resolved and one that counts succeeded.
Consolidate ==
    /\ Reconcile
    /\ status' = "ready" /\ ~named'
    /\ \A s \in Slots : run[s] \in Ended \/ s \in excluded
    /\ \E s \in Slots \ excluded : run[s] = "succeeded"
    /\ cmd' = [kind |-> "consolidate", at |-> NoSlot, step |-> "next"]
    /\ UNCHANGED <<excluded, tree, dirt, run, merging, prune, sessionDeaths>>

CreateConsolidation ==
    /\ cmd.kind = "consolidate" /\ cmd.step = "next"
    /\ \E i \in 1 .. 2 : /\ i = Cardinality(Consolidations) + 1
                         /\ merging' = [merging EXCEPT ![i] = "live"]
    /\ cmd' = [cmd EXCEPT !.step = "created"]
    /\ UNCHANGED <<status, slot, excluded, tree, dirt, run, named, prune, sessionDeaths>>

RecordConsolidation ==
    /\ cmd.kind = "consolidate" /\ cmd.step = "created"
    /\ named' = TRUE /\ cmd' = NoCmd
    /\ UNCHANGED <<status, slot, excluded, tree, dirt, run, merging, prune, sessionDeaths>>

\* A live consolidation run, a live candidate run that is not excluded and a
\* dirty worktree each refuse the removal.
Clean ==
    /\ Reconcile
    /\ tree # {} /\ dirt = {}
    /\ named' => merging[1] # "live"
    /\ \A s \in Slots \ excluded : slot'[s] = "run" => run[s] # "live"
    /\ tree' = tree \ {s \in Slots : slot'[s] # "none"}
    /\ UNCHANGED <<excluded, dirt, run, merging, cmd, prune, sessionDeaths>>

-----------------------------------------------------------------------------
(* best-of-n prune                                                         *)

\* Sessions are listed, then worktrees are: one of no listed session that is
\* clean is removed.  No mutex covers the two, so a session may be opened and
\* worked in between them.
ScanSessions ==
    /\ prune = "none"
    /\ prune' = IF status = "none" THEN "unseen" ELSE "seen"
    /\ UNCHANGED <<status, slot, excluded, tree, dirt, run, named, merging, cmd, sessionDeaths>>

RemoveOrphans ==
    /\ prune # "none"
    /\ tree' = IF prune = "unseen" THEN dirt ELSE tree
    /\ prune' = "none"
    /\ UNCHANGED <<status, slot, excluded, dirt, run, named, merging, cmd, sessionDeaths>>

-----------------------------------------------------------------------------
(* Runs and processes                                                      *)

\* Candidate work is never committed.
Edit(s) ==
    /\ run[s] = "live" /\ s \in tree
    /\ dirt' = dirt \cup {s}
    /\ UNCHANGED <<status, slot, excluded, tree, run, named, merging, cmd, prune, sessionDeaths>>

EndCandidate(s, outcome) ==
    /\ run[s] = "live"
    /\ run' = [run EXCEPT ![s] = outcome]
    /\ UNCHANGED <<status, slot, excluded, tree, dirt, named, merging, cmd, prune, sessionDeaths>>

EndConsolidation(i, outcome) ==
    /\ merging[i] = "live"
    /\ merging' = [merging EXCEPT ![i] = outcome]
    /\ UNCHANGED <<status, slot, excluded, tree, dirt, run, named, cmd, prune, sessionDeaths>>

CommandDied ==
    /\ cmd.kind # "none" /\ sessionDeaths < MaxSessionDeaths
    /\ cmd' = NoCmd /\ sessionDeaths' = sessionDeaths + 1
    /\ UNCHANGED <<status, slot, excluded, tree, dirt, run, named, merging, prune>>

BNext ==
    \/ InitSession \/ AddCandidateTree \/ CreateCandidate \/ CandidateRefused
    \/ RecordCandidate \/ SessionReady
    \/ Consolidate \/ CreateConsolidation \/ RecordConsolidation \/ Clean
    \/ ScanSessions \/ RemoveOrphans \/ CommandDied
    \/ \E s \in Slots : ClaimSlot(s) \/ Abandon(s) \/ Edit(s)
    \/ \E s \in Slots, o \in Ended : EndCandidate(s, o)
    \/ \E i \in 1 .. 2, o \in Ended : EndConsolidation(i, o)

BSpec == BInit /\ [][BNext]_bVars

-----------------------------------------------------------------------------
(* Properties                                                              *)

\* A command that died after it created a run does not make the next one
\* create a second: a session has one consolidation run.
OneConsolidation == Cardinality(Consolidations) <= 1

\* Uncommitted work is never removed.  A worktree is removed only if no run works
\* in it that the operator still counts on, and no consolidation run reads it,
\* whichever command died before it recorded them; the one exception is a prune
\* that had listed the sessions before this one was written.
RemovedWhenResolved ==
    [][\A s \in tree \ tree' :
          /\ s \notin dirt
          /\ \/ /\ run[s] # "live" \/ s \in excluded
                /\ ~ConsolidationLive
             \/ prune = "unseen" /\ prune' = "none"]_bVars
=============================================================================
