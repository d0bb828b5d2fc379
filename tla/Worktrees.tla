----------------------------- MODULE Worktrees -----------------------------
(***************************************************************************)
(* The recorded Git worktrees runs work in.  A command that changes the    *)
(* index holds the index mutex from its first look to its last write, so   *)
(* at most one is in progress; it works in steps on Git and on the index,  *)
(* and may die between two of them.  Meanwhile the operator and the agents *)
(* edit, commit and land, and a cleanup removes what its plan judged       *)
(* unused.  A worktree is on the branch of its own name.  Work is a set of *)
(* units, each edited in one checkout before it is committed or merged.    *)
(***************************************************************************)
EXTENDS Naturals, FiniteSets

CONSTANTS
    Names,             \* names of worktrees and of their branches
    MaxWork,           \* bound: units of work made
    MaxWorktreeDeaths  \* bound: commands that die

ASSUME WorktreeAssumption == MaxWork \in Nat /\ MaxWorktreeDeaths \in Nat /\ "none" \notin Names

VARIABLES
    checkout,  \* per name: none, there, gone (Git registers a missing directory)
    branches,  \* branches that exist
    commits,   \* per branch the units committed to it
    edits,     \* per checkout the units not committed
    merge,     \* per checkout the branch whose conflicting merge is open
    onDefault, \* units the default branch holds
    recorded,  \* names in the index
    command,   \* the command that holds the index mutex
    doomed,    \* names a cleanup planned to remove
    made,      \* units made so far
    givenUp,   \* units discarded by force or by hand
    cut,       \* per name the kind of the last command on it, if it died
    worktreeDeaths

gitVars == <<checkout, branches, commits, edits, merge, onDefault, givenUp>>
wVars == <<gitVars, recorded, command, doomed, made, cut, worktreeDeaths>>

WorkUnits == 1 .. MaxWork
NoName == "none"
NoCommand == [kind |-> "none"]
Commands ==
    {NoCommand}
    \union [kind : {"create"}, name : Names]
    \union [kind : {"remove"}, name : Names, step : {"tree", "branch", "record"},
            force : BOOLEAN, deleteBranch : BOOLEAN, present : BOOLEAN]
    \union [kind : {"reconcile"}, name : Names, left : SUBSET Names]

WTypeOK ==
    /\ checkout \in [Names -> {"none", "there", "gone"}]
    /\ branches \subseteq Names /\ commits \in [Names -> SUBSET WorkUnits]
    /\ edits \in [Names -> SUBSET WorkUnits] /\ merge \in [Names -> Names \union {NoName}]
    /\ onDefault \subseteq WorkUnits /\ recorded \subseteq Names
    /\ command \in Commands
    /\ doomed \subseteq Names
    /\ made \in 0 .. MaxWork /\ givenUp \subseteq WorkUnits
    /\ cut \in [Names -> {"no", "create", "remove"}]
    /\ worktreeDeaths \in 0 .. MaxWorktreeDeaths

WInit ==
    /\ checkout = [w \in Names |-> "none"] /\ branches = {}
    /\ commits = [w \in Names |-> {}] /\ edits = [w \in Names |-> {}]
    /\ merge = [w \in Names |-> NoName]
    /\ onDefault = {} /\ recorded = {} /\ command = NoCommand /\ doomed = {}
    /\ made = 0 /\ givenUp = {}
    /\ cut = [w \in Names |-> "no"] /\ worktreeDeaths = 0

CleanTree(w) == edits[w] = {} /\ merge[w] = NoName

-----------------------------------------------------------------------------
(* Creation. *)

\* Mutant: an existing checkout is always refused.
MutantAdoptable(w) == FALSE

\* A registered checkout on the branch of its name is taken over.
Adoptable(w) == checkout[w] = "there"

CreationAccepted(w) ==
    /\ w \notin recorded
    /\ Adoptable(w) \/ (checkout[w] = "none" /\ w \notin branches)

\* git worktree add on a new branch, from the default branch or from the
\* HEAD of a recorded worktree.
CreateWorktree(w) ==
    /\ command = NoCommand /\ CreationAccepted(w)
    /\ command' = [kind |-> "create", name |-> w]
    /\ IF Adoptable(w)
       THEN UNCHANGED <<checkout, branches, commits>>
       ELSE /\ checkout' = [checkout EXCEPT ![w] = "there"]
            /\ branches' = branches \union {w}
            /\ \E from \in {onDefault}
                   \union {commits[s] : s \in {r \in recorded : checkout[r] = "there"}} :
                   commits' = [commits EXCEPT ![w] = from]
    /\ UNCHANGED <<edits, merge, onDefault, recorded, doomed, made, givenUp, cut, worktreeDeaths>>

\* A branch without a checkout is checked out into a new worktree of its name.
MaterializeBranch(w) ==
    /\ command = NoCommand /\ w \notin recorded
    /\ w \in branches /\ checkout[w] = "none"
    /\ command' = [kind |-> "create", name |-> w]
    /\ checkout' = [checkout EXCEPT ![w] = "there"]
    /\ UNCHANGED <<branches, commits, edits, merge, onDefault, recorded, doomed, made,
                   givenUp, cut, worktreeDeaths>>

RecordCreated ==
    /\ command.kind = "create"
    /\ recorded' = recorded \union {command.name}
    /\ cut' = [cut EXCEPT ![command.name] = "no"]
    /\ command' = NoCommand
    /\ UNCHANGED <<gitVars, doomed, made, worktreeDeaths>>

-----------------------------------------------------------------------------
(* Removal. *)

Present(w) == checkout[w] = "there"

RemovalAccepted(w, force) ==
    /\ w \in recorded
    /\ Present(w) => CleanTree(w) \/ force

RemoveWorktree(w, force, deleteBranch) ==
    /\ command = NoCommand /\ RemovalAccepted(w, force)
    /\ command' = [kind |-> "remove", name |-> w, step |-> "tree", force |-> force,
                   deleteBranch |-> deleteBranch, present |-> Present(w)]
    /\ UNCHANGED <<gitVars, recorded, doomed, made, cut, worktreeDeaths>>

At(step) == command.kind = "remove" /\ command.step = step

\* git worktree remove, or prune where the directory is already gone.  Git
\* looks again, and refuses a checkout edited since the command did.
RemoveTree ==
    /\ At("tree")
    /\ LET w == command.name IN
       \/ /\ command.present /\ checkout[w] = "there" /\ (CleanTree(w) \/ command.force)
          /\ checkout' = [checkout EXCEPT ![w] = "none"]
          /\ edits' = [edits EXCEPT ![w] = {}]
          /\ merge' = [merge EXCEPT ![w] = NoName]
          /\ givenUp' = IF command.force THEN givenUp \union edits[w] ELSE givenUp
          /\ command' = [command EXCEPT !.step = "branch"]
       \/ /\ ~command.present
          /\ checkout' = [c \in Names |-> IF checkout[c] = "gone" THEN "none" ELSE checkout[c]]
          /\ command' = [command EXCEPT !.step = "branch"]
          /\ UNCHANGED <<edits, merge, givenUp>>
       \/ /\ command.present /\ ~(checkout[w] = "there" /\ (CleanTree(w) \/ command.force))
          /\ command' = NoCommand
          /\ UNCHANGED <<checkout, edits, merge, givenUp>>
    /\ UNCHANGED <<branches, commits, onDefault, recorded, doomed, made, cut, worktreeDeaths>>

\* Mutant: a branch is deleted without asking what the default branch holds.
MutantDeletable(w) == w \in branches

\* A branch is deleted once the default branch holds its history.
Deletable(w) == w \in branches /\ commits[w] \subseteq onDefault

DeleteMergedBranch ==
    /\ At("branch")
    /\ IF command.deleteBranch /\ Deletable(command.name)
       THEN /\ branches' = branches \ {command.name}
            /\ commits' = [commits EXCEPT ![command.name] = {}]
       ELSE UNCHANGED <<branches, commits>>
    /\ command' = [command EXCEPT !.step = "record"]
    /\ UNCHANGED <<checkout, edits, merge, onDefault, recorded, doomed, made, givenUp, cut,
                   worktreeDeaths>>

RecordRemoved ==
    /\ At("record")
    /\ recorded' = recorded \ {command.name}
    /\ cut' = [cut EXCEPT ![command.name] = "no"]
    /\ command' = NoCommand
    /\ UNCHANGED <<gitVars, doomed, made, worktreeDeaths>>

-----------------------------------------------------------------------------
(* Reconciliation: recorded, clean sources are merged one after the other   *)
(* into a recorded, clean target.                                           *)

ReconcileWorktrees(into, sources) ==
    /\ command = NoCommand
    /\ Cardinality(sources) >= 2 /\ into \notin sources
    /\ \A w \in sources \union {into} :
           w \in recorded /\ Present(w) /\ CleanTree(w) /\ w \in branches
    /\ command' = [kind |-> "reconcile", name |-> into, left |-> sources]
    /\ UNCHANGED <<gitVars, recorded, doomed, made, cut, worktreeDeaths>>

MergeSource(source) ==
    /\ command.kind = "reconcile" /\ source \in command.left
    /\ commits' = [commits EXCEPT ![command.name] = @ \union commits[source]]
    /\ command' = IF command.left = {source} THEN NoCommand
                  ELSE [command EXCEPT !.left = @ \ {source}]
    /\ UNCHANGED <<checkout, branches, edits, merge, onDefault, recorded, doomed, made,
                   givenUp, cut, worktreeDeaths>>

\* A conflict ends the command; the open merge is left to the agent its
\* request asks.
MergeConflicts(source) ==
    /\ command.kind = "reconcile" /\ source \in command.left
    /\ Present(command.name)
    /\ ~(commits[source] \subseteq commits[command.name])
    /\ merge' = [merge EXCEPT ![command.name] = source]
    /\ command' = NoCommand
    /\ UNCHANGED <<checkout, branches, commits, edits, onDefault, recorded, doomed, made,
                   givenUp, cut, worktreeDeaths>>

-----------------------------------------------------------------------------
(* Cleanup: the plan is made without the mutex. *)

\* Whether a worktree is old enough, and named by no live run, is left open.
PlanWorktrees(old) ==
    /\ old # {} /\ doomed = {}
    /\ old \subseteq recorded
    /\ \A w \in old : Present(w) => CleanTree(w)
    /\ doomed' = old
    /\ UNCHANGED <<gitVars, recorded, command, made, cut, worktreeDeaths>>

\* Each planned removal is an ordinary one, without force and with the branch
\* kept; the first that is refused ends the cleanup.
ApplyCleanup(w) ==
    /\ w \in doomed /\ command = NoCommand
    /\ IF RemovalAccepted(w, FALSE)
       THEN /\ command' = [kind |-> "remove", name |-> w, step |-> "tree", force |-> FALSE,
                           deleteBranch |-> FALSE, present |-> Present(w)]
            /\ doomed' = doomed \ {w}
       ELSE doomed' = {} /\ UNCHANGED command
    /\ UNCHANGED <<gitVars, recorded, made, cut, worktreeDeaths>>

-----------------------------------------------------------------------------
(* Everyone else. *)

CommandDies ==
    /\ command # NoCommand /\ worktreeDeaths < MaxWorktreeDeaths
    /\ worktreeDeaths' = worktreeDeaths + 1
    /\ command' = NoCommand
    /\ cut' = IF command.kind = "reconcile" THEN cut
              ELSE [cut EXCEPT ![command.name] = command.kind]
    /\ UNCHANGED <<gitVars, recorded, doomed, made>>

EditWork(w) ==
    /\ Present(w) /\ made < MaxWork
    /\ made' = made + 1
    /\ edits' = [edits EXCEPT ![w] = @ \union {made + 1}]
    /\ UNCHANGED <<checkout, branches, commits, merge, onDefault, recorded, command, doomed,
                   givenUp, cut, worktreeDeaths>>

\* Committing also concludes an open merge.
CommitWork(w) ==
    /\ Present(w) /\ ~CleanTree(w)
    /\ commits' = [commits EXCEPT ![w] = @ \union edits[w] \union
                      (IF merge[w] = NoName THEN {} ELSE commits[merge[w]])]
    /\ edits' = [edits EXCEPT ![w] = {}]
    /\ merge' = [merge EXCEPT ![w] = NoName]
    /\ UNCHANGED <<checkout, branches, onDefault, recorded, command, doomed, made, givenUp,
                   cut, worktreeDeaths>>

LandBranch(w) ==
    /\ w \in branches /\ ~(commits[w] \subseteq onDefault)
    /\ onDefault' = onDefault \union commits[w]
    /\ UNCHANGED <<checkout, branches, commits, edits, merge, recorded, command, doomed, made,
                   givenUp, cut, worktreeDeaths>>

\* The operator deletes a directory by hand, and answers for what was in it.
DeleteByHand(w) ==
    /\ Present(w) /\ command = NoCommand
    /\ checkout' = [checkout EXCEPT ![w] = "gone"]
    /\ givenUp' = givenUp \union edits[w]
    /\ edits' = [edits EXCEPT ![w] = {}]
    /\ merge' = [merge EXCEPT ![w] = NoName]
    /\ cut' = [cut EXCEPT ![w] = "no"]
    /\ UNCHANGED <<branches, commits, onDefault, recorded, command, doomed, made, worktreeDeaths>>

WNext ==
    \/ \E w \in Names :
          \/ CreateWorktree(w) \/ MaterializeBranch(w)
          \/ \E force, deleteBranch \in BOOLEAN : RemoveWorktree(w, force, deleteBranch)
          \/ \E sources \in SUBSET Names : ReconcileWorktrees(w, sources)
          \/ MergeSource(w) \/ MergeConflicts(w) \/ ApplyCleanup(w)
          \/ EditWork(w) \/ CommitWork(w) \/ LandBranch(w) \/ DeleteByHand(w)
    \/ \E old \in SUBSET Names : PlanWorktrees(old)
    \/ RecordCreated \/ RemoveTree \/ DeleteMergedBranch \/ RecordRemoved \/ CommandDies

WSpec == WInit /\ [][WNext]_wVars

-----------------------------------------------------------------------------
(* Properties. *)

\* The work in the checkouts that are there, and the work on the branches.
EditedWork == UNION {edits[w] : w \in {c \in Names : checkout[c] = "there"}}
CommittedWork == UNION {commits[w] : w \in branches}

\* Work once made is always somewhere -- in a checkout, on a branch, or on the
\* default branch -- unless it was discarded by force or by hand: no order of
\* creations, merges, landings, cleanups, removals and deaths loses any.
WorkKept ==
    1 .. made \subseteq onDefault \union givenUp \union EditedWork \union CommittedWork

\* A creation or removal that died can simply be asked for again: what it left
\* behind is recorded, is taken over, or is what a removal still accepts; only
\* uncommitted work makes a removal ask for force.
DeathIsRetried ==
    command = NoCommand => \A w \in Names :
        /\ cut[w] = "create" => (w \in recorded /\ Present(w)) \/ CreationAccepted(w)
        /\ cut[w] = "remove" => \E force \in BOOLEAN :
               RemovalAccepted(w, force) /\ (force => ~CleanTree(w))
=============================================================================
