-------------------------- MODULE WorktreesProofs --------------------------
(***************************************************************************)
(* The worktrees of runs, of best-of-N candidates and of releases.         *)
(*   Work is never lost between worktrees: WorkKept for any set of names   *)
(* and any amount of work.  By itself WorkKept is not inductive: a commit  *)
(* in a checkout whose branch was deleted would lose it, so the invariant  *)
(* also says that a checkout has its branch, and that a removal which      *)
(* found no checkout, or has come to the branch, has none.  Then what a    *)
(* dead command left, the consolidation of a session and what its prune    *)
(* removes, the alert of a job whose decisions are read, and the versions  *)
(* that land.                                                              *)
(***************************************************************************)
EXTENDS Worktrees, BestOfN, ScheduleTicks, ReleaseLanding, Extrema, FiniteSetTheorems

\* A unit is somewhere.
Kept(u) ==
    \/ u \in onDefault \/ u \in givenUp
    \/ \E w \in Names : checkout[w] = "there" /\ u \in edits[w]
    \/ \E w \in Names : w \in branches /\ u \in commits[w]

AllKept == \A u \in 1 .. made : Kept(u)
HasBranch == \A w \in Names : checkout[w] = "there" => w \in branches
RemovedFirst ==
    At("branch") \/ (At("tree") /\ ~command.present) => checkout[command.name] # "there"
KeptInv == WTypeOK /\ AllKept /\ HasBranch /\ RemovedFirst

LEMMA KeptIsWorkKept == ASSUME WTypeOK PROVE AllKept => WorkKept
<1> SUFFICES ASSUME AllKept, NEW u \in 1 .. made
    PROVE u \in onDefault \union givenUp \union EditedWork \union CommittedWork
    BY DEF WorkKept
<1>1. Kept(u)
  BY DEF AllKept
<1>2. ASSUME NEW w \in Names, checkout[w] = "there", u \in edits[w] PROVE u \in EditedWork
  BY <1>2 DEF EditedWork
<1>3. ASSUME NEW w \in branches, u \in commits[w] PROVE u \in CommittedWork
  BY <1>3 DEF CommittedWork
<1> QED BY <1>1, <1>2, <1>3 DEF Kept

USE WorktreeAssumption

LEMMA KeptInvInit == WInit => KeptInv
  BY DEF WInit, KeptInv, WTypeOK, AllKept, HasBranch, RemovedFirst, At, NoCommand, Commands, NoName

LEMMA KeptInvNext == KeptInv /\ [WNext]_wVars => KeptInv'
<1> SUFFICES ASSUME KeptInv, [WNext]_wVars PROVE KeptInv'
    OBVIOUS
<1> USE DEF KeptInv
<1>1. ASSUME NEW w \in Names, CreateWorktree(w) PROVE KeptInv'
  <2> USE <1>1 DEF CreateWorktree, CreationAccepted, Adoptable, NoCommand
  <2>1. WTypeOK'
    <3>1. commits' \in [Names -> SUBSET WorkUnits]
      BY DEF WTypeOK
    <3>2. command' \in Commands
      BY DEF Commands
    <3>3. checkout' \in [Names -> {"none", "there", "gone"}] /\ branches' \subseteq Names
      BY DEF WTypeOK
    <3> QED BY <3>1, <3>2, <3>3 DEF WTypeOK
  <2>2. AllKept'
    BY DEF WTypeOK, AllKept, Kept
  <2>3. HasBranch' /\ RemovedFirst'
    BY DEF WTypeOK, HasBranch, RemovedFirst, At
  <2> QED BY <2>1, <2>2, <2>3
<1>2. ASSUME NEW w \in Names, MaterializeBranch(w) PROVE KeptInv'
  <2> USE <1>2 DEF MaterializeBranch, NoCommand
  <2>1. WTypeOK'
    BY DEF WTypeOK, Commands
  <2>2. AllKept'
    BY DEF WTypeOK, AllKept, Kept
  <2>3. HasBranch' /\ RemovedFirst'
    BY DEF WTypeOK, HasBranch, RemovedFirst, At
  <2> QED BY <2>1, <2>2, <2>3
<1>3. ASSUME NEW w \in Names, NEW force \in BOOLEAN, NEW deleteBranch \in BOOLEAN,
             RemoveWorktree(w, force, deleteBranch) PROVE KeptInv'
  BY <1>3 DEF RemoveWorktree, RemovalAccepted, Present, NoCommand, WTypeOK, Commands, gitVars,
     AllKept, Kept, HasBranch, RemovedFirst, At
<1>4. ASSUME NEW w \in Names, NEW sources \in SUBSET Names, ReconcileWorktrees(w, sources)
      PROVE KeptInv'
  BY <1>4 DEF ReconcileWorktrees, NoCommand, WTypeOK, Commands, gitVars,
     AllKept, Kept, HasBranch, RemovedFirst, At
<1>5. ASSUME NEW w \in Names, MergeSource(w) PROVE KeptInv'
  <2> USE <1>5 DEF MergeSource, NoCommand
  <2>1. command \in [kind : {"reconcile"}, name : Names, left : SUBSET Names]
    BY DEF WTypeOK, Commands
  <2>2. WTypeOK'
    BY <2>1 DEF WTypeOK, Commands
  <2>3. AllKept'
    BY <2>1 DEF WTypeOK, AllKept, Kept
  <2>4. HasBranch' /\ RemovedFirst'
    BY <2>1 DEF WTypeOK, HasBranch, RemovedFirst, At
  <2> QED BY <2>2, <2>3, <2>4
<1>6. ASSUME NEW w \in Names, MergeConflicts(w) PROVE KeptInv'
  <2> USE <1>6 DEF MergeConflicts, NoCommand
  <2>1. command \in [kind : {"reconcile"}, name : Names, left : SUBSET Names]
    BY DEF WTypeOK, Commands
  <2> QED BY <2>1 DEF WTypeOK, Commands, AllKept, Kept, HasBranch, RemovedFirst, At
<1>7. ASSUME NEW w \in Names, ApplyCleanup(w) PROVE KeptInv'
  <2> USE <1>7 DEF ApplyCleanup, gitVars
  <2>1. Present(w) \in BOOLEAN
    BY DEF Present
  <2> DEFINE removal == [kind |-> "remove", name |-> w, step |-> "tree", force |-> FALSE,
                         deleteBranch |-> FALSE, present |-> Present(w)]
  <2>2. command' \in Commands /\ doomed' \subseteq Names
    <3>1. removal \in Commands
      BY <2>1 DEF Commands
    <3>2. command' \in {command, removal}
      BY DEF Present
    <3>3. doomed' \in {doomed \ {w}, {}}
      OBVIOUS
    <3> HIDE DEF removal
    <3> QED BY <3>1, <3>2, <3>3 DEF WTypeOK
  <2>3. WTypeOK' /\ AllKept' /\ HasBranch'
    BY <2>2 DEF WTypeOK, AllKept, Kept, HasBranch
  <2>4. RemovedFirst'
    <3>1. CASE RemovalAccepted(w, FALSE)
      <4>1. command' = removal
        BY <3>1
      <4>2. command'.name = w /\ command'.step = "tree" /\ command'.present = Present(w)
        BY <4>1
      <4>3. ~command'.present => checkout[w] # "there"
        BY <4>2 DEF Present
      <4> QED BY <4>2, <4>3 DEF RemovedFirst, At
    <3>2. CASE ~RemovalAccepted(w, FALSE)
      BY <3>2 DEF RemovedFirst, At
    <3> QED BY <3>1, <3>2
  <2> QED BY <2>3, <2>4
<1>8. ASSUME NEW w \in Names, EditWork(w) PROVE KeptInv'
  <2> USE <1>8 DEF EditWork, Present
  <2>1. WTypeOK'
    BY DEF WTypeOK, WorkUnits
  <2>2. AllKept'
    <3> SUFFICES ASSUME NEW u \in 1 .. made' PROVE Kept(u)'
        BY DEF AllKept
    <3>1. CASE u = made + 1
      BY <3>1 DEF WTypeOK, Kept, WorkUnits
    <3>2. CASE u # made + 1
      <4>1. u \in 1 .. made
        BY <3>2 DEF WTypeOK
      <4> QED BY <4>1 DEF AllKept, Kept, WTypeOK
    <3> QED BY <3>1, <3>2
  <2>3. HasBranch' /\ RemovedFirst'
    BY DEF WTypeOK, HasBranch, RemovedFirst, At
  <2> QED BY <2>1, <2>2, <2>3
<1>9. ASSUME NEW w \in Names, CommitWork(w) PROVE KeptInv'
  <2> USE <1>9 DEF CommitWork, Present
  <2>1. WTypeOK'
    BY DEF WTypeOK
  <2>2. AllKept'
    BY DEF WTypeOK, AllKept, Kept, HasBranch
  <2>3. HasBranch' /\ RemovedFirst'
    BY DEF WTypeOK, HasBranch, RemovedFirst, At
  <2> QED BY <2>1, <2>2, <2>3
<1>10. ASSUME NEW w \in Names, LandBranch(w) PROVE KeptInv'
  BY <1>10 DEF LandBranch, WTypeOK, AllKept, Kept, HasBranch, RemovedFirst, At
<1>11. ASSUME NEW w \in Names, DeleteByHand(w) PROVE KeptInv'
  <2> USE <1>11 DEF DeleteByHand, Present
  <2>1. WTypeOK'
    BY DEF WTypeOK, NoName
  <2>2. AllKept'
    BY DEF WTypeOK, AllKept, Kept
  <2>3. HasBranch' /\ RemovedFirst'
    BY DEF WTypeOK, HasBranch, RemovedFirst, At, NoCommand
  <2> QED BY <2>1, <2>2, <2>3
<1>12. ASSUME NEW old \in SUBSET Names, PlanWorktrees(old) PROVE KeptInv'
  BY <1>12 DEF PlanWorktrees, WTypeOK, gitVars, AllKept, Kept, HasBranch, RemovedFirst, At
<1>13. ASSUME RecordCreated PROVE KeptInv'
  <2>1. command \in [kind : {"create"}, name : Names]
    BY <1>13 DEF RecordCreated, WTypeOK, Commands, NoCommand
  <2> QED BY <1>13, <2>1 DEF RecordCreated, WTypeOK, Commands, gitVars, NoCommand,
          AllKept, Kept, HasBranch, RemovedFirst, At
<1>14. ASSUME RemoveTree PROVE KeptInv'
  <2> USE <1>14 DEF RemoveTree, At
  <2>1. command \in [kind : {"remove"}, name : Names, step : {"tree", "branch", "record"},
                     force : BOOLEAN, deleteBranch : BOOLEAN, present : BOOLEAN]
    BY DEF WTypeOK, Commands, NoCommand
  <2>2. WTypeOK'
    BY <2>1 DEF WTypeOK, Commands, NoCommand, NoName
  <2>3. AllKept'
    BY <2>1 DEF WTypeOK, AllKept, Kept, CleanTree
  <2>4. HasBranch'
    BY <2>1 DEF WTypeOK, HasBranch
  <2>5. RemovedFirst'
    BY <2>1 DEF WTypeOK, RemovedFirst, NoCommand
  <2> QED BY <2>2, <2>3, <2>4, <2>5
<1>15. ASSUME DeleteMergedBranch PROVE KeptInv'
  <2> USE <1>15 DEF DeleteMergedBranch, At
  <2>1. command \in [kind : {"remove"}, name : Names, step : {"tree", "branch", "record"},
                     force : BOOLEAN, deleteBranch : BOOLEAN, present : BOOLEAN]
    BY DEF WTypeOK, Commands, NoCommand
  <2>2. WTypeOK'
    BY <2>1 DEF WTypeOK, Commands
  <2>3. AllKept'
    BY <2>1 DEF WTypeOK, AllKept, Kept, Deletable
  <2>4. HasBranch' /\ RemovedFirst'
    BY <2>1 DEF WTypeOK, HasBranch, RemovedFirst
  <2> QED BY <2>2, <2>3, <2>4
<1>16. ASSUME RecordRemoved PROVE KeptInv'
  <2>1. command \in [kind : {"remove"}, name : Names, step : {"tree", "branch", "record"},
                     force : BOOLEAN, deleteBranch : BOOLEAN, present : BOOLEAN]
    BY <1>16 DEF RecordRemoved, WTypeOK, Commands, NoCommand, At
  <2> QED BY <1>16, <2>1 DEF RecordRemoved, WTypeOK, Commands, gitVars, NoCommand,
          AllKept, Kept, HasBranch, RemovedFirst, At
<1>17. ASSUME CommandDies PROVE KeptInv'
  <2>1. /\ command' = NoCommand /\ UNCHANGED <<gitVars, recorded, doomed, made>>
        /\ worktreeDeaths' \in 0 .. MaxWorktreeDeaths
    BY <1>17 DEF CommandDies, WTypeOK
  <2>2. cut' \in [Names -> {"no", "create", "remove"}]
    BY <1>17 DEF CommandDies, WTypeOK, Commands, NoCommand
  <2> QED BY <2>1, <2>2 DEF WTypeOK, Commands, gitVars, NoCommand,
          AllKept, Kept, HasBranch, RemovedFirst, At
<1>18. CASE UNCHANGED wVars
  BY <1>18 DEF wVars, gitVars, WTypeOK, AllKept, Kept, HasBranch, RemovedFirst, At
<1> QED BY <1>1, <1>2, <1>3, <1>4, <1>5, <1>6, <1>7, <1>8, <1>9, <1>10, <1>11, <1>12, <1>13,
           <1>14, <1>15, <1>16, <1>17, <1>18 DEF WNext

LEMMA KeptInvHolds == WSpec => []KeptInv
<1> QED BY KeptInvInit, KeptInvNext, PTL DEF WSpec

\* Whatever creations, merges, landings, cleanups, removals and deaths follow
\* each other, work that was made is in a checkout, on a branch, on the default
\* branch, or was discarded by force or by hand.
THEOREM WorkIsKept == WSpec => []WorkKept
<1>1. KeptInv => WorkKept
  BY KeptIsWorkKept DEF KeptInv
<1> QED BY <1>1, KeptInvHolds, PTL

-----------------------------------------------------------------------------
(* A creation or removal that died is asked for again                      *)

\* What a command under way, or the last one that died, has left of a name: a
\* creation a checkout that is not recorded, a removal its record.
Underway ==
    /\ command.kind = "create" => Present(command.name) /\ command.name \notin recorded
    /\ command.kind = "remove" => command.name \in recorded
LeftBehind ==
    \A w \in Names : /\ cut[w] = "create" => Present(w) /\ w \notin recorded
                     /\ cut[w] = "remove" => w \in recorded

LEMMA CommandKinds ==
    ASSUME WTypeOK
    PROVE  /\ command.kind \in {"none", "create", "remove", "reconcile"}
           /\ command.kind = "none" <=> command = NoCommand
           /\ command # NoCommand => command.name \in Names
BY DEF WTypeOK, Commands, NoCommand

LEMMA RetryNext ==
    WTypeOK /\ Underway /\ LeftBehind /\ [WNext]_wVars => Underway' /\ LeftBehind'
<1> SUFFICES ASSUME WTypeOK, Underway, LeftBehind, [WNext]_wVars
             PROVE  Underway' /\ LeftBehind'
  OBVIOUS
<1>1. /\ command.kind \in {"none", "create", "remove", "reconcile"}
      /\ NoCommand.kind = "none" /\ (command # NoCommand => command.name \in Names)
      /\ checkout \in [Names -> {"none", "there", "gone"}]
      /\ cut \in [Names -> {"no", "create", "remove"}]
  BY CommandKinds DEF WTypeOK, NoCommand
<1>2. ASSUME NEW w \in Names, CreateWorktree(w) \/ MaterializeBranch(w)
      PROVE  Underway' /\ LeftBehind'
  <2>1. /\ command' = [kind |-> "create", name |-> w] /\ w \notin recorded
        /\ UNCHANGED <<recorded, cut>>
        /\ \/ checkout' = [checkout EXCEPT ![w] = "there"]
           \/ checkout[w] = "there" /\ checkout' = checkout
    <3>1. CASE CreateWorktree(w) /\ Adoptable(w)
      BY <3>1 DEF CreateWorktree, CreationAccepted, Adoptable
    <3>2. CASE CreateWorktree(w) /\ ~Adoptable(w)
      BY <3>2 DEF CreateWorktree, CreationAccepted
    <3>3. CASE MaterializeBranch(w)
      BY <3>3 DEF MaterializeBranch
    <3> QED
      BY <1>2, <3>1, <3>2, <3>3
  <2>2. /\ command'.kind = "create" /\ command'.name = w /\ checkout'[w] = "there"
        /\ \A v \in Names : v # w => checkout'[v] = checkout[v]
    BY <1>1, <2>1
  <2> QED
    BY <2>1, <2>2 DEF Underway, LeftBehind, Present
<1>3. CASE RecordCreated \/ RecordRemoved
  <2>1. /\ command' = NoCommand /\ checkout' = checkout /\ command.name \in Names
        /\ cut' = [cut EXCEPT ![command.name] = "no"]
        /\ \A w \in Names : w # command.name => (w \in recorded' <=> w \in recorded)
    BY <1>1, <1>3 DEF RecordCreated, RecordRemoved, At, gitVars
  <2>2. \A w \in Names : cut'[w] = IF w = command.name THEN "no" ELSE cut[w]
    BY <1>1, <2>1
  <2> QED
    BY <1>1, <2>1, <2>2 DEF Underway, LeftBehind, Present
<1>4. ASSUME NEW w \in Names, NEW force \in BOOLEAN, NEW deleteBranch \in BOOLEAN,
             RemoveWorktree(w, force, deleteBranch)
      PROVE  Underway' /\ LeftBehind'
  <2>1. command'.kind = "remove" /\ command'.name = w /\ w \in recorded
        /\ UNCHANGED <<checkout, recorded, cut>>
    BY <1>4 DEF RemoveWorktree, RemovalAccepted, gitVars
  <2> QED
    BY <2>1 DEF Underway, LeftBehind, Present
<1>5. ASSUME NEW w \in Names, ApplyCleanup(w) PROVE Underway' /\ LeftBehind'
  <2>1. UNCHANGED <<checkout, recorded, cut>>
        /\ \/ command' = command
           \/ command'.kind = "remove" /\ command'.name = w /\ w \in recorded
    BY <1>5 DEF ApplyCleanup, RemovalAccepted, gitVars
  <2> QED
    BY <2>1 DEF Underway, LeftBehind, Present
<1>6. CASE RemoveTree \/ DeleteMergedBranch
  <2>1. command.kind = "remove" /\ command.name \in recorded /\ command # NoCommand
    BY <1>1, <1>6 DEF RemoveTree, DeleteMergedBranch, At, Underway
  <2>2. UNCHANGED <<recorded, cut>>
        /\ \A w \in Names : w # command.name /\ checkout[w] = "there" => checkout'[w] = "there"
    BY <1>1, <1>6 DEF RemoveTree, DeleteMergedBranch
  <2>3. command' = NoCommand \/ \E step \in {"branch", "record"} : command' = [command EXCEPT !.step = step]
    BY <1>6 DEF RemoveTree, DeleteMergedBranch
  <2>4. command'.kind = "none" \/ (command'.kind = "remove" /\ command'.name = command.name)
    BY <1>1, <2>1, <2>3 DEF WTypeOK, Commands
  <2> QED
    BY <2>1, <2>2, <2>4 DEF Underway, LeftBehind, Present
<1>7. CASE CommandDies
  <2>1. /\ UNCHANGED <<checkout, recorded>> /\ command' = NoCommand
        /\ command # NoCommand /\ command.name \in Names
        /\ cut' = IF command.kind = "reconcile" THEN cut
                  ELSE [cut EXCEPT ![command.name] = command.kind]
    BY <1>1, <1>7 DEF CommandDies, gitVars
  <2>2. \A w \in Names : cut'[w] = cut[w] \/ (w = command.name /\ cut'[w] = command.kind)
    BY <1>1, <2>1
  <2> QED
    BY <1>1, <2>1, <2>2 DEF Underway, LeftBehind, Present
<1>8. ASSUME NEW w \in Names, DeleteByHand(w) PROVE Underway' /\ LeftBehind'
  <2>1. /\ checkout' = [checkout EXCEPT ![w] = "gone"] /\ cut' = [cut EXCEPT ![w] = "no"]
        /\ command = NoCommand /\ UNCHANGED <<recorded, command>>
    BY <1>8 DEF DeleteByHand
  <2>2. \A v \in Names : /\ cut'[v] = IF v = w THEN "no" ELSE cut[v]
                         /\ v # w => checkout'[v] = checkout[v]
    BY <1>1, <2>1
  <2> QED
    BY <1>1, <2>1, <2>2 DEF Underway, LeftBehind, Present
<1>9. ASSUME UNCHANGED <<checkout, recorded, cut>>,
             command'.kind \in {"none", "reconcile"} \/ command' = command
      PROVE  Underway' /\ LeftBehind'
  BY <1>9 DEF Underway, LeftBehind, Present
<1>10. ASSUME NEW w \in Names,
              \/ \E sources \in SUBSET Names : ReconcileWorktrees(w, sources)
              \/ MergeSource(w) \/ MergeConflicts(w)
       PROVE  Underway' /\ LeftBehind'
  <2>1. UNCHANGED <<checkout, recorded, cut>>
    BY <1>10 DEF ReconcileWorktrees, MergeSource, MergeConflicts, gitVars
  <2>2. command'.kind \in {"none", "reconcile"}
    <3>1. CASE \E sources \in SUBSET Names : ReconcileWorktrees(w, sources)
      BY <3>1 DEF ReconcileWorktrees
    <3>2. CASE MergeSource(w) \/ MergeConflicts(w)
      BY <1>1, <3>2 DEF MergeSource, MergeConflicts, WTypeOK, Commands
    <3> QED
      BY <1>10, <3>1, <3>2
  <2> QED
    BY <1>9, <2>1, <2>2
<1>11. CASE \/ \E w \in Names : EditWork(w) \/ CommitWork(w) \/ LandBranch(w)
            \/ \E old \in SUBSET Names : PlanWorktrees(old)
            \/ UNCHANGED wVars
  <2>1. UNCHANGED <<checkout, recorded, cut, command>>
    BY <1>11 DEF EditWork, CommitWork, LandBranch, PlanWorktrees, gitVars, wVars
  <2> QED
    BY <1>9, <2>1
<1> QED
  BY <1>2, <1>3, <1>4, <1>5, <1>6, <1>7, <1>8, <1>10, <1>11 DEF WNext

\* Whatever a creation or removal that died left behind, the same command is
\* accepted again, for any number of names and of deaths.
THEOREM DeathsAreRetried == WSpec => []DeathIsRetried
<1>1. WInit => Underway /\ LeftBehind
  BY DEF WInit, Underway, LeftBehind, NoCommand
<1>2. LeftBehind => DeathIsRetried
  <2> SUFFICES ASSUME LeftBehind, NEW w \in Names
      PROVE  /\ cut[w] = "create" => (w \in recorded /\ Present(w)) \/ CreationAccepted(w)
             /\ cut[w] = "remove" => \E force \in BOOLEAN :
                    RemovalAccepted(w, force) /\ (force => ~CleanTree(w))
    BY DEF DeathIsRetried
  <2>1. cut[w] = "create" => CreationAccepted(w)
    BY DEF LeftBehind, CreationAccepted, Adoptable, Present
  <2>2. ASSUME cut[w] = "remove", CleanTree(w) PROVE RemovalAccepted(w, FALSE)
    BY <2>2 DEF LeftBehind, RemovalAccepted
  <2>3. ASSUME cut[w] = "remove" PROVE RemovalAccepted(w, TRUE)
    BY <2>3 DEF LeftBehind, RemovalAccepted
  <2> HIDE DEF RemovalAccepted, CleanTree
  <2> QED
    BY <2>1, <2>2, <2>3
<1>3. WTypeOK /\ Underway /\ LeftBehind /\ [WNext]_wVars => Underway' /\ LeftBehind'
  BY RetryNext
<1>4. KeptInv => WTypeOK
  BY DEF KeptInv
<1> QED
  BY KeptInvHolds, <1>4, <1>1, <1>2, <1>3, PTL DEF WSpec

-----------------------------------------------------------------------------
(* Best-of-N sessions                                                      *)

\* The candidate a command of `init` works on.
AtCandidate == cmd.kind = "init" /\ cmd.step \in {"claimed", "tree", "created"} => cmd.at \in Slots

\* Only one consolidation run is ever created: a command about to create one
\* has found none.
OnlyFirst ==
    /\ merging[2] = "none"
    /\ cmd.kind = "consolidate" /\ cmd.step = "next" => merging[1] = "none"

SessionInv == BTypeOK /\ AtCandidate /\ OnlyFirst

SessionCommands == [kind : {"none", "init", "consolidate"}, at : Slots \cup {NoSlot},
             step : {"none", "next", "claimed", "tree", "created"}]

LEMMA NoSessionCommand == NoCmd \in SessionCommands /\ NoCmd.kind = "none"
BY DEF NoCmd, SessionCommands

LEMMA SessionInvInit == BInit => SessionInv
<1> SUFFICES ASSUME BInit PROVE SessionInv
  OBVIOUS
<1>1. BTypeOK
  <2>1. slot \in [Slots -> {"none", "pending", "run"}] /\ run \in [Slots -> {"none", "live"} \cup Ended]
        /\ merging \in [1 .. 2 -> {"none", "live"} \cup Ended]
    BY DEF BInit
  <2>2. sessionDeaths \in 0 .. MaxSessionDeaths
    BY SessionsAssumption DEF BInit
  <2> QED
    BY <2>1, <2>2, NoSessionCommand DEF BInit, BTypeOK, SessionCommands
<1>2. AtCandidate /\ OnlyFirst
  BY DEF BInit, AtCandidate, OnlyFirst, NoCmd
<1> QED
  BY <1>1, <1>2 DEF SessionInv

\* Only one consolidation run may be found.
LEMMA FirstOrNone ==
    ASSUME SessionInv
    PROVE  Consolidations \subseteq {1} /\ (Consolidations = {} <=> merging[1] = "none")
BY DEF SessionInv, OnlyFirst, Consolidations

LEMMA ReconcileTyped ==
    ASSUME BTypeOK, Reconcile
    PROVE  /\ slot' \in [Slots -> {"none", "pending", "run"}] /\ named' \in BOOLEAN
           /\ status' \in {"none", "initializing", "ready"} /\ status' # "none"
           /\ \A s \in Slots : run[s] # "none" => slot'[s] = "run"
<1>1. Adopted \in [Slots -> {"none", "pending", "run"}]
      /\ \A s \in Slots : run[s] # "none" => Adopted[s] = "run"
  BY DEF Adopted, BTypeOK
<1> QED
  BY <1>1 DEF Reconcile, BTypeOK

LEMMA OpensKeep ==
    ASSUME SessionInv, InitSession \/ (\E s \in Slots : ClaimSlot(s)) \/ AddCandidateTree
                       \/ CreateCandidate \/ RecordCandidate \/ SessionReady
    PROVE  SessionInv'
<1>1. BTypeOK /\ cmd \in SessionCommands /\ UNCHANGED <<merging, excluded, named, prune, sessionDeaths, dirt>>
  BY DEF SessionInv, BTypeOK, SessionCommands, InitSession, ClaimSlot, AddCandidateTree,
         CreateCandidate, RecordCandidate, SessionReady
<1>2. /\ cmd' \in SessionCommands /\ (cmd'.kind # "consolidate")
      /\ cmd'.kind = "init" /\ cmd'.step \in {"claimed", "tree", "created"} => cmd'.at \in Slots
  <2>1. CASE InitSession
    BY <2>1 DEF InitSession, SessionCommands
  <2>2. CASE \E s \in Slots : ClaimSlot(s)
    BY <1>1, <2>2 DEF ClaimSlot, SessionCommands
  <2>3. CASE AddCandidateTree \/ CreateCandidate
    BY <1>1, <2>3 DEF AddCandidateTree, CreateCandidate, SessionCommands, SessionInv, AtCandidate
  <2>4. CASE RecordCandidate
    BY <1>1, <2>4 DEF RecordCandidate, SessionCommands
  <2>5. CASE SessionReady
    BY <2>5, NoSessionCommand DEF SessionReady
  <2> QED
    BY <2>1, <2>2, <2>3, <2>4, <2>5
<1>3. /\ status' \in {"none", "initializing", "ready"}
      /\ slot' \in [Slots -> {"none", "pending", "run"}]
      /\ tree' \subseteq Slots /\ tree \subseteq tree'
      /\ run' \in [Slots -> {"none", "live"} \cup Ended]
  BY <1>1 DEF SessionInv, AtCandidate, BTypeOK, InitSession, ClaimSlot, AddCandidateTree,
              CreateCandidate, RecordCandidate, SessionReady
<1>4. BTypeOK'
  BY <1>1, <1>2, <1>3 DEF BTypeOK, SessionCommands
<1> QED
  BY <1>1, <1>2, <1>4 DEF SessionInv, AtCandidate, OnlyFirst

LEMMA ConsolidatesKeep ==
    ASSUME SessionInv, Consolidate \/ CreateConsolidation \/ RecordConsolidation
    PROVE  SessionInv'
<1>1. BTypeOK /\ cmd \in SessionCommands /\ UNCHANGED <<excluded, run, tree, prune, sessionDeaths, dirt>>
  BY DEF SessionInv, BTypeOK, SessionCommands, Consolidate, CreateConsolidation, RecordConsolidation
<1>2. ASSUME Consolidate PROVE SessionInv'
  <2>1. /\ Reconcile /\ ~named' /\ merging' = merging
        /\ cmd' = [kind |-> "consolidate", at |-> NoSlot, step |-> "next"]
    BY <1>2 DEF Consolidate
  <2>2. Consolidations = {}
    BY <2>1 DEF Reconcile
  <2>3. BTypeOK'
    BY <1>1, <2>1, ReconcileTyped DEF BTypeOK, SessionCommands
  <2> QED
    BY <2>1, <2>2, <2>3, FirstOrNone DEF SessionInv, AtCandidate, OnlyFirst
<1>3. ASSUME CreateConsolidation PROVE SessionInv'
  <2>1. Consolidations = {}
    BY <1>3, FirstOrNone DEF CreateConsolidation, SessionInv, OnlyFirst
  <2>2. merging' = [merging EXCEPT ![1] = "live"]
    <3>1. PICK i \in 1 .. 2 : /\ i = Cardinality(Consolidations) + 1
                              /\ merging' = [merging EXCEPT ![i] = "live"]
      BY <1>3 DEF CreateConsolidation
    <3>2. Cardinality(Consolidations) = 0
      BY <2>1, FS_EmptySet
    <3> QED
      BY <3>1, <3>2
  <2>3. cmd' = [cmd EXCEPT !.step = "created"] /\ UNCHANGED <<status, slot, named>>
        /\ cmd.kind = "consolidate"
    BY <1>3 DEF CreateConsolidation
  <2>4. cmd' \in SessionCommands /\ cmd'.step = "created" /\ cmd'.kind = "consolidate"
    BY <1>1, <2>3 DEF SessionCommands
  <2>5. BTypeOK'
    BY <1>1, <2>2, <2>3, <2>4 DEF BTypeOK, SessionCommands
  <2> QED
    BY <1>1, <2>2, <2>4, <2>5 DEF SessionInv, AtCandidate, OnlyFirst, BTypeOK
<1>4. ASSUME RecordConsolidation PROVE SessionInv'
  <2>1. cmd' = NoCmd /\ named' = TRUE /\ UNCHANGED <<merging, status, slot>>
    BY <1>4 DEF RecordConsolidation
  <2>2. BTypeOK'
    BY <1>1, <2>1, NoSessionCommand DEF BTypeOK, SessionCommands
  <2> QED
    BY <2>1, <2>2, NoSessionCommand DEF SessionInv, AtCandidate, OnlyFirst
<1> QED
  BY <1>2, <1>3, <1>4

LEMMA SessionInvNext == SessionInv /\ [BNext]_bVars => SessionInv'
<1> SUFFICES ASSUME SessionInv, [BNext]_bVars PROVE SessionInv'
  OBVIOUS
<1>1. BTypeOK /\ OnlyFirst
  BY DEF SessionInv
<1>2. ASSUME UNCHANGED <<cmd, merging>>, BTypeOK' PROVE SessionInv'
  BY <1>2 DEF SessionInv, AtCandidate, OnlyFirst
<1>3. CASE \E s \in Slots : Abandon(s)
  <2>1. UNCHANGED <<cmd, merging, tree, dirt, run, prune, sessionDeaths>>
        /\ Reconcile /\ excluded' \subseteq Slots
    BY <1>1, <1>3 DEF Abandon, BTypeOK
  <2> QED
    BY <1>1, <1>2, <2>1, ReconcileTyped DEF BTypeOK
<1>4. CASE Clean
  <2>1. UNCHANGED <<cmd, merging, excluded, dirt, run, prune, sessionDeaths>>
        /\ Reconcile /\ tree' \subseteq Slots /\ dirt \subseteq tree'
    BY <1>1, <1>4 DEF Clean, BTypeOK
  <2> QED
    BY <1>1, <1>2, <2>1, ReconcileTyped DEF BTypeOK
<1>5. CASE ScanSessions \/ RemoveOrphans
  BY <1>1, <1>2, <1>5 DEF ScanSessions, RemoveOrphans, BTypeOK
<1>6. CASE (\E s \in Slots : Edit(s)) \/ (\E s \in Slots, o \in Ended : EndCandidate(s, o))
  BY <1>1, <1>2, <1>6 DEF Edit, EndCandidate, BTypeOK
<1>7. CASE \E i \in 1 .. 2, o \in Ended : EndConsolidation(i, o)
  <2>1. PICK i \in 1 .. 2, o \in Ended : EndConsolidation(i, o)
    BY <1>7
  <2>2. UNCHANGED <<cmd, status, slot, excluded, tree, dirt, run, named, prune, sessionDeaths>>
        /\ merging[i] = "live" /\ merging' = [merging EXCEPT ![i] = o]
    BY <2>1 DEF EndConsolidation
  <2>3. BTypeOK'
    BY <1>1, <2>2 DEF BTypeOK
  <2> QED
    BY <1>1, <2>2, <2>3 DEF SessionInv, AtCandidate, OnlyFirst, BTypeOK
<1>8. CASE CommandDied \/ CandidateRefused
  <2>1. UNCHANGED <<merging, status, slot, excluded, tree, dirt, run, named, prune>>
        /\ cmd' = NoCmd /\ sessionDeaths' \in 0 .. MaxSessionDeaths
    BY <1>1, <1>8, SessionsAssumption DEF CommandDied, CandidateRefused, BTypeOK
  <2>2. BTypeOK'
    BY <1>1, <2>1, NoSessionCommand DEF BTypeOK, SessionCommands
  <2> QED
    BY <2>1, <2>2, NoSessionCommand DEF SessionInv, AtCandidate, OnlyFirst
<1>9. CASE UNCHANGED bVars
  BY <1>1, <1>2, <1>9 DEF bVars, BTypeOK
<1> QED
  BY <1>3, <1>4, <1>5, <1>6, <1>7, <1>8, <1>9, OpensKeep, ConsolidatesKeep DEF BNext

LEMMA SessionInvHolds == BSpec => []SessionInv
<1> QED
  BY SessionInvInit, SessionInvNext, PTL DEF BSpec

\* A session has one consolidation run, for any number of candidates and of
\* commands that die between creating a run and recording it.
THEOREM ConsolidatesOnce == BSpec => []OneConsolidation
<1>1. SessionInv => OneConsolidation
  <2> SUFFICES ASSUME SessionInv PROVE Cardinality(Consolidations) <= 1
    BY DEF OneConsolidation
  <2>1. Consolidations \subseteq {1} /\ IsFiniteSet({1}) /\ Cardinality({1}) = 1
    BY FirstOrNone, FS_Singleton
  <2> QED
    BY <2>1, FS_Subset, FS_CardinalityType
<1> QED
  BY <1>1, SessionInvHolds, PTL

\* A worktree with uncommitted work is never removed, and one without only when
\* no run that counts works in it and no consolidation run reads it, or by a
\* prune that had listed the sessions before this one was written: for any
\* number of candidates, of commands that die and of prunes beside them.
THEOREM ResolvedBeforeRemoval == BSpec => RemovedWhenResolved
<1>1. ASSUME SessionInv, [BNext]_bVars, NEW s \in tree \ tree'
      PROVE  /\ s \notin dirt
             /\ \/ (run[s] # "live" \/ s \in excluded) /\ ~ConsolidationLive
                \/ prune = "unseen" /\ prune' = "none"
  <2>1. Clean \/ RemoveOrphans
    BY <1>1 DEF BNext, bVars, InitSession, AddCandidateTree, CreateCandidate, CandidateRefused,
       RecordCandidate, SessionReady, Consolidate, CreateConsolidation, RecordConsolidation,
       ScanSessions, CommandDied, ClaimSlot, Abandon, Edit, EndCandidate, EndConsolidation
  <2>2. CASE RemoveOrphans
    BY <1>1, <2>2 DEF RemoveOrphans
  <2>3. CASE Clean
    <3>1. s \in Slots /\ Reconcile /\ s \notin dirt
      BY <1>1, <2>3 DEF Clean, SessionInv, BTypeOK
    <3>2. run[s] # "live" \/ s \in excluded
      BY <1>1, <2>3, <3>1, ReconcileTyped DEF Clean, SessionInv
    <3>3. ASSUME ConsolidationLive PROVE FALSE
      <4>1. merging[1] = "live" /\ Consolidations # {}
        BY <1>1, <3>3, FirstOrNone DEF ConsolidationLive
      <4> QED
        BY <2>3, <3>1, <4>1 DEF Clean, Reconcile
    <3> QED
      BY <3>1, <3>2, <3>3
  <2> QED
    BY <2>1, <2>2, <2>3
<1>2. SessionInv /\ [BNext]_bVars =>
         \A s \in tree \ tree' :
             /\ s \notin dirt
             /\ \/ /\ run[s] # "live" \/ s \in excluded
                   /\ ~ConsolidationLive
                \/ prune = "unseen" /\ prune' = "none"
  BY <1>1
<1> QED
  BY SessionInvHolds, <1>2, PTL DEF BSpec, RemovedWhenResolved

-----------------------------------------------------------------------------
(* The alert of a scheduled job                                            *)

Decisions == [occurrence : Int, outcome : Outcomes, at : Instants]
SuccessSince(since) ==
    \E i \in DOMAIN history : history[i].outcome \in Successful /\ history[i].at >= since

TickRecords ==
    [step : {"idle", "starting", "acting", "decided", "refreshing"}, now : Instants,
     forced : BOOLEAN, read : Instants \cup {NoAlert},
     verdict : {"none", "open", "shut", "recovered", "disabled"}]

\* A tick about to close the alert it read has seen a success since that opened.
Judged ==
    \A p \in Ticks : tick[p].step = "refreshing" /\ tick[p].verdict = "recovered" =>
        SuccessSince(tick[p].read)

AlertInv ==
    /\ history \in Seq(Decisions) /\ tick \in [Ticks -> TickRecords]
    /\ alert \in Instants \cup {NoAlert} /\ instant \in Instants
    /\ Judged

LEMMA LatestIsRecorded ==
    ASSUME history \in Seq(Decisions), NEW outcomes, LatestAt(outcomes) # Never
    PROVE  \E i \in DOMAIN history : /\ history[i].outcome \in outcomes
                                    /\ history[i].at = LatestAt(outcomes)
<1> DEFINE at == {i \in DOMAIN history : history[i].outcome \in outcomes}
<1>1. at # {} /\ at \in SUBSET Nat /\ Len(history) \in Nat /\ \A m \in at : m <= Len(history)
  <2>1. at # {}
    BY DEF LatestAt
  <2>2. Len(history) \in Nat /\ DOMAIN history = 1 .. Len(history)
    OBVIOUS
  <2>3. at \in SUBSET Nat /\ \A m \in at : m <= Len(history)
    BY <2>2
  <2> QED
    BY <2>1, <2>2, <2>3
<1>2. PICK i \in at : \A j \in at : j <= i
  <2> HIDE DEF at
  <2> QED
    BY <1>1, GreatestExists
<1>3. (CHOOSE k \in at : \A j \in at : j <= k) \in at
  BY <1>2
<1>4. LatestAt(outcomes) = history[CHOOSE k \in at : \A j \in at : j <= k].at
  BY <1>1 DEF LatestAt
<1> QED
  BY <1>3, <1>4

LEMMA DecisionTyped ==
    ASSUME NEW t \in TickRecords, NEW outcome \in Outcomes
    PROVE  Decision(t, outcome) \in Decisions
<1>1. t.now \in Nat /\ Period \in Nat \ {0} /\ t.now \in Instants /\ t.forced \in BOOLEAN
  BY ScheduleAssumption DEF TickRecords, Instants
<1>2. t.now % Period \in Int
  BY <1>1
<1>3. OccurrenceOf(t) \in Int
  BY <1>1, <1>2 DEF OccurrenceOf, MostRecent
<1> QED
  BY <1>1, <1>3 DEF Decision, Decisions

\* The ledger only grows, so a success once recorded stays.
LEMMA LedgerGrows ==
    ASSUME history \in Seq(Decisions), NEW d \in Decisions, history' \in {history, Append(history, d)}
    PROVE  /\ history' \in Seq(Decisions)
           /\ \A since : SuccessSince(since) => SuccessSince(since)'
<1>1. CASE history' = history
  BY <1>1 DEF SuccessSince
<1>2. CASE history' = Append(history, d)
  <2>1. history' \in Seq(Decisions) /\ \A i \in DOMAIN history : i \in DOMAIN history' /\ history'[i] = history[i]
    BY <1>2
  <2> QED
    BY <2>1 DEF SuccessSince
<1> QED
  BY <1>1, <1>2

\* A tick that does not touch the alert, and may append a decision.
LEMMA TickKeepsAlert ==
    ASSUME AlertInv, NEW p \in Ticks, NEW v \in TickRecords, v.step # "refreshing",
           tick' = [tick EXCEPT ![p] = v], alert' = alert, instant' \in Instants,
           NEW d \in Decisions, history' \in {history, Append(history, d)}
    PROVE  AlertInv'
<1>1. history \in Seq(Decisions)
  BY DEF AlertInv
<1>2. history' \in Seq(Decisions) /\ \A since : SuccessSince(since) => SuccessSince(since)'
  BY <1>1, LedgerGrows
<1>3. \A q \in Ticks : tick'[q] = IF q = p THEN v ELSE tick[q]
  BY DEF AlertInv
<1>4. Judged'
  BY <1>2, <1>3 DEF AlertInv, Judged, SuccessSince
<1>5. tick' \in [Ticks -> TickRecords]
  BY DEF AlertInv
<1> QED
  BY <1>2, <1>4, <1>5 DEF AlertInv

LEMMA AsleepTyped == Asleep \in TickRecords /\ Asleep.step = "idle"
BY ScheduleAssumption DEF Asleep, TickRecords, Instants

LEMMA BeginKeepsAlert ==
    ASSUME AlertInv, NEW p \in Ticks, NEW forced \in BOOLEAN, NEW now \in Instants,
           BeginTick(p, forced, now)
    PROVE  AlertInv'
<1> DEFINE t == [Asleep EXCEPT !.now = now, !.forced = forced]
<1>1. t \in TickRecords
  BY AsleepTyped DEF TickRecords
<1>2. ASSUME NEW step \in {"decided", "starting"}
      PROVE  [t EXCEPT !.step = step] \in TickRecords /\ [t EXCEPT !.step = step].step = step
  BY <1>1 DEF TickRecords
<1>3. \A outcome \in Outcomes : Decision(t, outcome) \in Decisions
  BY <1>1, DecisionTyped
<1>4. \E step \in {"decided", "starting"} : tick' = [tick EXCEPT ![p] = [t EXCEPT !.step = step]]
  BY DEF BeginTick
<1>5. \E outcome \in Outcomes : history' \in {history, Append(history, Decision(t, outcome))}
  <2>1. "skipped" \in Outcomes /\ "dropped" \in Outcomes /\ "deferred" \in Outcomes
    BY DEF Outcomes, Handled
  <2>2. \A outcome : RecordOnce(t, outcome) \/ AppendDecision(Decision(t, outcome)) =>
            history' \in {history, Append(history, Decision(t, outcome))}
    BY DEF RecordOnce, AppendDecision
  <2>3. \/ RecordOnce(t, "skipped") \/ AppendDecision(Decision(t, "dropped"))
        \/ RecordOnce(t, "deferred") \/ history' = history
    BY DEF BeginTick
  <2> QED
    BY <2>1, <2>2, <2>3
<1>6. alert' = alert /\ instant' \in Instants
  BY DEF BeginTick
<1> HIDE DEF t
<1> QED
  BY <1>2, <1>3, <1>4, <1>5, <1>6, TickKeepsAlert

LEMMA ActionKeepsAlert ==
    ASSUME AlertInv, NEW p \in Ticks,
           \/ StartAction(p)
           \/ \E ok, waits \in BOOLEAN : EndAction(p, ok, waits)
           \/ \E tears \in BOOLEAN : TickKilled(p, tears)
    PROVE  AlertInv'
<1>1. tick[p] \in TickRecords
  BY DEF AlertInv
<1>2. /\ \A outcome \in Outcomes : Decision(tick[p], outcome) \in Decisions
      /\ {"failed", "fired", "caught_up"} \subseteq Outcomes
  BY <1>1, DecisionTyped DEF Outcomes, Handled, Successful
<1>3. PICK outcome \in Outcomes : history' \in {history, Append(history, Decision(tick[p], outcome))}
  <2>1. CASE \E ok, waits \in BOOLEAN : EndAction(p, ok, waits)
    <3>1. PICK outcome \in {"failed", "fired", "caught_up"} : AppendDecision(Decision(tick[p], outcome))
      BY <2>1 DEF EndAction
    <3> QED
      BY <1>2, <3>1 DEF AppendDecision
  <2>2. CASE StartAction(p) \/ \E tears \in BOOLEAN : TickKilled(p, tears)
    BY <1>2, <2>2 DEF StartAction, TickKilled
  <2> QED
    BY <2>1, <2>2
<1>4. PICK v \in TickRecords : v.step # "refreshing" /\ tick' = [tick EXCEPT ![p] = v]
  <2>1. ASSUME NEW step \in {"acting", "decided"}
        PROVE  [tick[p] EXCEPT !.step = step] \in TickRecords /\ [tick[p] EXCEPT !.step = step].step = step
    BY <1>1 DEF TickRecords
  <2>2. \/ tick' = [tick EXCEPT ![p] = [tick[p] EXCEPT !.step = "acting"]]
        \/ tick' = [tick EXCEPT ![p] = [tick[p] EXCEPT !.step = "decided"]]
        \/ tick' = [tick EXCEPT ![p] = Asleep]
    BY DEF StartAction, EndAction, TickKilled
  <2> QED
    BY <2>1, <2>2, AsleepTyped
<1>5. alert' = alert /\ instant' = instant /\ instant \in Instants
  BY DEF StartAction, EndAction, TickKilled, AlertInv
<1> QED
  BY <1>2, <1>3, <1>4, <1>5, TickKeepsAlert

\* The verdict is of the alert that was read, and one of a success recorded since.
LEMMA RefreshKeepsAlert ==
    ASSUME AlertInv, NEW p \in Ticks, RefreshAlert(p)
    PROVE  AlertInv'
<1>1. /\ tick[p] \in TickRecords /\ history \in Seq(Decisions)
      /\ UNCHANGED <<history, alert, instant>>
  BY DEF AlertInv, RefreshAlert
<1> DEFINE verdict == AlertVerdict(tick[p].now, alert)
           v == [tick[p] EXCEPT !.step = "refreshing", !.read = alert, !.verdict = verdict]
<1>2. verdict \in {"open", "shut", "recovered", "disabled"}
  BY DEF AlertVerdict
<1>3. verdict = "recovered" => SuccessSince(alert)
  <2> SUFFICES ASSUME verdict = "recovered" PROVE SuccessSince(alert)
    OBVIOUS
  <2>1. LatestAt(Successful) # Never /\ LatestAt(Successful) >= alert
    BY DEF AlertVerdict
  <2> QED
    BY <1>1, <2>1, LatestIsRecorded DEF SuccessSince
<1>4. tick' = [tick EXCEPT ![p] = v]
  BY DEF RefreshAlert
<1> HIDE DEF verdict
<1>5. v \in TickRecords /\ v.read = alert /\ v.verdict = verdict
  BY <1>1, <1>2 DEF TickRecords, AlertInv
<1> HIDE DEF v
<1>6. \A q \in Ticks : tick'[q] = IF q = p THEN v ELSE tick[q]
  BY <1>4 DEF AlertInv
<1>7. Judged'
  BY <1>1, <1>3, <1>5, <1>6 DEF AlertInv, Judged, SuccessSince
<1> QED
  BY <1>1, <1>4, <1>5, <1>7 DEF AlertInv

LEMMA WriteKeepsAlert ==
    ASSUME AlertInv, NEW p \in Ticks, WriteAlert(p)
    PROVE  AlertInv'
<1>1. /\ tick' = [tick EXCEPT ![p] = Asleep] /\ UNCHANGED <<history, instant>>
      /\ alert' \in {tick[p].now, NoAlert, tick[p].read}
  BY DEF WriteAlert
<1>2. tick[p] \in TickRecords /\ tick' \in [Ticks -> TickRecords] /\ alert' \in Instants \cup {NoAlert}
  BY <1>1, AsleepTyped DEF AlertInv, TickRecords
<1>3. \A q \in Ticks : tick'[q] = IF q = p THEN Asleep ELSE tick[q]
  BY <1>1 DEF AlertInv
<1>4. Judged'
  BY <1>1, <1>3, AsleepTyped DEF AlertInv, Judged, SuccessSince
<1> QED
  BY <1>1, <1>2, <1>4 DEF AlertInv

\* The tick that clears an alert has seen a success since that alert opened, or
\* found its job switched off, or never read that alert: for any number of
\* overlapping ticks, any period, windows, kills and torn lines.
THEOREM AlertsStand == SchSpec => AlertStands
<1>1. SchInit => AlertInv
  <2> SUFFICES ASSUME SchInit PROVE AlertInv
    OBVIOUS
  <2>1. tick \in [Ticks -> TickRecords] /\ history \in Seq(Decisions) /\ 0 \in Instants
    BY AsleepTyped, ScheduleAssumption DEF SchInit, Instants
  <2> QED
    BY <2>1, AsleepTyped DEF SchInit, AlertInv, Judged
<1>2. AlertInv /\ [SchNext]_schVars => AlertInv'
  <2> SUFFICES ASSUME AlertInv, [SchNext]_schVars PROVE AlertInv'
    OBVIOUS
  <2>1. CASE LeftRunEnds \/ SwitchJob \/ UNCHANGED schVars
    BY <2>1 DEF LeftRunEnds, SwitchJob, schVars, AlertInv, Judged, SuccessSince
  <2>2. CASE \E p \in Ticks, forced \in BOOLEAN, now \in Instants : BeginTick(p, forced, now)
    BY <2>2, BeginKeepsAlert
  <2>3. CASE \E p \in Ticks : RefreshAlert(p)
    BY <2>3, RefreshKeepsAlert
  <2>4. CASE \E p \in Ticks : WriteAlert(p)
    BY <2>4, WriteKeepsAlert
  <2>5. CASE \E p \in Ticks :
                \/ StartAction(p) \/ \E ok, waits \in BOOLEAN : EndAction(p, ok, waits)
                \/ \E tears \in BOOLEAN : TickKilled(p, tears)
    BY <2>5, ActionKeepsAlert
  <2> QED
    BY <2>1, <2>2, <2>3, <2>4, <2>5 DEF SchNext
<1>3. AlertInv /\ [SchNext]_schVars =>
         (alert # NoAlert /\ alert' = NoAlert =>
             \E p \in Ticks :
                 /\ tick[p].step = "refreshing" /\ tick'[p] = Asleep
                 /\ \/ tick[p].verdict = "disabled"
                    \/ tick[p].read # alert
                    \/ \E i \in DOMAIN history : /\ history[i].outcome \in Successful
                                                 /\ history[i].at >= alert)
  <2> SUFFICES ASSUME AlertInv, [SchNext]_schVars, alert # NoAlert, alert' = NoAlert
               PROVE  \E p \in Ticks :
                          /\ tick[p].step = "refreshing" /\ tick'[p] = Asleep
                          /\ \/ tick[p].verdict = "disabled"
                             \/ tick[p].read # alert
                             \/ SuccessSince(alert)
    BY DEF SuccessSince
  <2>1. PICK p \in Ticks : WriteAlert(p)
    BY DEF SchNext, schVars, LeftRunEnds, SwitchJob, StartAction, RefreshAlert, BeginTick,
           EndAction, TickKilled
  <2>2. tick[p].step = "refreshing" /\ tick'[p] = Asleep /\ tick[p] \in TickRecords
    BY <2>1 DEF WriteAlert, AlertInv
  <2>3. tick[p].now # NoAlert
    BY <2>2, ScheduleAssumption DEF TickRecords, Instants, NoAlert
  <2>4. tick[p].verdict \in {"recovered", "disabled"} \/ tick[p].read # alert
    BY <2>1, <2>2, <2>3 DEF WriteAlert
  <2>5. tick[p].verdict = "recovered" => SuccessSince(tick[p].read)
    BY <2>2 DEF AlertInv, Judged
  <2> QED
    BY <2>2, <2>4, <2>5
<1> QED
  BY <1>1, <1>2, <1>3, PTL DEF SchSpec, AlertStands

-----------------------------------------------------------------------------
\* Without edits the files say what HEAD does.
TreeInv(c) == ~c.edited => c.file = c.version

\* A landing knows the tip it integrated and the version above it; from then on
\* its files, and in the end its HEAD, carry that version.
LandingKnows(c, r) ==
    /\ r.step = "forward" => r.kind = "land"
    /\ r.kind = "land" =>
          /\ r.tip <= dev.advances /\ r.version \in Versions
          /\ r.tip = dev.advances => r.version = dev.version + 1
          /\ r.step \in {"integrate", "allocate", "metadata"} => ~c.edited
          /\ r.step \in {"allocate", "metadata", "commit", "index", "forward"} => c.contains = r.tip
          /\ r.step \in {"commit", "index"} => c.file = r.version
          /\ r.step = "forward" => c.version = r.version

ReleaseInv ==
    /\ RTypeOK /\ LandingsRise
    /\ \A w \in Candidates : TreeInv(candidate[w]) /\ LandingKnows(candidate[w], release[w])


CandidateRecords ==
    [contains : Nat, version : Versions, index : Indexes, top : {"work", "release", "pair"},
     edited : BOOLEAN, file : Versions, fileIndex : Indexes]
ReleaseRecords ==
    [kind : {"none", "land", "finalize"},
     step : {"none", "integrate", "allocate", "metadata", "commit", "index", "forward", "refused"},
     tip : Nat, version : 0 .. MaxVersion]
Allocations == [by : Candidates, version : Versions]

LEMMA VersionsTyped ==
    /\ Versions \subseteq Nat /\ 1 \in Versions /\ {1} \in Indexes /\ MaxVersion \in Nat
    /\ \A v \in Versions : v <= MaxVersion /\ v \in 0 .. MaxVersion /\ v # 0
    /\ \A I \in Indexes, v \in Versions : I \cup {v} \in Indexes
<1>1. /\ Versions \subseteq Nat /\ 1 \in Versions /\ MaxVersion \in Nat
      /\ \A v \in Versions : v <= MaxVersion /\ v \in 0 .. MaxVersion /\ v # 0
  BY ReleaseAssumption DEF Versions
<1>2. {1} \in Indexes
  BY <1>1 DEF Indexes
<1>3. \A I \in Indexes, v \in Versions : I \cup {v} \in Indexes
  <2> HIDE DEF Versions
  <2> QED
    BY DEF Indexes
<1> QED
  BY <1>1, <1>2, <1>3

\* What the types say of the parts.
LEMMA IndexesTyped == \A I \in Indexes : I \in SUBSET Versions /\ I # {}
BY DEF Indexes

LEMMA MaxOfVersions ==
    ASSUME NEW S \in SUBSET Versions, S # {}
    PROVE  Max(S) \in S
<1>1. S \in SUBSET Nat /\ MaxVersion \in Nat /\ \A v \in S : v <= MaxVersion
  BY VersionsTyped
<1>2. \E x \in S : \A y \in S : y <= x
  BY <1>1, GreatestExists
<1>3. PICK x \in S : \A y \in S : x >= y
  BY <1>2
<1> QED
  BY <1>3 DEF Max

LEMMA NoReleaseTyped == NoRelease \in ReleaseRecords /\ NoRelease.kind = "none" /\ NoRelease.step = "none"
BY VersionsTyped DEF NoRelease, ReleaseRecords

LEMMA ReleaseInvInit == RInit => ReleaseInv
<1> SUFFICES ASSUME RInit PROVE ReleaseInv
  OBVIOUS
<1>1. dev \in [advances : Nat, version : Versions, index : Indexes] /\ dev.version = 1 /\ dev.advances = 0
  BY VersionsTyped DEF RInit
<1>2. trunk \in [version : Versions, index : Indexes]
  BY VersionsTyped DEF RInit
<1>3. candidate \in [Candidates -> CandidateRecords]
  BY VersionsTyped DEF RInit, CandidateRecords
<1>4. release \in [Candidates -> ReleaseRecords]
  BY NoReleaseTyped DEF RInit
<1>5. landed \in Seq(Versions) /\ landed = <<>> /\ allocated \in Seq(Allocations)
  BY DEF RInit
<1>6. directs \in 0 .. MaxDirectCommits /\ releaseDeaths \in 0 .. MaxReleaseDeaths
  BY ReleaseAssumption DEF RInit
<1>7. RTypeOK
  BY <1>1, <1>2, <1>3, <1>4, <1>5, <1>6 DEF RTypeOK, CandidateRecords, ReleaseRecords, Allocations
<1>8. LandingsRise
  BY <1>5 DEF LandingsRise
<1>9. ASSUME NEW w \in Candidates PROVE TreeInv(candidate[w]) /\ LandingKnows(candidate[w], release[w])
  <2>1. ~candidate[w].edited /\ candidate[w].file = 1 /\ candidate[w].version = 1 /\ release[w] = NoRelease
    BY DEF RInit
  <2> QED
    BY <2>1, NoReleaseTyped DEF TreeInv, LandingKnows
<1> QED
  BY <1>7, <1>8, <1>9 DEF ReleaseInv

LEMMA ReleaseTypes ==
    ASSUME ReleaseInv
    PROVE  /\ dev \in [advances : Nat, version : Versions, index : Indexes]
           /\ trunk \in [version : Versions, index : Indexes]
           /\ candidate \in [Candidates -> CandidateRecords]
           /\ release \in [Candidates -> ReleaseRecords]
           /\ allocated \in Seq(Allocations) /\ landed \in Seq(Versions)
           /\ directs \in 0 .. MaxDirectCommits /\ releaseDeaths \in 0 .. MaxReleaseDeaths
BY DEF ReleaseInv, RTypeOK, CandidateRecords, ReleaseRecords, Allocations

\* A step of the command that works on worktree w.
LEMMA WorksOn ==
    ASSUME ReleaseInv, NEW w \in Candidates, NEW c \in CandidateRecords, NEW r \in ReleaseRecords,
           candidate' = [candidate EXCEPT ![w] = c], release' = [release EXCEPT ![w] = r],
           TreeInv(c), LandingKnows(c, r), allocated' \in Seq(Allocations),
           releaseDeaths' \in 0 .. MaxReleaseDeaths, UNCHANGED <<dev, trunk, landed, directs>>
    PROVE  ReleaseInv'
<1>1. RTypeOK'
  BY ReleaseTypes DEF RTypeOK, CandidateRecords, ReleaseRecords, Allocations
<1>2. LandingsRise'
  BY DEF ReleaseInv, LandingsRise
<1>3. \A u \in Candidates : /\ candidate'[u] = IF u = w THEN c ELSE candidate[u]
                            /\ release'[u] = IF u = w THEN r ELSE release[u]
  BY ReleaseTypes
<1>4. \A u \in Candidates : TreeInv(candidate'[u]) /\ LandingKnows(candidate'[u], release'[u])
  BY <1>3 DEF ReleaseInv
<1>5. \A u \in Candidates : (TreeInv(candidate[u]) /\ LandingKnows(candidate[u], release[u]))'
  BY <1>4 DEF TreeInv, LandingKnows
<1> QED
  BY <1>1, <1>2, <1>5 DEF ReleaseInv

\* A worktree without a command, and one whose command ends.
LEMMA Rests == \A c : LandingKnows(c, NoRelease)
BY NoReleaseTyped DEF LandingKnows

LEMMA PartsTyped ==
    ASSUME ReleaseInv
    PROVE  /\ dev.version \in Versions /\ dev.index \in Indexes
           /\ trunk.version \in Versions /\ trunk.index \in Indexes
           /\ dev.advances \in Nat
           /\ \A i \in DOMAIN allocated : allocated[i].version \in Versions
<1>1. \A i \in DOMAIN allocated : allocated[i] \in Allocations
  BY ReleaseTypes
<1>2. \A a \in Allocations : a.version \in Versions
  BY DEF Allocations
<1> QED
  BY <1>1, <1>2, ReleaseTypes


LEMMA AllocateKeepsRelease ==
    ASSUME ReleaseInv, NEW w \in Candidates, AllocateRelease(w) \/ AllocateLanding(w)
    PROVE  ReleaseInv'
<1>1. /\ candidate[w] \in CandidateRecords /\ release[w] \in ReleaseRecords
      /\ TreeInv(candidate[w]) /\ LandingKnows(candidate[w], release[w])
  BY ReleaseTypes DEF ReleaseInv
<1>2. UNCHANGED <<dev, trunk, candidate, landed, directs, releaseDeaths>>
  BY DEF AllocateRelease, AllocateLanding
<1>3. candidate' = [candidate EXCEPT ![w] = candidate[w]]
  BY <1>2, ReleaseTypes
<1>4. ASSUME AllocateRelease(w) PROVE ReleaseInv'
  <2> DEFINE S == SourceVersions(w) \cup {allocated[i].version : i \in DOMAIN allocated}
  <2>1. candidate[w].version \in Versions /\ candidate[w].index \in Indexes
    BY <1>1 DEF CandidateRecords
  <2>2. \A I \in Indexes : Max(I) \in Versions
    BY IndexesTyped, MaxOfVersions
  <2>3. \A i \in DOMAIN allocated : allocated[i].version \in Versions
    BY PartsTyped
  <2>4. S \in SUBSET Versions /\ S # {}
    BY <2>1, <2>2, <2>3, PartsTyped DEF SourceVersions
  <2>5. HighestSource(w) \in Versions
    BY <2>4, MaxOfVersions DEF HighestSource
  <2>6. HighestSource(w) + 1 \in Versions
    BY <1>4, <2>5, ReleaseAssumption DEF AllocateRelease, Versions
  <2>7. allocated' \in Seq(Allocations)
    BY <1>4, <2>6, ReleaseTypes DEF AllocateRelease, Allocations
  <2>8. release' = [release EXCEPT ![w] = release[w]] /\ releaseDeaths' \in 0 .. MaxReleaseDeaths
    BY <1>2, <1>4, ReleaseTypes DEF AllocateRelease
  <2> QED
    BY <1>1, <1>2, <1>3, <2>7, <2>8, WorksOn
<1>5. ASSUME AllocateLanding(w) PROVE ReleaseInv'
  <2> DEFINE r == [release[w] EXCEPT !.step = "metadata"]
  <2>1. /\ release[w].kind = "land" /\ release[w].step = "allocate"
        /\ release' = [release EXCEPT ![w] = r]
        /\ release[w].version > Max(dev.index \cup trunk.index)
        /\ allocated' = Append(allocated, [by |-> w, version |-> release[w].version])
    BY <1>5 DEF AllocateLanding, LandStep
  <2>2. dev.index \cup trunk.index \in SUBSET Versions /\ dev.index \cup trunk.index # {}
    BY PartsTyped, IndexesTyped
  <2>3. Max(dev.index \cup trunk.index) \in Versions
    BY <2>2, MaxOfVersions
  <2>4. release[w].version \in Versions
    BY <1>1, <2>1, <2>3, VersionsTyped DEF ReleaseRecords, Versions
  <2>5. allocated' \in Seq(Allocations)
    BY <2>1, <2>4, ReleaseTypes DEF Allocations
  <2>6. r \in ReleaseRecords /\ r.step = "metadata" /\ r.kind = release[w].kind
        /\ r.tip = release[w].tip /\ r.version = release[w].version
    BY <1>1 DEF ReleaseRecords
  <2> HIDE DEF r
  <2>7. LandingKnows(candidate[w], r)
    BY <1>1, <2>1, <2>6 DEF LandingKnows
  <2>8. releaseDeaths' \in 0 .. MaxReleaseDeaths
    BY <1>2, ReleaseTypes
  <2> QED
    BY <1>1, <1>2, <1>3, <2>1, <2>5, <2>6, <2>7, <2>8, WorksOn
<1> QED
  BY <1>4, <1>5

\* What the worktree itself does while no command works on it.
LEMMA TreeKeepsRelease ==
    ASSUME ReleaseInv, NEW w \in Candidates,
           PrepareVersion(w) \/ CandidateWork(w) \/ UpdateCandidate(w) \/ RestoreCandidate(w)
    PROVE  ReleaseInv'
<1>1. /\ candidate[w] \in CandidateRecords /\ TreeInv(candidate[w]) /\ release[w] = NoRelease
      /\ UNCHANGED <<dev, trunk, allocated, release, landed, directs, releaseDeaths>>
  BY ReleaseTypes DEF ReleaseInv, PrepareVersion, CandidateWork, UpdateCandidate, RestoreCandidate,
     Unused
<1>2. release' = [release EXCEPT ![w] = NoRelease] /\ NoRelease \in ReleaseRecords
      /\ allocated' \in Seq(Allocations) /\ releaseDeaths' \in 0 .. MaxReleaseDeaths
  BY <1>1, ReleaseTypes, NoReleaseTyped
<1>3. ASSUME NEW c \in CandidateRecords, TreeInv(c), candidate' = [candidate EXCEPT ![w] = c]
      PROVE  ReleaseInv'
  BY <1>1, <1>2, <1>3, Rests, WorksOn
<1>4. ASSUME PrepareVersion(w) PROVE ReleaseInv'
  <2>1. AllocationsOf(w) # {} /\ AllocationsOf(w) \subseteq DOMAIN allocated
    BY <1>4 DEF PrepareVersion, Holds, AllocationsOf
  <2>2. Max(AllocationsOf(w)) \in AllocationsOf(w)
    <3>1. AllocationsOf(w) \in SUBSET Nat /\ Len(allocated) \in Nat
          /\ \A i \in AllocationsOf(w) : i <= Len(allocated)
      BY <2>1, ReleaseTypes
    <3>2. PICK x \in AllocationsOf(w) : \A y \in AllocationsOf(w) : y <= x
      BY <2>1, <3>1, GreatestExists
    <3>3. \A y \in AllocationsOf(w) : x >= y
      BY <3>1, <3>2
    <3> QED
      BY <3>3 DEF Max
  <2>3. LatestAllocated(w) \in Versions
    BY <2>1, <2>2, PartsTyped DEF LatestAllocated
  <2> DEFINE c == [candidate[w] EXCEPT !.edited = TRUE, !.file = LatestAllocated(w)]
  <2>4. candidate' = [candidate EXCEPT ![w] = c]
    BY <1>4 DEF PrepareVersion
  <2>5. c \in CandidateRecords /\ c.edited
    BY <1>1, <2>3 DEF CandidateRecords
  <2> HIDE DEF c
  <2> QED
    BY <1>3, <2>4, <2>5 DEF TreeInv
<1>5. ASSUME CandidateWork(w) PROVE ReleaseInv'
  <2> DEFINE c == [candidate[w] EXCEPT !.top = "work"]
  <2>1. candidate' = [candidate EXCEPT ![w] = c]
    BY <1>5 DEF CandidateWork
  <2>2. /\ c \in CandidateRecords /\ c.edited = candidate[w].edited
        /\ c.file = candidate[w].file /\ c.version = candidate[w].version
    BY <1>1 DEF CandidateRecords
  <2> HIDE DEF c
  <2> QED
    BY <1>1, <1>3, <2>1, <2>2 DEF TreeInv
<1>6. ASSUME UpdateCandidate(w) PROVE ReleaseInv'
  <2> DEFINE c == [candidate[w] EXCEPT !.contains = dev.advances, !.top = "work",
                     !.version = dev.version, !.file = dev.version, !.index = dev.index,
                     !.fileIndex = dev.index]
  <2>1. candidate' = [candidate EXCEPT ![w] = c]
    BY <1>6 DEF UpdateCandidate
  <2>2. c \in CandidateRecords /\ c.file = c.version
    BY <1>1, ReleaseTypes DEF CandidateRecords
  <2> HIDE DEF c
  <2> QED
    BY <1>3, <2>1, <2>2 DEF TreeInv
<1>7. ASSUME RestoreCandidate(w) PROVE ReleaseInv'
  <2> DEFINE c == [candidate[w] EXCEPT !.edited = FALSE, !.file = candidate[w].version,
                     !.fileIndex = candidate[w].index]
  <2>1. candidate' = [candidate EXCEPT ![w] = c]
    BY <1>7 DEF RestoreCandidate
  <2>2. c \in CandidateRecords /\ c.file = c.version
    BY <1>1 DEF CandidateRecords
  <2> HIDE DEF c
  <2> QED
    BY <1>3, <2>1, <2>2 DEF TreeInv
<1> QED
  BY <1>4, <1>5, <1>6, <1>7


LEMMA FinalizeKeepsRelease ==
    ASSUME ReleaseInv, NEW w \in Candidates,
           BeginFinalize(w) \/ ReleaseCommit(w) \/ WriteIndex(w) \/ IndexCommit(w)
    PROVE  ReleaseInv'
<1> DEFINE c == candidate[w]
           r == release[w]
           Goes(step) == [r EXCEPT !.step = step]
<1>1. /\ c \in CandidateRecords /\ r \in ReleaseRecords /\ TreeInv(c) /\ LandingKnows(c, r)
      /\ UNCHANGED <<dev, trunk, allocated, landed, directs, releaseDeaths>>
      /\ allocated' \in Seq(Allocations) /\ releaseDeaths' \in 0 .. MaxReleaseDeaths
  BY ReleaseTypes DEF ReleaseInv, BeginFinalize, ReleaseCommit, WriteIndex, IndexCommit
<1>2. ASSUME NEW d \in CandidateRecords, NEW s \in ReleaseRecords, TreeInv(d), LandingKnows(d, s),
             candidate' = [candidate EXCEPT ![w] = d], release' = [release EXCEPT ![w] = s]
      PROVE  ReleaseInv'
  <2> HIDE DEF c, r
  <2> QED
    BY <1>1, <1>2, WorksOn
<1>3. candidate = [candidate EXCEPT ![w] = c] /\ release = [release EXCEPT ![w] = r]
  BY ReleaseTypes
<1>4. ASSUME NEW step \in {"commit", "index", "forward", "refused"}
      PROVE  /\ Goes(step) \in ReleaseRecords /\ Goes(step).step = step /\ Goes(step).kind = r.kind
             /\ Goes(step).tip = r.tip /\ Goes(step).version = r.version
  BY <1>1 DEF ReleaseRecords
<1>5. ASSUME NEW step \in {"forward", "refused"}, Finishes(w, step)
      PROVE  \/ r.kind = "land" /\ release' = [release EXCEPT ![w] = Goes(step)]
             \/ r.kind # "land" /\ release' = [release EXCEPT ![w] = NoRelease]
  BY <1>5 DEF Finishes
<1>6. ASSUME NEW top \in {"release", "pair"}
      PROVE  LET d == Commit(c, top) IN
             d \in CandidateRecords /\ d.file = c.file /\ d.version = c.file /\ d.contains = c.contains
  BY <1>1 DEF Commit, CandidateRecords
<1>7. \A d : LandingKnows(d, NoRelease)
  BY Rests
<1>8. ASSUME BeginFinalize(w) PROVE ReleaseInv'
  <2> DEFINE s == [NoRelease EXCEPT !.kind = "finalize", !.step = "commit"]
  <2>1. s \in ReleaseRecords /\ s.kind = "finalize" /\ s.step = "commit"
    BY NoReleaseTyped DEF ReleaseRecords
  <2>2. release' = [release EXCEPT ![w] = s] /\ candidate' = candidate
    BY <1>8 DEF BeginFinalize
  <2> HIDE DEF s
  <2>3. LandingKnows(c, s)
    BY <2>1 DEF LandingKnows
  <2> HIDE DEF c
  <2> QED
    BY <1>1, <1>2, <1>3, <2>1, <2>2, <2>3
<1>9. ASSUME ReleaseCommit(w) PROVE ReleaseInv'
  <2>1. r.step = "commit" /\ (r.kind = "land" => c.contains = r.tip /\ c.file = r.version)
    BY <1>1, <1>9 DEF ReleaseCommit, LandingKnows
  <2>2. \/ candidate' = candidate /\ Finishes(w, "refused")
        \/ candidate' = candidate /\ Finishes(w, "forward") /\ ~c.edited
        \/ /\ candidate' = [candidate EXCEPT ![w] = Commit(c, "release")]
           /\ release' = [release EXCEPT ![w] = Goes("index")]
        \/ candidate' = candidate /\ release' = [release EXCEPT ![w] = Goes("index")]
    BY <1>9 DEF ReleaseCommit, Tidy
  <2> HIDE DEF c, r, Goes
  <2>3. LandingKnows(c, Goes("refused")) /\ LandingKnows(c, Goes("index"))
    BY <1>1, <1>4, <2>1 DEF LandingKnows
  <2>4. ASSUME ~c.edited, r.kind = "land" PROVE LandingKnows(c, Goes("forward"))
    BY <1>1, <1>4, <2>1, <2>4 DEF LandingKnows, TreeInv
  <2>5. CASE candidate' = candidate /\ Finishes(w, "refused")
    BY <1>1, <1>2, <1>3, <1>4, <1>5, <1>7, <2>3, <2>5, NoReleaseTyped
  <2>6. CASE candidate' = candidate /\ Finishes(w, "forward") /\ ~c.edited
    BY <1>1, <1>2, <1>3, <1>4, <1>5, <1>7, <2>4, <2>6, NoReleaseTyped
  <2>7. CASE /\ candidate' = [candidate EXCEPT ![w] = Commit(c, "release")]
             /\ release' = [release EXCEPT ![w] = Goes("index")]
    <3>1. PICK d \in CandidateRecords : d = Commit(c, "release")
      BY <1>6
    <3>2. TreeInv(d) /\ LandingKnows(d, Goes("index"))
      BY <1>1, <1>4, <1>6, <2>1, <3>1 DEF LandingKnows, TreeInv
    <3> QED
      BY <1>2, <1>4, <2>7, <3>1, <3>2
  <2>8. CASE candidate' = candidate /\ release' = [release EXCEPT ![w] = Goes("index")]
    BY <1>1, <1>2, <1>3, <1>4, <2>3, <2>8
  <2> QED
    BY <2>2, <2>5, <2>6, <2>7, <2>8
<1>10. ASSUME WriteIndex(w) PROVE ReleaseInv'
  <2> DEFINE d == [c EXCEPT !.fileIndex = @ \cup {c.file}]
  <2>1. candidate' = [candidate EXCEPT ![w] = d] /\ release' = release /\ r.step = "index"
    BY <1>10 DEF WriteIndex
  <2>2. c.fileIndex \cup {c.file} \in Indexes
    BY <1>1, VersionsTyped DEF CandidateRecords
  <2>3. /\ d \in CandidateRecords /\ d.file = c.file /\ d.version = c.version
        /\ d.contains = c.contains /\ d.edited = c.edited
    BY <1>1, <2>2 DEF CandidateRecords
  <2> HIDE DEF d, c, r
  <2>4. TreeInv(d) /\ LandingKnows(d, r)
    BY <1>1, <2>3 DEF TreeInv, LandingKnows
  <2> QED
    BY <1>1, <1>2, <1>3, <2>1, <2>3, <2>4
<1>11. ASSUME IndexCommit(w) PROVE ReleaseInv'
  <2>1. PICK d \in CandidateRecords : /\ d = Commit(c, "pair") /\ d.file = c.file /\ d.version = c.file
                                      /\ d.contains = c.contains
    BY <1>6
  <2>2. candidate' = [candidate EXCEPT ![w] = d] /\ Finishes(w, "forward") /\ r.step = "index"
    BY <1>11, <2>1 DEF IndexCommit
  <2> HIDE DEF c, r, Goes
  <2>3. TreeInv(d) /\ (r.kind = "land" => LandingKnows(d, Goes("forward")))
    BY <1>1, <1>4, <2>1, <2>2 DEF TreeInv, LandingKnows
  <2> QED
    BY <1>2, <1>4, <1>5, <1>7, <2>2, <2>3, NoReleaseTyped
<1> QED
  BY <1>8, <1>9, <1>10, <1>11

\* The steps of a landing before the fast-forward, and its end.
LEMMA LandKeepsRelease ==
    ASSUME ReleaseInv, NEW w \in Candidates,
           BeginLanding(w) \/ Integrate(w) \/ RegenerateMetadata(w) \/ LandingRefused(w) \/ ReleaseDies(w)
    PROVE  ReleaseInv'
<1> DEFINE c == candidate[w]
           r == release[w]
           Goes(step) == [r EXCEPT !.step = step]
<1>1. /\ c \in CandidateRecords /\ r \in ReleaseRecords /\ TreeInv(c) /\ LandingKnows(c, r)
      /\ dev.advances \in Nat /\ dev.version \in Versions /\ dev.index \in Indexes
      /\ UNCHANGED <<dev, trunk, allocated, landed, directs>>
      /\ allocated' \in Seq(Allocations) /\ releaseDeaths \in 0 .. MaxReleaseDeaths
  BY ReleaseTypes, PartsTyped DEF ReleaseInv, BeginLanding, Integrate, RegenerateMetadata,
     LandingRefused, ReleaseDies
<1>2. ASSUME NEW d \in CandidateRecords, NEW s \in ReleaseRecords, TreeInv(d), LandingKnows(d, s),
             candidate' = [candidate EXCEPT ![w] = d], release' = [release EXCEPT ![w] = s],
             releaseDeaths' \in 0 .. MaxReleaseDeaths
      PROVE  ReleaseInv'
  <2> HIDE DEF c, r
  <2> QED
    BY <1>1, <1>2, WorksOn
<1>3. candidate = [candidate EXCEPT ![w] = c] /\ release = [release EXCEPT ![w] = r]
  BY ReleaseTypes
<1>4. ASSUME NEW step \in {"allocate", "commit"}
      PROVE  /\ Goes(step) \in ReleaseRecords /\ Goes(step).step = step /\ Goes(step).kind = r.kind
             /\ Goes(step).tip = r.tip /\ Goes(step).version = r.version
  BY <1>1 DEF ReleaseRecords
<1>5. ASSUME BeginLanding(w) PROVE ReleaseInv'
  <2> DEFINE s == [NoRelease EXCEPT !.kind = "land", !.step = "integrate",
                                    !.tip = dev.advances, !.version = dev.version + 1]
  <2>1. release' = [release EXCEPT ![w] = s] /\ candidate' = candidate /\ releaseDeaths' = releaseDeaths
        /\ ~c.edited /\ dev.version < MaxVersion
    BY <1>5 DEF BeginLanding, Tidy
  <2>2. dev.version + 1 \in 0 .. MaxVersion /\ dev.version + 1 \in Versions
    BY <1>1, <2>1, ReleaseAssumption DEF Versions
  <2>3. s \in ReleaseRecords /\ s.kind = "land" /\ s.step = "integrate" /\ s.tip = dev.advances
        /\ s.version = dev.version + 1
    BY <1>1, <2>2, NoReleaseTyped DEF ReleaseRecords
  <2> HIDE DEF s, c, r
  <2>4. LandingKnows(c, s)
    BY <1>1, <2>1, <2>2, <2>3 DEF LandingKnows
  <2> QED
    BY <1>1, <1>2, <1>3, <2>1, <2>3, <2>4
<1>6. ASSUME Integrate(w) PROVE ReleaseInv'
  <2> DEFINE d == [c EXCEPT !.contains = dev.advances, !.top = "work", !.version = dev.version,
                            !.file = dev.version, !.index = dev.index, !.fileIndex = dev.index]
  <2>1. /\ release' = [release EXCEPT ![w] = Goes("allocate")] /\ releaseDeaths' = releaseDeaths
        /\ r.kind = "land" /\ r.step = "integrate" /\ r.tip = dev.advances
        /\ \/ c.contains = dev.advances /\ candidate' = candidate
           \/ candidate' = [candidate EXCEPT ![w] = d]
    BY <1>6 DEF Integrate, LandStep
  <2>2. /\ d \in CandidateRecords /\ d.file = d.version /\ d.contains = dev.advances
        /\ d.edited = c.edited
    BY <1>1 DEF CandidateRecords
  <2> HIDE DEF d, c, r, Goes
  <2>3. TreeInv(d) /\ LandingKnows(d, Goes("allocate"))
    BY <1>1, <1>4, <2>1, <2>2 DEF TreeInv, LandingKnows
  <2>4. c.contains = dev.advances => LandingKnows(c, Goes("allocate"))
    BY <1>1, <1>4, <2>1 DEF LandingKnows
  <2> QED
    BY <1>1, <1>2, <1>3, <1>4, <2>1, <2>2, <2>3, <2>4
<1>7. ASSUME RegenerateMetadata(w) PROVE ReleaseInv'
  <2> DEFINE top == IF c.index = dev.index THEN c.top ELSE "work"
             d == [c EXCEPT !.index = dev.index, !.fileIndex = dev.index, !.top = top,
                            !.file = r.version, !.edited = (c.version # r.version)]
  <2>1. /\ release' = [release EXCEPT ![w] = Goes("commit")] /\ releaseDeaths' = releaseDeaths
        /\ r.kind = "land" /\ r.step = "metadata"
        /\ \/ c.version = r.version /\ candidate' = candidate
           \/ candidate' = [candidate EXCEPT ![w] = d]
    <3>1. /\ release' = [release EXCEPT ![w] = Goes("commit")] /\ releaseDeaths' = releaseDeaths
          /\ r.kind = "land" /\ r.step = "metadata"
      BY <1>7 DEF RegenerateMetadata, LandStep
    <3>2. CASE HeadIsPair(w)
      BY <1>7, <3>1, <3>2 DEF RegenerateMetadata, HeadIsPair
    <3>3. CASE ~HeadIsPair(w)
      BY <1>7, <3>1, <3>3, Zenon DEF RegenerateMetadata
    <3> QED
      BY <3>2, <3>3
  <2>2. r.tip <= dev.advances /\ ~c.edited /\ c.contains = r.tip
    BY <1>1, <2>1 DEF LandingKnows
  <2>3. ASSUME candidate' = [candidate EXCEPT ![w] = d]
        PROVE  ReleaseInv'
    <3>1. r.version \in Versions
      BY <1>1, <2>1 DEF LandingKnows
    <3>2. /\ d \in CandidateRecords /\ d.file = r.version /\ d.contains = c.contains
          /\ d.version = c.version /\ (d.edited <=> c.version # r.version)
      BY <1>1, <3>1 DEF CandidateRecords
    <3> HIDE DEF d, c, r, Goes
    <3>3. TreeInv(d) /\ LandingKnows(d, Goes("commit"))
      BY <1>1, <1>4, <2>1, <2>2, <3>2 DEF TreeInv, LandingKnows
    <3> QED
      BY <1>1, <1>2, <1>4, <2>1, <2>3, <3>2, <3>3
  <2>4. ASSUME c.version = r.version, candidate' = candidate
        PROVE  ReleaseInv'
    <3> HIDE DEF c, r, Goes
    <3>1. LandingKnows(c, Goes("commit"))
      BY <1>1, <1>4, <2>1, <2>2, <2>4 DEF LandingKnows, TreeInv
    <3> QED
      BY <1>1, <1>2, <1>3, <1>4, <2>1, <2>4, <3>1
  <2> QED
    BY <2>1, <2>3, <2>4
<1>8. ASSUME LandingRefused(w) \/ ReleaseDies(w) PROVE ReleaseInv'
  <2>1. /\ release' = [release EXCEPT ![w] = NoRelease] /\ candidate' = candidate
        /\ releaseDeaths' \in 0 .. MaxReleaseDeaths
    BY <1>1, <1>8, ReleaseAssumption DEF LandingRefused, ReleaseDies
  <2> HIDE DEF c, r
  <2> QED
    BY <1>1, <1>2, <1>3, <2>1, NoReleaseTyped, Rests
<1> QED
  BY <1>5, <1>6, <1>7, <1>8


\* pan-dev moves on: no landing has the new tip.
LEMMA TipMoves ==
    ASSUME ReleaseInv, dev'.advances = dev.advances + 1, UNCHANGED <<candidate, release>>,
           NEW w \in Candidates
    PROVE  (TreeInv(candidate[w]) /\ LandingKnows(candidate[w], release[w]))'
<1>1. dev.advances \in Nat /\ release[w].tip \in Nat
  BY PartsTyped, ReleaseTypes DEF ReleaseRecords
<1>2. TreeInv(candidate[w]) /\ LandingKnows(candidate[w], release[w])
  BY DEF ReleaseInv
<1>3. release[w].tip <= dev.advances => release[w].tip <= dev'.advances /\ release[w].tip # dev'.advances
  BY <1>1
<1> QED
  BY <1>2, <1>3 DEF TreeInv, LandingKnows

\* The landing that fast-forwards has the tip, so its version is the next one.
LEMMA FastForwardKeepsRelease ==
    ASSUME ReleaseInv, NEW w \in Candidates, FastForward(w)
    PROVE  ReleaseInv'
<1> DEFINE c == candidate[w]
           r == release[w]
           d == [c EXCEPT !.contains = dev.advances + 1]
<1>1. /\ c \in CandidateRecords /\ r \in ReleaseRecords /\ TreeInv(c) /\ LandingKnows(c, r)
      /\ dev.advances \in Nat /\ dev.version \in Versions /\ landed \in Seq(Versions)
  BY ReleaseTypes, PartsTyped DEF ReleaseInv
<1>2. /\ r.step = "forward" /\ c.contains = dev.advances
      /\ dev' = [advances |-> dev.advances + 1, version |-> c.version, index |-> c.index]
      /\ candidate' = [candidate EXCEPT ![w] = d]
      /\ landed' = Append(landed, r.version) /\ release' = [release EXCEPT ![w] = NoRelease]
      /\ UNCHANGED <<trunk, allocated, directs, releaseDeaths>>
  BY DEF FastForward
<1>3. r.version = dev.version + 1 /\ c.version = r.version /\ r.version \in Versions
  BY <1>1, <1>2 DEF LandingKnows
<1>4. /\ d \in CandidateRecords /\ d.edited = c.edited /\ d.file = c.file /\ d.version = c.version
      /\ c.version \in Versions /\ c.index \in Indexes
  BY <1>1 DEF CandidateRecords
<1>5. dev' \in [advances : Nat, version : Versions, index : Indexes] /\ dev'.version = c.version
      /\ dev'.advances = dev.advances + 1
  BY <1>1, <1>2, <1>4
<1> HIDE DEF c, r, d
<1>6. RTypeOK'
  <2>1. /\ candidate' \in [Candidates -> CandidateRecords] /\ release' \in [Candidates -> ReleaseRecords]
        /\ landed' \in Seq(Versions)
    BY <1>1, <1>2, <1>3, <1>4, ReleaseTypes, NoReleaseTyped
  <2> QED
    BY <1>2, <1>5, <2>1, ReleaseTypes DEF RTypeOK, CandidateRecords, ReleaseRecords, Allocations
<1>7. LandingsRise'
  <2>1. Len(landed) \in Nat /\ Len(landed') = Len(landed) + 1 /\ landed'[Len(landed')] = r.version
        /\ \A i \in 1 .. Len(landed) : landed'[i] = landed[i]
    BY <1>1, <1>2, <1>3
  <2>2. landed # <<>> => landed[Len(landed)] = dev.version /\ Len(landed) > 0
    BY <1>1 DEF ReleaseInv, LandingsRise, Last
  <2>3. ASSUME NEW i \in DOMAIN landed', i > 1 PROVE landed'[i] > landed'[i - 1]
    <3>1. i \in 1 .. Len(landed) + 1
      BY <1>1, <1>2, <1>3
    <3>2. CASE i <= Len(landed)
      <4>1. i \in DOMAIN landed /\ i - 1 \in 1 .. Len(landed) /\ i \in 1 .. Len(landed)
        BY <1>1, <2>1, <2>3, <3>1, <3>2
      <4>2. landed[i] > landed[i - 1]
        BY <2>3, <4>1 DEF ReleaseInv, LandingsRise
      <4> QED
        BY <2>1, <4>1, <4>2
    <3>3. CASE i = Len(landed) + 1
      <4>1. i - 1 = Len(landed) /\ Len(landed) \in 1 .. Len(landed) /\ landed # <<>>
        BY <1>1, <2>1, <2>3, <3>3
      <4>2. landed'[i - 1] = dev.version /\ landed'[i] = dev.version + 1
        BY <1>3, <2>1, <2>2, <3>3, <4>1
      <4>3. dev.version \in Nat
        BY <1>1, VersionsTyped
      <4> QED
        BY <4>2, <4>3
    <3> QED
      BY <2>1, <3>1, <3>2, <3>3
  <2>4. dev'.version = Last(landed')
    BY <1>3, <1>5, <2>1 DEF Last
  <2> QED
    BY <2>3, <2>4 DEF LandingsRise
<1>8. ASSUME NEW u \in Candidates
      PROVE  (TreeInv(candidate[u]) /\ LandingKnows(candidate[u], release[u]))'
  <2>1. CASE u = w
    <3>1. candidate'[u] = d /\ release'[u] = NoRelease
      BY <1>2, <2>1, ReleaseTypes
    <3> QED
      BY <1>1, <1>4, <3>1, NoReleaseTyped DEF TreeInv, LandingKnows
  <2>2. CASE u # w
    <3>1. candidate'[u] = candidate[u] /\ release'[u] = release[u]
      BY <1>2, <2>2, ReleaseTypes
    <3>2. TreeInv(candidate[u]) /\ LandingKnows(candidate[u], release[u]) /\ release[u].tip \in Nat
      BY ReleaseTypes DEF ReleaseInv, ReleaseRecords
    <3>3. release[u].tip <= dev.advances =>
              release[u].tip <= dev'.advances /\ release[u].tip # dev'.advances
      BY <1>1, <1>5, <3>2
    <3> QED
      BY <3>1, <3>2, <3>3 DEF TreeInv, LandingKnows
  <2> QED
    BY <2>1, <2>2
<1> QED
  BY <1>6, <1>7, <1>8 DEF ReleaseInv

LEMMA ReleaseInvNext == ReleaseInv /\ [RNext]_rVars => ReleaseInv'
<1> SUFFICES ASSUME ReleaseInv, [RNext]_rVars PROVE ReleaseInv'
  OBVIOUS
<1>1. CASE DirectCommit
  <2>1. /\ dev' = [dev EXCEPT !.advances = @ + 1] /\ directs' \in 0 .. MaxDirectCommits
        /\ UNCHANGED <<trunk, landed, candidate, allocated, release, releaseDeaths>>
    BY <1>1, ReleaseTypes, ReleaseAssumption DEF DirectCommit
  <2>2. dev' \in [advances : Nat, version : Versions, index : Indexes]
        /\ dev'.advances = dev.advances + 1 /\ dev'.version = dev.version
    BY <2>1, ReleaseTypes
  <2>3. RTypeOK' /\ LandingsRise'
    BY <2>1, <2>2, ReleaseTypes DEF RTypeOK, CandidateRecords, ReleaseRecords, Allocations,
       ReleaseInv, LandingsRise
  <2>4. \A w \in Candidates : (TreeInv(candidate[w]) /\ LandingKnows(candidate[w], release[w]))'
    BY <2>1, <2>2, TipMoves
  <2> QED
    BY <2>3, <2>4 DEF ReleaseInv
<1>2. CASE PromoteTrunk \/ UNCHANGED rVars
  <2>1. UNCHANGED <<dev, landed, candidate, allocated, release, directs, releaseDeaths>>
        /\ trunk' \in [version : Versions, index : Indexes]
    BY <1>2, ReleaseTypes, PartsTyped DEF PromoteTrunk, rVars
  <2>2. RTypeOK' /\ LandingsRise'
    BY <2>1, ReleaseTypes DEF RTypeOK, CandidateRecords, ReleaseRecords, Allocations,
       ReleaseInv, LandingsRise
  <2> QED
    BY <2>1, <2>2 DEF ReleaseInv, TreeInv, LandingKnows
<1>3. ASSUME NEW w \in Candidates,
             \/ AllocateRelease(w) \/ PrepareVersion(w)
             \/ BeginFinalize(w) \/ ReleaseCommit(w) \/ WriteIndex(w) \/ IndexCommit(w)
             \/ BeginLanding(w) \/ Integrate(w) \/ AllocateLanding(w)
             \/ RegenerateMetadata(w) \/ FastForward(w) \/ LandingRefused(w)
             \/ CandidateWork(w) \/ UpdateCandidate(w) \/ RestoreCandidate(w)
             \/ ReleaseDies(w)
      PROVE  ReleaseInv'
  BY <1>3, AllocateKeepsRelease, TreeKeepsRelease, FinalizeKeepsRelease, LandKeepsRelease,
     FastForwardKeepsRelease
<1> QED
  BY <1>1, <1>2, <1>3 DEF RNext

\* The versions landed rise, and pan-dev carries the last of them, for any number
\* of worktrees, direct commits, half-finished trees and deaths.
THEOREM VersionsRise == RSpec => []LandingsRise
<1>1. ReleaseInv => LandingsRise
  BY DEF ReleaseInv
<1> QED
  BY <1>1, ReleaseInvInit, ReleaseInvNext, PTL DEF RSpec
=============================================================================
