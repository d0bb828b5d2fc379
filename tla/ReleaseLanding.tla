--------------------------- MODULE ReleaseLanding ---------------------------
(***************************************************************************)
(* Releases of candidate worktrees onto pan-dev.  A worktree is handed a   *)
(* version from the allocation ledger, may finalize it as a release commit *)
(* and an index commit, and lands: under the landing mutex the tip is      *)
(* merged, the landing version is the next one above the tip, metadata is  *)
(* regenerated, the pair is finalized and pan-dev is fast-forwarded.  Any  *)
(* command may die between two of these steps, and the tree stays as it    *)
(* was left.  Versions are the naturals, with one kind of bump.            *)
(***************************************************************************)
EXTENDS Naturals, Sequences, SequencesExt, FiniteSets, FiniteSetsExt

CONSTANTS
    Candidates,        \* release worktrees
    MaxVersion,        \* bound: versions handed out
    MaxAllocations,    \* bound: entries of the allocation ledger
    MaxDirectCommits,  \* bound: commits made on pan-dev itself
    MaxReleaseDeaths   \* bound: release commands that die

ASSUME ReleaseAssumption ==
    /\ MaxVersion \in Nat \ {0} /\ MaxAllocations \in Nat
    /\ MaxDirectCommits \in Nat /\ MaxReleaseDeaths \in Nat

VARIABLES
    dev,       \* pan-dev: its number of advances, VERSION and release index
    trunk,     \* the default branch: VERSION and release index
    landed,    \* the versions landed, in order
    candidate, \* per worktree: HEAD, working files, the tip it contains
    allocated, \* the allocation ledger
    release,   \* per worktree the command that works on it
    directs, releaseDeaths

rVars == <<dev, trunk, landed, candidate, allocated, release, directs, releaseDeaths>>

Versions == 1 .. MaxVersion
\* A release index is never empty: it starts with the first release.
Indexes == (SUBSET Versions) \ {{}}
NoRelease == [kind |-> "none", step |-> "none", tip |-> 0, version |-> 0]

RTypeOK ==
    /\ dev \in [advances : Nat, version : Versions, index : Indexes]
    /\ trunk \in [version : Versions, index : Indexes]
    /\ landed \in Seq(Versions)
    /\ candidate \in [Candidates ->
          [contains : Nat, version : Versions, index : Indexes,
           top : {"work", "release", "pair"},
           edited : BOOLEAN, file : Versions, fileIndex : Indexes]]
    /\ allocated \in Seq([by : Candidates, version : Versions])
    /\ release \in [Candidates ->
          [kind : {"none", "land", "finalize"},
           step : {"none", "integrate", "allocate", "metadata", "commit", "index", "forward", "refused"},
           tip : Nat, version : 0 .. MaxVersion]]
    /\ directs \in 0 .. MaxDirectCommits /\ releaseDeaths \in 0 .. MaxReleaseDeaths

RInit ==
    /\ dev = [advances |-> 0, version |-> 1, index |-> {1}]
    /\ trunk = [version |-> 1, index |-> {1}]
    /\ landed = <<>>
    /\ candidate = [w \in Candidates |->
          [contains |-> 0, version |-> 1, index |-> {1}, top |-> "work",
           edited |-> FALSE, file |-> 1, fileIndex |-> {1}]]
    /\ allocated = <<>>
    /\ release = [w \in Candidates |-> NoRelease]
    /\ directs = 0 /\ releaseDeaths = 0

Tidy(w) == ~candidate[w].edited /\ candidate[w].fileIndex = candidate[w].index
Unused(w) == release[w] = NoRelease
Commit(c, top) ==
    [c EXCEPT !.version = c.file, !.index = c.fileIndex, !.edited = FALSE, !.top = top]

-----------------------------------------------------------------------------
(* The allocation ledger                                                   *)

AllocationsOf(w) == {i \in DOMAIN allocated : allocated[i].by = w}
LatestAllocated(w) == allocated[Max(AllocationsOf(w))].version
AllocatedTo(w, v) == \E i \in DOMAIN allocated : allocated[i] = [by |-> w, version |-> v]

\* versionSources without the ledger: of every index only its highest entry.
SourceVersions(w) ==
    {candidate[w].version, Max(candidate[w].index), dev.version, Max(dev.index),
     trunk.version, Max(trunk.index)}

\* heldAllocation
Holds(w) == AllocationsOf(w) # {} /\ LatestAllocated(w) \notin SourceVersions(w)

HighestSource(w) == Max(SourceVersions(w) \cup {allocated[i].version : i \in DOMAIN allocated})

\* allocateReleaseVersion under the allocation mutex.
AllocateRelease(w) ==
    /\ Unused(w) /\ ~Holds(w) /\ HighestSource(w) < MaxVersion
    /\ Len(allocated) < MaxAllocations
    /\ allocated' = Append(allocated, [by |-> w, version |-> HighestSource(w) + 1])
    /\ UNCHANGED <<dev, trunk, landed, candidate, release, directs, releaseDeaths>>

\* The ship stage prepares the version it is handed.
PrepareVersion(w) ==
    /\ Unused(w) /\ Tidy(w) /\ Holds(w)
    /\ candidate' = [candidate EXCEPT ![w].edited = TRUE, ![w].file = LatestAllocated(w)]
    /\ UNCHANGED <<dev, trunk, landed, allocated, release, directs, releaseDeaths>>

-----------------------------------------------------------------------------
(* finalizeLocalRelease                                                    *)

BeginFinalize(w) ==
    /\ Unused(w) /\ ~(Tidy(w) /\ candidate[w].top = "pair")
    /\ release' = [release EXCEPT ![w] = [NoRelease EXCEPT !.kind = "finalize", !.step = "commit"]]
    /\ UNCHANGED <<dev, trunk, landed, candidate, allocated, directs, releaseDeaths>>

VersionTaken(v) == dev.version = v \/ trunk.version = v

MayFinalize(w) == ~VersionTaken(candidate[w].file) /\ AllocatedTo(w, candidate[w].file)

Finishes(w, step) ==
    release' = [release EXCEPT ![w] = IF @.kind = "land" THEN [@ EXCEPT !.step = step]
                                      ELSE NoRelease]

\* The release commit, or the one a dead command left; a complete pair is
\* returned as it is, unless its metadata is dirty again.
ReleaseCommit(w) ==
    /\ release[w].step = "commit"
    /\ IF ~MayFinalize(w) THEN Finishes(w, "refused") /\ UNCHANGED candidate
       ELSE LET c == candidate[w]
                indexed == [c EXCEPT !.fileIndex = @ \cup {c.file}]
                goes(step) == release' = [release EXCEPT ![w].step = step]
            IN
            CASE c.top = "pair" /\ Tidy(w) -> Finishes(w, "forward") /\ UNCHANGED candidate
              [] c.top = "pair" /\ ~Tidy(w) /\ c.file = c.version ->
                    Finishes(w, "refused") /\ UNCHANGED candidate
              [] c.edited /\ c.fileIndex = c.index ->
                    goes("index") /\ candidate' = [candidate EXCEPT ![w] = Commit(c, "release")]
              [] ~c.edited /\ c.top = "release" /\ c.fileIndex \in {c.index, c.index \cup {c.file}} ->
                    goes("index") /\ UNCHANGED candidate
              [] OTHER -> Finishes(w, "refused") /\ UNCHANGED candidate
    /\ UNCHANGED <<dev, trunk, landed, allocated, directs, releaseDeaths>>

WriteIndex(w) ==
    /\ release[w].step = "index" /\ candidate[w].file \notin candidate[w].fileIndex
    /\ candidate' = [candidate EXCEPT ![w].fileIndex = @ \cup {candidate[w].file}]
    /\ UNCHANGED <<dev, trunk, landed, allocated, release, directs, releaseDeaths>>

IndexCommit(w) ==
    /\ release[w].step = "index" /\ candidate[w].file \in candidate[w].fileIndex
    /\ candidate' = [candidate EXCEPT ![w] = Commit(@, "pair")]
    /\ Finishes(w, "forward")
    /\ UNCHANGED <<dev, trunk, landed, allocated, directs, releaseDeaths>>

-----------------------------------------------------------------------------
(* landRelease, under the landing mutex (LandingMutex.tla)                 *)

LandStep(w, from, to) ==
    /\ release[w].kind = "land" /\ release[w].step = from
    /\ release' = [release EXCEPT ![w].step = to]

BeginLanding(w) ==
    /\ Unused(w) /\ \A u \in Candidates : release[u].kind # "land"
    /\ Tidy(w) /\ dev.version < MaxVersion /\ Len(allocated) < MaxAllocations
    /\ release' = [release EXCEPT ![w] = [NoRelease EXCEPT !.kind = "land",
                      !.step = "integrate", !.tip = dev.advances, !.version = dev.version + 1]]
    /\ UNCHANGED <<dev, trunk, landed, candidate, allocated, directs, releaseDeaths>>

\* integrateCandidate takes every metadata path from the tip; the tip it read
\* may have moved since.
Integrate(w) ==
    /\ LandStep(w, "integrate", "allocate")
    /\ release[w].tip = dev.advances
    /\ candidate' = IF candidate[w].contains = dev.advances THEN candidate
                    ELSE [candidate EXCEPT ![w] =
                            [@ EXCEPT !.contains = dev.advances, !.top = "work",
                                      !.version = dev.version, !.file = dev.version,
                                      !.index = dev.index, !.fileIndex = dev.index]]
    /\ UNCHANGED <<dev, trunk, landed, allocated, directs, releaseDeaths>>

\* allocateLandingVersion: the next version above the tip, whatever the ledger
\* handed to others.
AllocateLanding(w) ==
    /\ LandStep(w, "allocate", "metadata")
    /\ Len(allocated) < MaxAllocations
    /\ release[w].version > Max(dev.index \cup trunk.index)
    /\ allocated' = Append(allocated, [by |-> w, version |-> release[w].version])
    /\ UNCHANGED <<dev, trunk, landed, candidate, directs, releaseDeaths>>

(* Mutant: any complete pair at HEAD is reused. *)
MutantHeadIsPair(w) == candidate[w].top = "pair"

HeadIsPair(w) ==
    candidate[w].top = "pair" /\ candidate[w].version = release[w].version

\* regenerateMetadata first restores the tip's index in a commit of its own.
RegenerateMetadata(w) ==
    /\ LandStep(w, "metadata", "commit")
    /\ candidate' =
          IF HeadIsPair(w) THEN candidate
          ELSE [candidate EXCEPT ![w] =
                  [@ EXCEPT !.index = dev.index, !.fileIndex = dev.index,
                            !.top = IF candidate[w].index = dev.index THEN candidate[w].top
                                    ELSE "work",
                            !.file = release[w].version,
                            !.edited = (candidate[w].version # release[w].version)]]
    /\ UNCHANGED <<dev, trunk, landed, allocated, directs, releaseDeaths>>

\* fastForwardPanDev succeeds only on the tip the candidate contains.
FastForward(w) ==
    /\ release[w].step = "forward"
    /\ candidate[w].contains = dev.advances
    /\ dev' = [advances |-> dev.advances + 1, version |-> candidate[w].version,
               index |-> candidate[w].index]
    /\ candidate' = [candidate EXCEPT ![w].contains = dev.advances + 1]
    /\ landed' = Append(landed, release[w].version)
    /\ release' = [release EXCEPT ![w] = NoRelease]
    /\ UNCHANGED <<trunk, allocated, directs, releaseDeaths>>

\* Every refusal releases the mutex and leaves the tree as it is.
LandingRefused(w) ==
    /\ release[w].kind = "land"
    /\ \/ release[w].step = "refused"
       \/ release[w].step = "integrate" /\ release[w].tip # dev.advances
       \/ release[w].step = "allocate" /\ release[w].version <= Max(dev.index \cup trunk.index)
       \/ release[w].step = "forward" /\ candidate[w].contains # dev.advances
    /\ release' = [release EXCEPT ![w] = NoRelease]
    /\ UNCHANGED <<dev, trunk, landed, candidate, allocated, directs, releaseDeaths>>

-----------------------------------------------------------------------------
(* The worktree's own work, the branches, deaths                           *)

CandidateWork(w) ==
    /\ Unused(w) /\ Tidy(w) /\ candidate[w].top # "work"
    /\ candidate' = [candidate EXCEPT ![w].top = "work"]
    /\ UNCHANGED <<dev, trunk, landed, allocated, release, directs, releaseDeaths>>

\* The worktree is brought up to the tip for its next candidate.
UpdateCandidate(w) ==
    /\ Unused(w) /\ Tidy(w) /\ candidate[w].contains < dev.advances
    /\ candidate' = [candidate EXCEPT ![w] =
          [@ EXCEPT !.contains = dev.advances, !.top = "work", !.version = dev.version,
                    !.file = dev.version, !.index = dev.index, !.fileIndex = dev.index]]
    /\ UNCHANGED <<dev, trunk, landed, allocated, release, directs, releaseDeaths>>

\* The operator discards what a dead command left in the tree.
RestoreCandidate(w) ==
    /\ Unused(w) /\ ~Tidy(w)
    /\ candidate' = [candidate EXCEPT ![w].edited = FALSE, ![w].file = candidate[w].version,
                                      ![w].fileIndex = candidate[w].index]
    /\ UNCHANGED <<dev, trunk, landed, allocated, release, directs, releaseDeaths>>

DirectCommit ==
    /\ directs < MaxDirectCommits /\ directs' = directs + 1
    /\ dev' = [dev EXCEPT !.advances = @ + 1]
    /\ UNCHANGED <<trunk, landed, candidate, allocated, release, releaseDeaths>>

PromoteTrunk ==
    /\ trunk' = [version |-> dev.version, index |-> dev.index]
    /\ UNCHANGED <<dev, landed, candidate, allocated, release, directs, releaseDeaths>>

ReleaseDies(w) ==
    /\ ~Unused(w) /\ releaseDeaths < MaxReleaseDeaths
    /\ release' = [release EXCEPT ![w] = NoRelease]
    /\ releaseDeaths' = releaseDeaths + 1
    /\ UNCHANGED <<dev, trunk, landed, candidate, allocated, directs>>

RNext ==
    \/ DirectCommit \/ PromoteTrunk
    \/ \E w \in Candidates :
          \/ AllocateRelease(w) \/ PrepareVersion(w)
          \/ BeginFinalize(w) \/ ReleaseCommit(w) \/ WriteIndex(w) \/ IndexCommit(w)
          \/ BeginLanding(w) \/ Integrate(w) \/ AllocateLanding(w)
          \/ RegenerateMetadata(w) \/ FastForward(w) \/ LandingRefused(w)
          \/ CandidateWork(w) \/ UpdateCandidate(w) \/ RestoreCandidate(w)
          \/ ReleaseDies(w)

RSpec == RInit /\ [][RNext]_rVars

-----------------------------------------------------------------------------
(* Properties                                                              *)

\* A landing publishes the version it allocated, above all before it, whatever
\* the tree was left with and whoever moved pan-dev meanwhile.
LandingsRise ==
    /\ \A i \in DOMAIN landed : i > 1 => landed[i] > landed[i - 1]
    /\ landed # <<>> => dev.version = Last(landed)

\* allocateReleaseVersion: a version is handed out again only to the worktree
\* that holds it, and "a release that already landed frees the worktree".
AllocationIsFresh ==
    \A w \in Candidates : Holds(w) => LatestAllocated(w) \notin dev.index
=============================================================================
