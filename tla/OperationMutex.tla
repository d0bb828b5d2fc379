---------------------------- MODULE OperationMutex ----------------------------
(***************************************************************************)
(* The mutex file every command on a run holds while it changes the run:   *)
(* src/lib/io.ts.  The file names its owner.  It is published with a hard  *)
(* link, so it is never seen half-written; it is removed when its owner is *)
(* done; and whoever finds its owner dead removes it as stale, a reader of *)
(* the state as well.  Finding out takes several calls of the file system, *)
(* which other processes run between.                                      *)
(*                                                                         *)
(* A process is named by its pid; a pid is not reused.                     *)
(***************************************************************************)
EXTENDS Naturals, FiniteSets

CONSTANTS
    Procs,      \* the processes that work on one run
    Nobody,     \* no owner
    MaxDead     \* bound: processes that die on the way

ASSUME MutexAssumption == Nobody \notin Procs /\ MaxDead \in Nat

VARIABLES
    file,   \* the owner the mutex file names, or Nobody when there is none
    phase,  \* where a process is
    owner,  \* the owner a process read, Nobody when it could read none
    swept   \* the process removed a stale mutex for this acquisition already

mutexVars == <<file, phase, owner, swept>>

(* "looking", "reading" and "judging" are clearStaleOperationMutex; a       *)
(* process that only reads the state does it under the same names with a    *)
(* trailing 0.                                                             *)
Acquiring == {"linking", "looking", "reading", "judging", "refused"}
Probing == {"looking0", "reading0", "judging0"}
Phases == {"idle", "holding", "dead"} \cup Acquiring \cup Probing

Alive(p) == phase[p] # "dead"
Dead == {p \in Procs : ~Alive(p)}
Holders == {p \in Procs : phase[p] = "holding"}

Goto(p, next) == phase' = [phase EXCEPT ![p] = next]

MutexInit ==
    /\ file = Nobody
    /\ phase = [p \in Procs |-> "idle"]
    /\ owner = [p \in Procs |-> Nobody]
    /\ swept = [p \in Procs |-> FALSE]

-----------------------------------------------------------------------------
(* withOperationMutex                                                      *)

Start(p) ==
    /\ phase[p] = "idle"
    /\ Goto(p, "linking")
    /\ swept' = [swept EXCEPT ![p] = FALSE]
    /\ UNCHANGED <<file, owner>>

(* Mutant: the candidate is renamed over the mutex. *)
MutantLink(p) ==
    /\ phase[p] = "linking"
    /\ Goto(p, "holding")
    /\ file' = p
    /\ UNCHANGED <<owner, swept>>

Link(p) ==
    /\ phase[p] = "linking"
    /\ file = Nobody
    /\ Goto(p, "holding")
    /\ file' = p
    /\ UNCHANGED <<owner, swept>>

(* The link failed: one stale mutex is cleared for an acquisition.         *)
Contend(p) ==
    /\ phase[p] = "linking"
    /\ file # Nobody
    /\ Goto(p, IF swept[p] THEN "refused" ELSE "looking")
    /\ UNCHANGED <<file, owner, swept>>

(* A caller that waits for the holder tries again until its deadline.      *)
Retry(p) ==
    /\ phase[p] = "refused"
    /\ Goto(p, "linking")
    /\ UNCHANGED <<file, owner, swept>>

(* RUN_OPERATION_IN_PROGRESS                                               *)
Refuse(p) ==
    /\ phase[p] = "refused"
    /\ Goto(p, "idle")
    /\ UNCHANGED <<file, owner, swept>>

(* The callback returned or threw: the file goes, whoever it names.        *)
Release(p) ==
    /\ phase[p] = "holding"
    /\ Goto(p, "idle")
    /\ file' = Nobody
    /\ UNCHANGED <<owner, swept>>

-----------------------------------------------------------------------------
(* clearStaleOperationMutex                                                *)

(* loadState of a command that takes no mutex probes it too.               *)
Probe(p) ==
    /\ phase[p] = "idle"
    /\ Goto(p, "looking0")
    /\ UNCHANGED <<file, owner, swept>>

Look(p) ==
    /\ phase[p] \in {"looking", "looking0"}
    /\ Goto(p, IF phase[p] = "looking"
                THEN IF file = Nobody THEN "refused" ELSE "reading"
                ELSE IF file = Nobody THEN "idle" ELSE "reading0")
    /\ UNCHANGED <<file, owner, swept>>

Read(p) ==
    /\ phase[p] \in {"reading", "reading0"}
    /\ owner' = [owner EXCEPT ![p] = file]
    /\ Goto(p, IF phase[p] = "reading0" THEN "judging0" ELSE "judging")
    /\ UNCHANGED <<file, swept>>

(* processIsAlive: an owner that could not be read is not alive.           *)
JudgedLive(p) == owner[p] # Nobody /\ Alive(owner[p])

Spare(p) ==
    /\ phase[p] \in {"judging", "judging0"}
    /\ JudgedLive(p)
    /\ Goto(p, IF phase[p] = "judging0" THEN "idle" ELSE "refused")
    /\ owner' = [owner EXCEPT ![p] = Nobody]
    /\ UNCHANGED <<file, swept>>

Sweep(p) ==
    /\ phase[p] \in {"judging", "judging0"}
    /\ ~JudgedLive(p)
    /\ Goto(p, IF phase[p] = "judging0" THEN "idle" ELSE "linking")
    /\ file' = Nobody
    /\ swept' = [swept EXCEPT ![p] = phase[p] = "judging"]
    /\ owner' = [owner EXCEPT ![p] = Nobody]

(* The file a process is about to remove names a live owner by now.        *)
SweepsLiveOwner(p) == file # Nobody /\ Alive(file)

-----------------------------------------------------------------------------
Die(p) ==
    /\ phase[p] \notin {"idle", "dead"}
    /\ Cardinality(Dead) < MaxDead
    /\ Goto(p, "dead")
    /\ UNCHANGED <<file, owner, swept>>

Acquire(p) ==
    \/ Start(p)
    \/ Link(p)
    \/ Contend(p)
    \/ Retry(p)
    \/ Refuse(p)

(* Every step but the removal of a mutex.                                  *)
MutexStep(p) ==
    Acquire(p) \/ Probe(p) \/ Look(p) \/ Read(p) \/ Spare(p)

MutexNext == \E p \in Procs : MutexStep(p) \/ Sweep(p) \/ Release(p) \/ Die(p)

MutexSpec == MutexInit /\ [][MutexNext]_mutexVars

(* The schedules in which a removal only ever hits the mutex of a dead     *)
(* owner.  Nothing in the code forces a schedule to be one of them.        *)
OrderlySweep(p) == Sweep(p) /\ ~SweepsLiveOwner(p)

-----------------------------------------------------------------------------
MutexTypeOK ==
    /\ file \in Procs \cup {Nobody}
    /\ phase \in [Procs -> Phases]
    /\ owner \in [Procs -> Procs \cup {Nobody}]
    /\ swept \in [Procs -> BOOLEAN]

(* "State changes occur under a per-run exclusive file lock": two processes *)
(* are never in the callback of withOperationMutex at once.                *)
Exclusive == \A p, q \in Holders : p = q

(* The file names the process in the callback, so nobody else can publish  *)
(* one and the removal at the end of a callback removes its own.           *)
HolderOwnsFile == \A p \in Holders : file = p
=============================================================================
