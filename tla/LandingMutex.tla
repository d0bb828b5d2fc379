----------------------------- MODULE LandingMutex -----------------------------
(***************************************************************************)
(* One landing at a time on the release branch: src/lib/landing-mutex.ts.  *)
(* landing.lock names its holder.  A lander that cannot publish its own    *)
(* record polls; when the holder is dead it moves the lock aside, in the   *)
(* mutex landing.reclaim of OperationMutex, and polls on.                  *)
(*                                                                         *)
(* A lander acquires once, so its process stands for its token.  A process *)
(* identity that cannot be read counts as live, one that differs as dead:  *)
(* with pids that are not reused both come to whether the process lives.   *)
(***************************************************************************)
EXTENDS OperationMutex

VARIABLES
    lock,   \* the holder landing.lock names, or Nobody when there is none
    at,     \* where a lander is
    seen    \* the holder a lander read from the lock

vars == <<mutexVars, lock, at, seen>>

Places == {"trying", "reading", "missing", "judging", "reclaiming", "rechecking",
           "moving", "returning", "retrying", "polling", "landing",
           "removing", "done"}

Move(p, from, to) == at[p] = from /\ at' = [at EXCEPT ![p] = to]

LandingInit ==
    /\ MutexInit
    /\ lock = Nobody
    /\ at = [p \in Procs |-> "trying"]
    /\ seen = [p \in Procs |-> Nobody]

-----------------------------------------------------------------------------
(* acquireLandingMutex                                                     *)

(* The link attempts: at once and after each pause, when the lock was gone *)
(* at the read, and after a reclaim.                                       *)
AfterFailure(p) == IF at[p] = "trying" THEN "reading" ELSE "polling"

TryAcquire(p) ==
    /\ at[p] \in {"trying", "missing", "retrying"}
    /\ at' = [at EXCEPT ![p] =
                IF lock = Nobody THEN "landing" ELSE AfterFailure(p)]
    /\ lock' = IF lock = Nobody THEN p ELSE lock
    /\ UNCHANGED <<mutexVars, seen>>

ReadLockRecord(p) ==
    /\ Move(p, "reading", IF lock = Nobody THEN "missing" ELSE "judging")
    /\ seen' = [seen EXCEPT ![p] = lock]
    /\ UNCHANGED <<mutexVars, lock>>

(* Mutant: a lander only waits for the holder. *)
MutantIsLockStale(p) == FALSE

(* Mutant: a holder whose identity cannot be read counts as dead. *)
MutantAssumedDead(p) == TRUE

IsLockStale(p) == ~Alive(seen[p])

Judge(p) ==
    /\ Move(p, "judging", IF IsLockStale(p) THEN "reclaiming" ELSE "polling")
    /\ UNCHANGED <<mutexVars, lock, seen>>

(* Less than the deadline: sleep, and try again.                           *)
Poll(p) ==
    /\ Move(p, "polling", "trying")
    /\ UNCHANGED <<mutexVars, lock, seen>>

(* LANDING_MUTEX_TIMEOUT                                                   *)
TimeOut(p) ==
    /\ Move(p, "polling", "done")
    /\ UNCHANGED <<mutexVars, lock, seen>>

-----------------------------------------------------------------------------
(* reclaimStaleLock                                                        *)

EnterReclaim(p) ==
    /\ at[p] = "reclaiming"
    /\ Acquire(p) \/ Look(p) \/ Read(p) \/ Spare(p) \/ OrderlySweep(p)
    /\ at' = [at EXCEPT ![p] =
                IF phase'[p] = "holding" THEN "rechecking"
                ELSE IF phase'[p] = "idle" THEN "retrying" ELSE "reclaiming"]
    /\ UNCHANGED <<lock, seen>>

(* Mutant: the record read before the reclaim mutex is good enough. *)
MutantRecheck(p) ==
    /\ Move(p, "rechecking", "moving")
    /\ UNCHANGED <<mutexVars, lock, seen>>

Recheck(p) ==
    /\ Move(p, "rechecking", IF lock = seen[p] THEN "moving" ELSE "returning")
    /\ UNCHANGED <<mutexVars, lock, seen>>

(* The rename takes whatever lock is there.                                *)
MoveAside(p) ==
    /\ Move(p, "moving", "returning")
    /\ lock' = Nobody
    /\ UNCHANGED <<mutexVars, seen>>

LeaveReclaim(p) ==
    /\ Move(p, "returning", "retrying")
    /\ Release(p)
    /\ UNCHANGED <<lock, seen>>

-----------------------------------------------------------------------------
(* release                                                                 *)

ReadOwnLock(p) ==
    /\ Move(p, "landing", IF lock = p THEN "removing" ELSE "done")
    /\ UNCHANGED <<mutexVars, lock, seen>>

RemoveLock(p) ==
    /\ Move(p, "removing", "done")
    /\ lock' = Nobody
    /\ UNCHANGED <<mutexVars, seen>>

-----------------------------------------------------------------------------
Crash(p) ==
    /\ at[p] # "done"
    /\ Alive(p)
    /\ Cardinality(Dead) < MaxDead
    /\ Goto(p, "dead")
    /\ UNCHANGED <<file, owner, swept, lock, at, seen>>

LanderStep(p) ==
    /\ Alive(p)
    /\ \/ TryAcquire(p)
       \/ ReadLockRecord(p)
       \/ Judge(p)
       \/ Poll(p)
       \/ EnterReclaim(p)
       \/ Recheck(p)
       \/ MoveAside(p)
       \/ LeaveReclaim(p)
       \/ ReadOwnLock(p)
       \/ RemoveLock(p)

LandingNext ==
    \E p \in Procs : LanderStep(p) \/ (Alive(p) /\ TimeOut(p)) \/ Crash(p)

LandingSpec == LandingInit /\ [][LandingNext]_vars

(* Each lander is a process of its own that polls once a second, and a     *)
(* landing ends; nothing makes a lander die or reach its deadline.         *)
Fairness == \A p \in Procs : WF_vars(LanderStep(p))

FairLandingSpec == LandingSpec /\ Fairness

-----------------------------------------------------------------------------
Landers == {p \in Procs : Alive(p) /\ at[p] \in {"landing", "removing"}}

(* "Serializes every release landing": two live processes are never        *)
(* between the acquisition and the release of the landing mutex, whichever *)
(* of them or of the reclaimers died on the way.                           *)
OneLanding == \A p, q \in Landers : p = q

(* "A second reclaimer that read the same stale record cannot move the     *)
(* first reclaimer's fresh lock": the lock of a live landing stays until   *)
(* the lander itself removes it.                                           *)
LandingKeepsLock ==
    [][\A p \in Landers : lock = p => lock' = p \/ p \notin Landers']_vars

(* A lander that has tried and does not die comes to an end: dead holders, *)
(* and reclaimers that died in the reclaim mutex, stop nobody for good.    *)
LanderEnds ==
    \A p \in Procs :
        at[p] \notin {"trying", "done"} ~> (at[p] = "done" \/ ~Alive(p))

LandingTypeOK ==
    /\ MutexTypeOK
    /\ lock \in Procs \cup {Nobody}
    /\ at \in [Procs -> Places]
    /\ seen \in [Procs -> Procs \cup {Nobody}]
=============================================================================
