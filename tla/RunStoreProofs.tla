-------------------------- MODULE RunStoreProofs --------------------------
(***************************************************************************)
(* What one run keeps, and the mutexes it keeps it under.  The mutex of a  *)
(* run and the landing mutex come first.                                   *)
(*   The files of a run implement the store of DurableRun, for any number  *)
(* of processes, deaths and revisions, on the schedules that never sweep   *)
(* the mutex of a live owner.  state.json may fall behind the log at any   *)
(* time, and even go back when a reader repairs it late; the invariant is  *)
(* that it is always a prefix of the log, and that whoever has loaded      *)
(* under the mutex has the end of the log.                                 *)
(*   Then, the inbox: every step replaces a file by one of the same        *)
(* request, a run that is being created has no request of its own yet, and *)
(* a reconciliation writes back only runs that exist, under the request    *)
(* they have.  Last, the registry of the agents of a run.                  *)
(***************************************************************************)
EXTENDS RunStore, LandingMutex, Inbox, Hypervisor, Extrema, SequenceTheorems

-----------------------------------------------------------------------------
(* The mutex of a run and the landing mutex                                *)

(* Exclusion is not inductive: that no second process can publish a mutex  *)
(* beside the holder's takes that the file is there and names the holder.  *)
MutexInv == MutexTypeOK /\ HolderOwnsFile

(* At the start nobody holds the mutex and there is no file.               *)
LEMMA MutexInitInv == MutexInit => MutexInv
BY MutexAssumption DEF MutexInit, MutexInv, MutexTypeOK, HolderOwnsFile, Holders,
                       Phases, Acquiring

(* The acquisition, its refusal and the probes keep the file and its       *)
(* holder in step: the link succeeds only where there is no file.          *)
LEMMA StepKeepsMutexInv ==
    ASSUME MutexInv, NEW p \in Procs, MutexStep(p)
    PROVE  MutexInv'
<1> USE MutexAssumption DEF MutexInv, MutexTypeOK, HolderOwnsFile, Holders, Goto,
        Phases, Acquiring, Probing
<1>1. CASE Start(p)
  BY <1>1 DEF Start
<1>2. CASE Link(p)
  BY <1>2 DEF Link
<1>3. CASE Contend(p)
  BY <1>3 DEF Contend
<1>4. CASE Retry(p)
  BY <1>4 DEF Retry
<1>5. CASE Refuse(p)
  BY <1>5 DEF Refuse
<1>6. CASE Probe(p)
  BY <1>6 DEF Probe
<1>7. CASE Look(p)
  BY <1>7 DEF Look
<1>8. CASE Read(p)
  BY <1>8 DEF Read
<1>9. CASE Spare(p)
  BY <1>9 DEF Spare
<1> QED
  BY <1>1, <1>2, <1>3, <1>4, <1>5, <1>6, <1>7, <1>8, <1>9 DEF MutexStep, Acquire

(* A sweep of a dead owner's file is no holder's loss.                     *)
LEMMA SweepKeepsMutexInv ==
    ASSUME MutexInv, NEW p \in Procs, OrderlySweep(p)
    PROVE  MutexInv'
BY MutexAssumption DEF MutexInv, MutexTypeOK, HolderOwnsFile, Holders, Goto,
   Phases, Acquiring, Probing, OrderlySweep, SweepsLiveOwner, Sweep, Alive

(* A release removes the only holder's file.                               *)
LEMMA ReleaseKeepsMutexInv ==
    ASSUME MutexInv, NEW p \in Procs, Release(p)
    PROVE  MutexInv'
BY MutexAssumption DEF MutexInv, MutexTypeOK, HolderOwnsFile, Holders, Goto,
   Phases, Acquiring, Probing, Release

(* A process that dies leaves its file for others to sweep.                *)
LEMMA DeathKeepsMutexInv ==
    ASSUME MutexInv, NEW p \in Procs, Goto(p, "dead"),
           UNCHANGED <<file, owner, swept>>
    PROVE  MutexInv'
BY DEF MutexInv, MutexTypeOK, HolderOwnsFile, Holders, Goto, Phases

(* Two holders would both be named by the one file.                        *)
LEMMA MutexInvExcludes == MutexInv => Exclusive
BY DEF MutexInv, HolderOwnsFile, Exclusive

-----------------------------------------------------------------------------
(* Landings                                                                *)

InCallback == {"rechecking", "moving", "returning"}

(* Who is in the callback of the reclaim mutex holds it.                   *)
CallbackHolds ==
    \A p \in Procs : Alive(p) => (phase[p] = "holding" <=> at[p] \in InCallback)

(* A lander between acquisition and release is named by the lock.          *)
LandersOwnLock == \A p \in Landers : lock = p

(* Whoever reclaims read a record, and its holder is dead; who is about to *)
(* rename finds that record still in the lock.                             *)
ReclaimsDead ==
    \A p \in Procs : Alive(p) =>
        /\ at[p] = "judging" => seen[p] \in Procs
        /\ at[p] \in {"reclaiming", "rechecking", "moving"} =>
                seen[p] \in Procs /\ ~Alive(seen[p])
        /\ at[p] = "moving" => lock = seen[p]

(* LandersOwnLock alone is not inductive: a rename hits the lock, and that *)
(* it hits the lock of the dead takes what the reclaimer checked and that  *)
(* nobody else renames between its check and its rename.                   *)
LandingInv ==
    /\ LandingTypeOK
    /\ MutexInv
    /\ CallbackHolds
    /\ LandersOwnLock
    /\ ReclaimsDead

LEMMA LandingInitInv == LandingInit => LandingInv
<1> SUFFICES ASSUME LandingInit PROVE LandingInv
  OBVIOUS
<1>1. MutexInv
  BY MutexInitInv DEF LandingInit
<1>2. LandingTypeOK
  BY <1>1 DEF LandingInit, LandingTypeOK, MutexInv, Places
<1>3. CallbackHolds /\ LandersOwnLock /\ ReclaimsDead
  BY DEF LandingInit, MutexInit, CallbackHolds, LandersOwnLock, ReclaimsDead,
         Landers, InCallback
<1> QED
  BY <1>1, <1>2, <1>3 DEF LandingInv

(* The steps that leave the reclaim mutex alone.                           *)
LEMMA OutsideKeepsLandingInv ==
    ASSUME LandingInv, NEW p \in Procs, Alive(p), UNCHANGED mutexVars,
           \/ TryAcquire(p) \/ ReadLockRecord(p) \/ Judge(p) \/ Poll(p)
           \/ TimeOut(p) \/ Recheck(p) \/ MoveAside(p)
           \/ ReadOwnLock(p) \/ RemoveLock(p)
    PROVE  LandingInv'
<1> USE MutexAssumption
<1>0. MutexInv' /\ MutexTypeOK' /\ (\A q \in Procs : Alive(q)' <=> Alive(q))
  BY DEF LandingInv, MutexInv, MutexTypeOK, HolderOwnsFile, Holders, mutexVars, Alive
<1>1. CASE TryAcquire(p)
  <2>1. LandingTypeOK'
    BY <1>0, <1>1 DEF LandingInv, LandingTypeOK, TryAcquire, AfterFailure, Places
  <2>2. CallbackHolds'
    BY <1>0, <1>1 DEF LandingInv, LandingTypeOK, TryAcquire, AfterFailure,
       CallbackHolds, InCallback, mutexVars
  <2>3. LandersOwnLock'
    BY <1>0, <1>1 DEF LandingInv, LandingTypeOK, TryAcquire, AfterFailure,
       LandersOwnLock, Landers
  <2>4. ReclaimsDead'
    BY <1>0, <1>1 DEF LandingInv, LandingTypeOK, TryAcquire, AfterFailure,
       ReclaimsDead
  <2> QED
    BY <1>0, <2>1, <2>2, <2>3, <2>4 DEF LandingInv
<1>2. CASE ReadLockRecord(p)
  <2>1. LandingTypeOK'
    BY <1>0, <1>2 DEF LandingInv, LandingTypeOK, ReadLockRecord, Move, Places
  <2>2. CallbackHolds' /\ LandersOwnLock' /\ ReclaimsDead'
    BY <1>0, <1>2 DEF LandingInv, LandingTypeOK, ReadLockRecord, Move,
       CallbackHolds, InCallback, LandersOwnLock, Landers, ReclaimsDead, mutexVars
  <2> QED
    BY <1>0, <2>1, <2>2 DEF LandingInv
<1>3. CASE Judge(p)
  <2>1. LandingTypeOK'
    BY <1>0, <1>3 DEF LandingInv, LandingTypeOK, Judge, Move, Places
  <2>2. CallbackHolds' /\ LandersOwnLock' /\ ReclaimsDead'
    BY <1>0, <1>3 DEF LandingInv, LandingTypeOK, Judge, IsLockStale, Move,
       CallbackHolds, InCallback, LandersOwnLock, Landers, ReclaimsDead, mutexVars
  <2> QED
    BY <1>0, <2>1, <2>2 DEF LandingInv
<1>4. CASE Poll(p) \/ TimeOut(p)
  <2>1. LandingTypeOK'
    BY <1>0, <1>4 DEF LandingInv, LandingTypeOK, Poll, TimeOut, Move, Places
  <2>2. CallbackHolds' /\ LandersOwnLock' /\ ReclaimsDead'
    BY <1>0, <1>4 DEF LandingInv, LandingTypeOK, Poll, TimeOut, Move,
       CallbackHolds, InCallback, LandersOwnLock, Landers, ReclaimsDead, mutexVars
  <2> QED
    BY <1>0, <2>1, <2>2 DEF LandingInv
<1>5. CASE Recheck(p)
  <2>1. LandingTypeOK'
    BY <1>0, <1>5 DEF LandingInv, LandingTypeOK, Recheck, Move, Places
  <2>2. CallbackHolds' /\ LandersOwnLock' /\ ReclaimsDead'
    BY <1>0, <1>5 DEF LandingInv, LandingTypeOK, Recheck, Move,
       CallbackHolds, InCallback, LandersOwnLock, Landers, ReclaimsDead, mutexVars
  <2> QED
    BY <1>0, <2>1, <2>2 DEF LandingInv
<1>6. CASE MoveAside(p)
  (* The reclaim mutex makes p the only one that moves a lock, and the     *)
  (* lock it moves is the one of a dead lander.                            *)
  <2>1. \A q \in Procs : Alive(q) /\ at[q] = "moving" => q = p
    BY <1>6, MutexInvExcludes DEF LandingInv, CallbackHolds, InCallback, MoveAside,
       Move, Exclusive, Holders
  <2>2. Landers = {}
    BY <1>6 DEF LandingInv, LandersOwnLock, ReclaimsDead, Landers, MoveAside, Move
  <2>3. LandingTypeOK'
    BY <1>0, <1>6 DEF LandingInv, LandingTypeOK, MoveAside, Move, Places
  <2>4. CallbackHolds' /\ LandersOwnLock'
    BY <1>0, <1>6, <2>2 DEF LandingInv, LandingTypeOK, MoveAside, Move,
       CallbackHolds, InCallback, LandersOwnLock, Landers, mutexVars
  <2>5. ReclaimsDead'
    BY <1>0, <1>6, <2>1 DEF LandingInv, LandingTypeOK, MoveAside, Move, ReclaimsDead
  <2> QED
    BY <1>0, <2>3, <2>4, <2>5 DEF LandingInv
<1>7. CASE ReadOwnLock(p)
  <2>1. LandingTypeOK'
    BY <1>0, <1>7 DEF LandingInv, LandingTypeOK, ReadOwnLock, Move, Places
  <2>2. CallbackHolds' /\ LandersOwnLock' /\ ReclaimsDead'
    BY <1>0, <1>7 DEF LandingInv, LandingTypeOK, ReadOwnLock, Move,
       CallbackHolds, InCallback, LandersOwnLock, Landers, ReclaimsDead, mutexVars
  <2> QED
    BY <1>0, <2>1, <2>2 DEF LandingInv
<1>8. CASE RemoveLock(p)
  (* The lock names p, so it is no dead lander's that is about to move.    *)
  <2>1. \A q \in Procs : Alive(q) => at[q] # "moving"
    BY <1>8 DEF LandingInv, LandersOwnLock, Landers, ReclaimsDead, RemoveLock, Move
  <2>2. LandingTypeOK'
    BY <1>0, <1>8 DEF LandingInv, LandingTypeOK, RemoveLock, Move, Places
  <2>3. CallbackHolds' /\ LandersOwnLock' /\ ReclaimsDead'
    BY <1>0, <1>8, <2>1 DEF LandingInv, LandingTypeOK, RemoveLock, Move,
       CallbackHolds, InCallback, LandersOwnLock, Landers, ReclaimsDead, mutexVars
  <2> QED
    BY <1>0, <2>2, <2>3 DEF LandingInv
<1> QED
  BY <1>1, <1>2, <1>3, <1>4, <1>5, <1>6, <1>7, <1>8

(* The steps through the reclaim mutex: the lock stays as it is.           *)
LEMMA ReclaimKeepsLandingInv ==
    ASSUME LandingInv, NEW p \in Procs, Alive(p), EnterReclaim(p) \/ LeaveReclaim(p)
    PROVE  LandingInv'
<1> USE MutexAssumption
<1>1. MutexInv' /\ MutexTypeOK'
  <2>1. MutexInv
    BY DEF LandingInv
  <2>2. CASE EnterReclaim(p)
    <3>1. MutexStep(p) \/ OrderlySweep(p)
      BY <2>2 DEF EnterReclaim, MutexStep
    <3> QED
      BY <2>1, <3>1, StepKeepsMutexInv, SweepKeepsMutexInv DEF MutexInv
  <2>3. CASE LeaveReclaim(p)
    BY <2>1, <2>3, ReleaseKeepsMutexInv DEF LeaveReclaim, MutexInv
  <2> QED
    BY <2>2, <2>3
<1>2. /\ at \in [Procs -> Places] /\ phase \in [Procs -> Phases]
      /\ phase' \in [Procs -> Phases]
  BY <1>1 DEF LandingInv, LandingTypeOK, MutexTypeOK
<1>3. /\ \A q \in Procs : q # p => phase'[q] = phase[q] /\ at'[q] = at[q]
      /\ phase'[p] # "dead"
      /\ UNCHANGED <<lock, seen>>
  <2>1. CASE EnterReclaim(p)
    BY <1>2, <2>1 DEF EnterReclaim, Acquire, Start, Link, Contend, Retry, Refuse,
       Look, Read, Spare, OrderlySweep, Sweep, Goto
  <2>2. CASE LeaveReclaim(p)
    BY <1>2, <2>2 DEF LeaveReclaim, Move, Release, Goto
  <2> QED
    BY <2>1, <2>2
<1>4. \A q \in Procs : Alive(q)' <=> Alive(q)
  BY <1>3 DEF Alive
<1>5. /\ at' \in [Procs -> Places]
      /\ phase'[p] = "holding" <=> at'[p] = "rechecking"
      /\ at'[p] \in {"rechecking", "retrying", "reclaiming"}
      /\ at'[p] \in {"rechecking", "reclaiming"} => at[p] = "reclaiming"
  <2>1. CASE EnterReclaim(p)
    BY <1>2, <2>1 DEF EnterReclaim, Places
  <2>2. CASE LeaveReclaim(p)
    BY <1>2, <2>2 DEF LeaveReclaim, Move, Release, Goto, Places
  <2> QED
    BY <2>1, <2>2
<1>6. LandingTypeOK'
  BY <1>1, <1>3, <1>5 DEF LandingInv, LandingTypeOK
<1>7. CallbackHolds'
  BY <1>3, <1>4, <1>5 DEF LandingInv, CallbackHolds, InCallback
<1>8. LandersOwnLock'
  BY <1>3, <1>4, <1>5 DEF LandingInv, LandersOwnLock, Landers
<1>9. ReclaimsDead'
  BY <1>3, <1>4, <1>5 DEF LandingInv, ReclaimsDead
<1> QED
  BY <1>1, <1>6, <1>7, <1>8, <1>9 DEF LandingInv

(* A crash takes a process out of every claim; the dead stay dead.         *)
LEMMA CrashKeepsLandingInv ==
    ASSUME LandingInv, NEW p \in Procs, Crash(p)
    PROVE  LandingInv'
<1>1. MutexInv' /\ MutexTypeOK'
  BY DeathKeepsMutexInv DEF LandingInv, Crash, MutexInv
<1>2. LandingTypeOK'
  BY <1>1 DEF LandingInv, LandingTypeOK, Crash
<1>3. CallbackHolds' /\ LandersOwnLock' /\ ReclaimsDead'
  BY DEF LandingInv, LandingTypeOK, MutexTypeOK, Crash, Goto, Alive, CallbackHolds,
     LandersOwnLock, Landers, ReclaimsDead
<1> QED
  BY <1>1, <1>2, <1>3 DEF LandingInv

LEMMA LandingNextInv == LandingInv /\ [LandingNext]_vars => LandingInv'
<1> SUFFICES ASSUME LandingInv, [LandingNext]_vars PROVE LandingInv'
  OBVIOUS
<1>1. ASSUME NEW p \in Procs, LanderStep(p) PROVE LandingInv'
  <2>1. CASE EnterReclaim(p) \/ LeaveReclaim(p)
    BY <1>1, <2>1, ReclaimKeepsLandingInv DEF LanderStep
  <2>2. CASE ~(EnterReclaim(p) \/ LeaveReclaim(p))
    <3>1. UNCHANGED mutexVars
      BY <1>1, <2>2 DEF LanderStep, TryAcquire, ReadLockRecord, Judge, Poll, Recheck,
         MoveAside, ReadOwnLock, RemoveLock
    <3> QED
      BY <1>1, <2>2, <3>1, OutsideKeepsLandingInv DEF LanderStep
  <2> QED
    BY <2>1, <2>2
<1>2. ASSUME NEW p \in Procs, Alive(p), TimeOut(p) PROVE LandingInv'
  <2>1. UNCHANGED mutexVars
    BY <1>2 DEF TimeOut
  <2> QED
    BY <1>2, <2>1, OutsideKeepsLandingInv
<1>3. ASSUME NEW p \in Procs, Crash(p) PROVE LandingInv'
  BY <1>3, CrashKeepsLandingInv
<1>4. CASE UNCHANGED vars
  BY <1>4 DEF vars, mutexVars, LandingInv, LandingTypeOK, MutexInv, MutexTypeOK,
     HolderOwnsFile, Holders, Alive, CallbackHolds, LandersOwnLock, Landers,
     ReclaimsDead
<1> QED
  BY <1>1, <1>2, <1>3, <1>4 DEF LandingNext

LEMMA LandingInvariant == LandingSpec => []LandingInv
BY LandingInitInv, LandingNextInv, PTL DEF LandingSpec

(* "Serializes every release landing": never two live landings at once,    *)
(* whoever died as holder or as reclaimer.                                 *)
THEOREM LandingsAreSerial == LandingSpec => []OneLanding
<1>1. LandingInv => OneLanding
  BY DEF LandingInv, LandersOwnLock, OneLanding
<1> QED
  BY <1>1, LandingInvariant, PTL

(* The reclaim of a stale lock never takes the lock of a live landing.     *)
THEOREM LandingsKeepTheirLock == LandingSpec => LandingKeepsLock
<1> DEFINE Kept == \A p \in Landers : lock = p => lock' = p \/ p \notin Landers'
<1>1. LandingInv /\ LandingInv' => Kept
  BY DEF LandingInv, LandersOwnLock
<1> QED
  BY <1>1, LandingInvariant, PTL DEF LandingKeepsLock

-----------------------------------------------------------------------------
(* The files of a run                                                      *)

States == Seq(Procs)
Steps == {"none", "log", "repair", "loaded", "artifact", "event"}

LEMMA SubSeqTyped ==
    ASSUME NEW s \in States, NEW l \in 0 .. Len(s)
    PROVE  SubSeq(s, 1, l) \in States /\ Len(SubSeq(s, 1, l)) = l
  BY DEF States

\* What is a prefix of the log stays one when a change is appended.
LEMMA PrefixGrows ==
    ASSUME NEW t \in States, NEW e \in Procs, NEW s \in Prefixes(t)
    PROVE  s \in Prefixes(Append(t, e))
<1>1. PICK l \in 0 .. Len(t) : s = SubSeq(t, 1, l)
  BY DEF Prefixes
<1>2. l \in 0 .. Len(Append(t, e)) /\ SubSeq(Append(t, e), 1, l) = SubSeq(t, 1, l)
  BY DEF States
<1> QED BY <1>1, <1>2 DEF Prefixes

\* A prefix is a state, and one that is as long as the log is all of it.
LEMMA PrefixIsState ==
    ASSUME NEW t \in States, NEW s \in Prefixes(t)
    PROVE  s \in States /\ Len(s) <= Len(t) /\ (Len(s) >= Len(t) => s = t)
<1>1. PICK l \in 0 .. Len(t) : s = SubSeq(t, 1, l)
  BY DEF Prefixes
<1>2. SubSeq(t, 1, Len(t)) = t
  BY SubSeqFull DEF States
<1>3. s \in States /\ Len(s) = l
  BY <1>1, SubSeqTyped
<1>4. Len(t) \in Nat
  BY DEF States
<1>5. Len(s) <= Len(t)
  BY <1>3, <1>4
<1>6. ASSUME Len(s) >= Len(t) PROVE s = t
  <2>1. l = Len(t)
    BY <1>3, <1>4, <1>6
  <2> QED BY <1>1, <1>2, <2>1
<1> QED BY <1>3, <1>5, <1>6

LEMMA WholeIsPrefix == ASSUME NEW t \in States PROVE t \in Prefixes(t) /\ <<>> \in Prefixes(t)
<1>1. SubSeq(t, 1, Len(t)) = t /\ Len(t) \in 0 .. Len(t)
  BY SubSeqFull DEF States
<1>2. SubSeq(t, 1, 0) = <<>> /\ 0 \in 0 .. Len(t)
  BY DEF States
<1> QED BY <1>1, <1>2 DEF Prefixes

\* What a process has of the store at each step of a load or a change.
ProcInv(p) ==
    /\ load[p] \in Steps /\ asked[p] \in Nat /\ asked[p] <= Len(Latest)
    /\ load[p] \in {"log", "repair", "loaded"} => mem[p] \in Prefixes(Latest)
    /\ load[p] \in {"repair", "loaded", "artifact", "event"} =>
          mem[p] \in States /\ Len(mem[p]) >= asked[p]
    /\ load[p] = "artifact" => mem[p] \in artifacts
    /\ phase[p] \notin {"idle", "holding", "dead"} => load[p] = "none"
    /\ phase[p] = "idle" => load[p] \notin {"artifact", "event"}
    /\ phase[p] = "holding" =>
          /\ load[p] \in {"repair", "loaded", "event"} => mem[p] = Latest
          /\ load[p] = "artifact" => mem[p] = Append(Latest, p)

LogInv ==
    /\ events \in Seq(States) /\ disk \in Prefixes(Latest)
    /\ Latest = <<>> \/ Latest \in artifacts
FunctionsTyped ==
    /\ mem = [p \in Procs |-> mem[p]] /\ load = [p \in Procs |-> load[p]]
    /\ asked = [p \in Procs |-> asked[p]]
StoreInv == MutexInv /\ LogInv /\ FunctionsTyped /\ \A p \in Procs : ProcInv(p)

LEMMA LatestIsState == ASSUME LogInv PROVE Latest \in States
<1>1. CASE events = <<>>
  BY <1>1 DEF Latest, States
<1>2. CASE events # <<>>
  BY <1>2 DEF LogInv, Latest, Last
<1> QED BY <1>1, <1>2

LEMMA AppendIsLatest ==
    ASSUME events \in Seq(States), NEW m \in States, events' = Append(events, m)
    PROVE  events' \in Seq(States) /\ Latest' = m
<1>1. events' \in Seq(States) /\ Len(events') = Len(events) + 1 /\ events'[Len(events) + 1] = m
  OBVIOUS
<1>2. events' # <<>>
  BY <1>1
<1> QED BY <1>1, <1>2 DEF Latest, Last

\* A process that takes no step keeps what it has, whatever is added.
LEMMA OthersKeep ==
    ASSUME NEW q \in Procs, ProcInv(q), artifacts \subseteq artifacts', Latest' = Latest,
           mem'[q] = mem[q], load'[q] = load[q], asked'[q] = asked[q], phase'[q] = phase[q]
    PROVE  ProcInv(q)'
  BY DEF ProcInv

LEMMA StoreInvInit == StoreInit => StoreInv
<1> SUFFICES ASSUME StoreInit PROVE StoreInv
    OBVIOUS
<1>1. MutexInv
  BY MutexInitInv DEF StoreInit
<1>2. Latest = <<>> /\ <<>> \in States
  BY DEF StoreInit, Latest, States
<1>3. LogInv
  BY <1>2, WholeIsPrefix DEF StoreInit, LogInv
<1>4. FunctionsTyped
  BY DEF StoreInit, FunctionsTyped
<1>5. \A p \in Procs : ProcInv(p)
  BY <1>2 DEF StoreInit, MutexInit, ProcInv, Steps
<1> QED BY <1>1, <1>3, <1>4, <1>5 DEF StoreInv

\* The mutex steps touch nothing of the store.
LEMMA SerializeKeeps == ASSUME StoreInv, NEW p \in Procs, Serialize(p) PROVE StoreInv'
<1>1. MutexInv'
  BY StepKeepsMutexInv, SweepKeepsMutexInv, DeathKeepsMutexInv DEF StoreInv, Serialize, Die
<1>2. UNCHANGED storeVars /\ Latest' = Latest
  BY DEF Serialize, storeVars, Latest
<1>3. LogInv' /\ FunctionsTyped'
  BY <1>2 DEF StoreInv, storeVars, LogInv, FunctionsTyped
<1>4. /\ \A q \in Procs : q # p => phase'[q] = phase[q]
      /\ phase[p] \in {"holding", "dead"} => phase'[p] = "dead"
      /\ phase'[p] = "dead" \/ load[p] = "none"
  <2>1. phase \in [Procs -> Phases]
    BY DEF StoreInv, MutexInv, MutexTypeOK
  <2>2. load[p] = "none" \/ phase[p] \in {"holding", "dead"}
    BY DEF StoreInv, ProcInv, Serialize
  <2>3. CASE Die(p)
    BY <2>1, <2>3 DEF Die, Goto, Phases
  <2>4. CASE MutexStep(p)
    BY <2>1, <2>2, <2>4 DEF MutexStep, Acquire, Start, Link, Contend, Retry, Refuse, Probe, Look, Read,
       Spare, Goto
  <2>5. CASE OrderlySweep(p)
    BY <2>1, <2>2, <2>5 DEF OrderlySweep, Sweep, Goto
  <2> QED BY <2>3, <2>4, <2>5 DEF Serialize
<1>5. ProcInv(p)'
  BY <1>2, <1>4 DEF StoreInv, ProcInv, storeVars
<1>6. \A q \in Procs : ProcInv(q)'
  BY <1>2, <1>4, <1>5, OthersKeep DEF StoreInv, storeVars
<1> QED BY <1>1, <1>3, <1>6 DEF StoreInv

\* A process takes a step in the store; the mutex and the log stay.
LEMMA LocalStep ==
    ASSUME StoreInv, NEW p \in Procs, UNCHANGED mutexVars, Latest' = Latest, events' = events,
           disk' \in Prefixes(Latest), artifacts \subseteq artifacts', FunctionsTyped', ProcInv(p)',
           \A q \in Procs : q # p => mem'[q] = mem[q] /\ load'[q] = load[q] /\ asked'[q] = asked[q]
    PROVE  StoreInv'
<1>1. MutexInv'
  BY DEF StoreInv, MutexInv, MutexTypeOK, HolderOwnsFile, Holders, mutexVars
<1>2. LogInv'
  BY DEF StoreInv, LogInv
<1>3. \A q \in Procs : ProcInv(q)'
  BY OthersKeep DEF StoreInv, mutexVars
<1> QED BY <1>1, <1>2, <1>3 DEF StoreInv

LEMMA LoadKeeps == ASSUME StoreInv, NEW p \in Procs, Load(p) PROVE StoreInv'
<1>0. /\ ProcInv(p) /\ LogInv /\ FunctionsTyped /\ Latest \in States /\ Len(Latest) \in Nat
  BY LatestIsState DEF StoreInv, States
<1>1. UNCHANGED mutexVars /\ Latest' = Latest /\ events' = events /\ artifacts' = artifacts
  BY DEF Load, ReadState, ReadLog, Repair, EndRead, Latest
<1>2. /\ FunctionsTyped'
      /\ \A q \in Procs : q # p => mem'[q] = mem[q] /\ load'[q] = load[q] /\ asked'[q] = asked[q]
  BY <1>0 DEF Load, ReadState, ReadLog, Repair, EndRead, At, FunctionsTyped
<1>3. disk' \in Prefixes(Latest)
  BY <1>0 DEF Load, ReadState, ReadLog, Repair, EndRead, At, LogInv, ProcInv
<1>4. CASE ReadState(p)
  <2>1. load'[p] = "log" /\ mem'[p] = disk /\ asked'[p] = Len(Latest) /\ phase'[p] = phase[p]
        /\ phase[p] \in {"idle", "holding"}
    BY <1>0, <1>4 DEF ReadState, At, FunctionsTyped, mutexVars
  <2>2. ProcInv(p)'
    BY <1>0, <1>1, <2>1 DEF LogInv, ProcInv, Steps
  <2> QED BY <1>1, <1>2, <1>3, <2>2, LocalStep
<1>5. CASE ReadLog(p)
  <2>1. /\ load[p] = "log" /\ asked'[p] = asked[p] /\ phase'[p] = phase[p]
        /\ load'[p] = (IF LogAhead(p) THEN "repair" ELSE "loaded")
        /\ mem'[p] = (IF LogAhead(p) THEN Latest ELSE mem[p])
    BY <1>0, <1>5 DEF ReadLog, At, FunctionsTyped, mutexVars
  <2>2. mem[p] \in Prefixes(Latest)
    BY <1>0, <2>1 DEF ProcInv
  <2>3. mem'[p] = Latest
    <3>1. CASE LogAhead(p)
      BY <2>1, <3>1
    <3>2. CASE ~LogAhead(p)
      <4>1. mem[p] \in States /\ Len(mem[p]) \in Nat
        BY <1>0, <2>2, PrefixIsState DEF States
      <4>2. CASE Latest \in artifacts
        <5>1. Len(mem[p]) >= Len(Latest)
          BY <1>0, <3>2, <4>1, <4>2 DEF LogAhead
        <5> QED BY <1>0, <2>1, <2>2, <3>2, <5>1, PrefixIsState
      <4>3. CASE Latest = <<>>
        <5>1. Len(mem[p]) >= Len(Latest)
          BY <4>1, <4>3
        <5> QED BY <1>0, <2>1, <2>2, <3>2, <5>1, PrefixIsState
      <4> QED BY <1>0, <4>2, <4>3 DEF LogInv
    <3> QED BY <3>1, <3>2
  <2>4. Latest \in Prefixes(Latest)
    BY <1>0, WholeIsPrefix
  <2>5. ProcInv(p)'
    BY <1>0, <1>1, <2>1, <2>3, <2>4 DEF ProcInv, Steps
  <2> QED BY <1>1, <1>2, <1>3, <2>5, LocalStep
<1>6. CASE Repair(p)
  <2>1. /\ load[p] = "repair" /\ asked'[p] = asked[p] /\ phase'[p] = phase[p]
        /\ load'[p] = "loaded" /\ mem'[p] = mem[p]
    BY <1>0, <1>6 DEF Repair, At, FunctionsTyped, mutexVars
  <2>2. ProcInv(p)'
    BY <1>0, <1>1, <2>1 DEF ProcInv, Steps
  <2> QED BY <1>1, <1>2, <1>3, <2>2, LocalStep
<1>7. CASE EndRead(p)
  <2>1. asked'[p] = asked[p] /\ phase'[p] = phase[p] /\ load'[p] = "none"
    BY <1>0, <1>7 DEF EndRead, At, FunctionsTyped, mutexVars
  <2>2. ProcInv(p)'
    BY <1>0, <1>1, <2>1 DEF ProcInv, Steps
  <2> QED BY <1>1, <1>2, <1>3, <2>2, LocalStep
<1> QED BY <1>4, <1>5, <1>6, <1>7 DEF Load

LEMMA PersistKeeps == ASSUME StoreInv, NEW p \in Procs, PersistChange(p) PROVE StoreInv'
<1>0. /\ ProcInv(p) /\ LogInv /\ FunctionsTyped /\ Latest \in States /\ Len(Latest) \in Nat
      /\ phase[p] = "holding"
  BY LatestIsState DEF StoreInv, States, PersistChange, WriteArtifact, AppendEvent, WriteState
<1>1. UNCHANGED mutexVars
  BY DEF PersistChange, WriteArtifact, AppendEvent, WriteState
<1>2. /\ FunctionsTyped'
      /\ \A q \in Procs : q # p => mem'[q] = mem[q] /\ load'[q] = load[q] /\ asked'[q] = asked[q]
  BY <1>0 DEF PersistChange, WriteArtifact, AppendEvent, WriteState, At, FunctionsTyped
<1>3. CASE WriteArtifact(p)
  <2>1. /\ load[p] = "loaded" /\ load'[p] = "artifact" /\ asked'[p] = asked[p] /\ phase'[p] = phase[p]
        /\ mem[p] = Latest /\ mem'[p] = Append(Latest, p) /\ artifacts' = artifacts \cup {mem'[p]}
    BY <1>0, <1>3 DEF WriteArtifact, At, FunctionsTyped, mutexVars, ProcInv
  <2>2. Append(Latest, p) \in States /\ Len(Append(Latest, p)) = Len(Latest) + 1
    BY <1>0 DEF States
  <2>3. Latest' = Latest /\ events' = events /\ disk' = disk
    BY <1>3 DEF WriteArtifact, Latest
  <2>4. ProcInv(p)'
    BY <1>0, <2>1, <2>2, <2>3 DEF ProcInv, Steps
  <2>5. disk' \in Prefixes(Latest)
    BY <1>0, <2>3 DEF LogInv
  <2> QED BY <1>1, <1>2, <2>1, <2>3, <2>4, <2>5, LocalStep
<1>4. CASE WriteState(p)
  <2>1. /\ load[p] = "event" /\ load'[p] = "loaded" /\ asked'[p] = asked[p] /\ phase'[p] = phase[p]
        /\ mem[p] = Latest /\ mem'[p] = mem[p] /\ artifacts' = artifacts /\ disk' = Latest
    BY <1>0, <1>4 DEF WriteState, At, FunctionsTyped, mutexVars, ProcInv
  <2>2. Latest' = Latest /\ events' = events /\ Latest \in Prefixes(Latest)
    BY <1>0, <1>4, WholeIsPrefix DEF WriteState, Latest
  <2>3. ProcInv(p)'
    BY <1>0, <2>1, <2>2 DEF ProcInv, Steps
  <2> QED BY <1>1, <1>2, <2>1, <2>2, <2>3, LocalStep
<1>5. CASE AppendEvent(p)
  <2>1. /\ load[p] = "artifact" /\ load'[p] = "event" /\ asked'[p] = asked[p] /\ phase' = phase
        /\ mem[p] = Append(Latest, p) /\ mem' = mem /\ artifacts' = artifacts /\ disk' = disk
        /\ events' = Append(events, mem[p]) /\ mem[p] \in artifacts /\ mem[p] \in States
    BY <1>0, <1>5 DEF AppendEvent, At, FunctionsTyped, mutexVars, ProcInv
  <2>2. events' \in Seq(States) /\ Latest' = Append(Latest, p)
    BY <1>0, <2>1, AppendIsLatest DEF LogInv
  <2>3. \A s \in Prefixes(Latest) : s \in Prefixes(Latest')
    BY <1>0, <2>2, PrefixGrows
  <2>4. Len(Latest') = Len(Latest) + 1
    BY <1>0, <2>2 DEF States
  <2>5. LogInv'
    BY <1>0, <2>1, <2>2, <2>3 DEF LogInv
  <2>6. ProcInv(p)'
    BY <1>0, <2>1, <2>2, <2>4 DEF ProcInv, Steps
  <2>7. ASSUME NEW q \in Procs, q # p PROVE ProcInv(q)'
    <3>1. phase[q] # "holding"
      BY <1>0, <2>7, MutexInvExcludes DEF StoreInv, Exclusive, Holders
    <3>2. ProcInv(q) /\ mem'[q] = mem[q] /\ load'[q] = load[q] /\ asked'[q] = asked[q] /\ phase'[q] = phase[q]
      BY <1>2, <2>1, <2>7 DEF StoreInv
    <3> QED BY <1>0, <2>1, <2>3, <2>4, <3>1, <3>2 DEF ProcInv
  <2>8. MutexInv'
    BY <1>1 DEF StoreInv, MutexInv, MutexTypeOK, HolderOwnsFile, Holders, mutexVars
  <2> QED BY <1>2, <2>5, <2>6, <2>7, <2>8 DEF StoreInv
<1> QED BY <1>3, <1>4, <1>5 DEF PersistChange

LEMMA FinishKeeps == ASSUME StoreInv, NEW p \in Procs, Finish(p) PROVE StoreInv'
<1>1. MutexInv'
  BY ReleaseKeepsMutexInv DEF StoreInv, Finish
<1>2. Latest' = Latest /\ LogInv' /\ FunctionsTyped'
  BY DEF StoreInv, Finish, Latest, LogInv, FunctionsTyped
<1>3. /\ load'[p] = "none" /\ asked' = asked /\ phase'[p] = "idle" /\ artifacts' = artifacts
      /\ \A q \in Procs : q # p => mem'[q] = mem[q] /\ load'[q] = load[q] /\ phase'[q] = phase[q]
  BY DEF StoreInv, MutexInv, MutexTypeOK, FunctionsTyped, Finish, Release, Goto
<1>4. ProcInv(p)'
  BY <1>2, <1>3 DEF StoreInv, ProcInv, Steps
<1>5. \A q \in Procs : ProcInv(q)'
  BY <1>2, <1>3, <1>4, OthersKeep DEF StoreInv
<1> QED BY <1>1, <1>2, <1>5 DEF StoreInv

LEMMA StoreInvNext == StoreInv /\ [StoreNext]_runStoreVars => StoreInv'
<1>1. ASSUME StoreInv, UNCHANGED runStoreVars PROVE StoreInv'
  <2>1. Latest' = Latest /\ UNCHANGED <<mutexVars, storeVars>>
    BY <1>1 DEF runStoreVars, storeVars, Latest
  <2>2. MutexInv' /\ LogInv' /\ FunctionsTyped'
    BY <1>1, <2>1 DEF StoreInv, MutexInv, MutexTypeOK, HolderOwnsFile, Holders, mutexVars, storeVars,
       LogInv, FunctionsTyped
  <2> QED BY <1>1, <2>1, <2>2, OthersKeep DEF StoreInv, mutexVars, storeVars
<1> QED BY <1>1, SerializeKeeps, LoadKeeps, PersistKeeps, FinishKeeps DEF StoreNext

LEMMA StoreInvHolds == StoreSpec => []StoreInv
  BY StoreInvInit, StoreInvNext, PTL DEF StoreSpec

\* What a command changes is the last recorded state, whatever died before it
\* and whoever repaired state.json beside it.
THEOREM LoadsAreCurrent == StoreSpec => []LoadIsCurrent
<1>1. StoreInv => LoadIsCurrent
  BY DEF StoreInv, ProcInv, LoadIsCurrent, Holders
<1> QED BY <1>1, StoreInvHolds, PTL

\* The state each process has from the store, step by step.
LEMMA AnswersStay ==
    ASSUME NEW p \in Procs,
           \A q \in Procs : q # p => mem'[q] = mem[q] /\ load'[q] = load[q]
    PROVE  Answered' = [Answered EXCEPT ![p] = Answered'[p]]
<1> DEFINE answer(q) == IF load[q] = "loaded" THEN mem[q] ELSE NoState
<1>1. Answered = [q \in Procs |-> answer(q)] /\ Answered' = [q \in Procs |-> answer(q)']
  BY DEF Answered
<1>2. \A q \in Procs : q # p => answer(q)' = answer(q)
  OBVIOUS
<1> HIDE DEF answer
<1> QED BY <1>1, <1>2

\* A process loses what it had, gains nothing and records nothing.
LEMMA Forgets ==
    ASSUME NEW p \in Procs, load'[p] # "loaded", Latest' = Latest, asked' = asked,
           \A q \in Procs : q # p => mem'[q] = mem[q] /\ load'[q] = load[q]
    PROVE  Run!Forget(p)
<1>1. Answered'[p] = NoState
  BY DEF Answered
<1> QED BY <1>1, AnswersStay DEF Run!Forget

\* A process is answered: with a recorded state, no older than its question.
LEMMA Answers ==
    ASSUME NEW p \in Procs, load'[p] = "loaded", Latest' = Latest, asked' = asked, ProcInv(p)',
           \A q \in Procs : q # p => mem'[q] = mem[q] /\ load'[q] = load[q]
    PROVE  Run!Answer(p)
<1>1. Answered'[p] = mem'[p]
  BY DEF Answered
<1>2. mem'[p] \in Prefixes(Latest) /\ Len(mem'[p]) >= asked[p]
  BY DEF ProcInv
<1> QED BY <1>1, <1>2, AnswersStay DEF Run!Answer, Run!Prefixes, Prefixes

\* Every step of the files is a step of the promised store, or none.
LEMMA StepIsDurable ==
    ASSUME StoreInv, StoreInv', [StoreNext]_runStoreVars
    PROVE  [Run!DurableNext]_(Run!runVars)
<1> USE DEF Run!runVars
<1>1. ASSUME UNCHANGED storeVars PROVE UNCHANGED <<Latest, asked, Answered>>
  BY <1>1 DEF storeVars, Latest, Answered
<1>2. CASE UNCHANGED runStoreVars
  BY <1>1, <1>2 DEF runStoreVars
<1>3. ASSUME NEW p \in Procs, Serialize(p) PROVE UNCHANGED <<Latest, asked, Answered>>
  BY <1>1, <1>3 DEF Serialize
<1>4. ASSUME NEW p \in Procs, Load(p) \/ PersistChange(p) \/ Finish(p)
      PROVE  Run!DurableNext \/ UNCHANGED <<Latest, asked, Answered>>
  <2>0. FunctionsTyped /\ ProcInv(p) /\ ProcInv(p)' /\ LogInv
    BY DEF StoreInv
  <2>1. \A q \in Procs : q # p => mem'[q] = mem[q] /\ load'[q] = load[q]
    BY <1>4, <2>0 DEF Load, ReadState, ReadLog, Repair, EndRead, PersistChange, WriteArtifact, AppendEvent,
       WriteState, Finish, At, FunctionsTyped
  <2>2. CASE ReadState(p)
    <3>1. load[p] = "none" /\ load'[p] = "log" /\ Latest' = Latest /\ asked' = [asked EXCEPT ![p] = Len(Latest)]
      BY <2>0, <2>2 DEF ReadState, At, FunctionsTyped, Latest
    <3>2. Answered'[p] = NoState
      BY <3>1 DEF Answered
    <3> QED BY <2>1, <3>1, <3>2, AnswersStay DEF Run!DurableNext, Run!Ask
  <2>3. CASE ReadLog(p) \/ Repair(p) \/ WriteState(p)
    <3>1. Latest' = Latest /\ asked' = asked
      BY <2>3 DEF ReadLog, Repair, WriteState, Latest
    <3>2. CASE load'[p] = "loaded"
      BY <2>0, <2>1, <3>1, <3>2, Answers DEF Run!DurableNext
    <3>3. CASE load'[p] # "loaded"
      BY <2>1, <3>1, <3>3, Forgets DEF Run!DurableNext
    <3> QED BY <3>2, <3>3
  <2>4. CASE EndRead(p) \/ WriteArtifact(p) \/ Finish(p)
    <3>1. Latest' = Latest /\ asked' = asked /\ load'[p] # "loaded"
      BY <2>0, <2>4 DEF EndRead, WriteArtifact, Finish, At, FunctionsTyped, Latest
    <3> QED BY <2>1, <3>1, Forgets DEF Run!DurableNext
  <2>5. CASE AppendEvent(p)
    <3>1. /\ asked' = asked /\ mem[p] = Append(Latest, p) /\ events' = Append(events, mem[p])
          /\ load[p] = "artifact" /\ load'[p] = "event" /\ mem[p] \in States
      BY <2>0, <2>5 DEF AppendEvent, At, FunctionsTyped, ProcInv
    <3>2. Latest' = Append(Latest, p)
      BY <2>0, <3>1, AppendIsLatest DEF LogInv
    <3>3. Answered'[p] = Answered[p]
      BY <3>1 DEF Answered
    <3>4. Answered' = Answered
      BY <2>1, <3>3, AnswersStay DEF Answered
    <3> QED BY <3>1, <3>2, <3>4 DEF Run!DurableNext, Run!Commit
  <2> QED BY <1>4, <2>2, <2>3, <2>4, <2>5 DEF Load, PersistChange
<1> QED BY <1>2, <1>3, <1>4 DEF StoreNext

\* The files implement the store of DurableRun: no change is lost or recorded
\* beside another, and no load answers with an older state than was recorded
\* when it began, whichever process dies between which two writes.
THEOREM FilesAreDurable == StoreSpec => Durable
<1>1. StoreInit => Run!DurableInit
  <2> SUFFICES ASSUME StoreInit PROVE Run!DurableInit
      OBVIOUS
  <2>1. Latest = <<>> /\ Answered = [p \in Procs |-> NoState]
    BY DEF StoreInit, Latest, Answered
  <2> QED BY <2>1 DEF StoreInit, Run!DurableInit
<1>2. StoreInv /\ StoreInv' /\ [StoreNext]_runStoreVars => [Run!DurableNext]_(Run!runVars)
  BY StepIsDurable
<1> QED BY <1>1, <1>2, StoreInvHolds, PTL DEF StoreSpec, Durable, Run!DurableSpec

-----------------------------------------------------------------------------
(* The inbox                                                               *)

LEMMA InAnother ==
    ASSUME NEW dir \in Dirs, NEW p \in Paths
    PROVE  In(dir, p) \in Paths /\ In(dir, p).dir = dir /\ In(dir, p).req = p.req
BY DEF In, Paths

\* A suffix that is free names no file of the inbox.
LEMMA FreeNameIsFree ==
    ASSUME NEW dir \in Dirs, NEW p \in Paths, HasName(dir, p)
    PROVE  /\ FreeName(dir, p) \in Paths
           /\ FreeName(dir, p).dir = dir /\ FreeName(dir, p).req = p.req
<1>1. CASE In(dir, p) \notin files
  BY <1>1, InAnother DEF FreeName
<1>2. CASE In(dir, p) \in files
  <2> DEFINE free == {k \in 1 .. MaxCopies : [dir |-> dir, req |-> p.req, n |-> k] \notin files}
  <2>1. free # {} /\ free \in SUBSET Nat
    BY <1>2 DEF HasName
  <2>2. Min(free) \in 1 .. MaxCopies
    <3> HIDE DEF free
    <3>1. Min(free) \in free
      BY <2>1, LeastExists DEF Min
    <3> QED
      BY <3>1 DEF free
  <2>3. FreeName(dir, p) = [dir |-> dir, req |-> p.req, n |-> Min(free)]
    BY <1>2 DEF FreeName
  <2> HIDE DEF free
  <2>4. p.req \in Requests
    BY DEF Paths
  <2> QED
    BY <2>2, <2>3, <2>4 DEF Paths
<1> QED
  BY <1>1, <1>2

-----------------------------------------------------------------------------

StepRecords == [step : {"idle", "busy", "checked", "claimed", "complete", "canceled"},
                path : Paths \cup {Stored}, from : Paths \cup {Stored}]

\* A run that is still being created has not been written.
Unwritten ==
    \A r \in Runs :
        /\ runs[r].status = "none" => runs[r].req = "none"
        /\ steps[r].step \in {"checked", "claimed"} => runs[r].status = "none"

\* What a reconciliation writes back names the request the run has.
ReadWhatIsWritten ==
    \A m \in clean.moves :
        m.run # NoRun => /\ m.run \in Runs
                         /\ runs[m.run].status # "none"
                         /\ clean.read[m.run].status # "none"
                         /\ clean.read[m.run].req = runs[m.run].req

\* Where the process that works on a run has its item.
Item(s) ==
    /\ s.step = "checked" => /\ s.path \in Paths /\ s.path.dir \in {"queue", "canceled"}
                            /\ s.from = s.path
    /\ s.step = "claimed" => /\ s.path \in Paths /\ s.path.dir = "active"
                            /\ s.from \in Paths /\ s.from.req = s.path.req
Filed(p) == p = Stored \/ (p \in files /\ p.dir = "complete")
Items ==
    \A r \in Runs : /\ Item(steps[r])
                    /\ steps[r].step = "complete" /\ cleanups = 0 => Filed(steps[r].path)

NothingPlanned == cleanups = 0 => clean.moves = {}

InboxInv == /\ ITypeOK /\ Unwritten /\ ReadWhatIsWritten /\ NothingPlanned /\ Items
            /\ RequestKept /\ SucceededIsFiled

\* What every step does to the files: no request loses its last one, and what
\* is complete stays unless a reconciliation has begun.
FilesMove ==
    /\ files' \subseteq Paths
    /\ \A f \in files : \E g \in files' : g.req = f.req
    /\ cleanups = 0 => \A f \in files : f.dir = "complete" => f \in files'

LEMMA MoveOne ==
    ASSUME ITypeOK, NEW p \in Paths, NEW t \in Paths, t.req = p.req,
           p.dir # "complete" \/ cleanups # 0, files' = (files \ {p}) \cup {t}
    PROVE  FilesMove
BY DEF FilesMove, ITypeOK

LEMMA MoveNone == ASSUME ITypeOK, files' = files PROVE FilesMove
BY DEF FilesMove, ITypeOK

LEMMA StoredIsNoPath == Stored \notin Paths /\ Stored.dir # "complete"
BY DEF Stored, Paths, Dirs

LEMMA InboxInvInit == IInit => InboxInv
<1> SUFFICES ASSUME IInit PROVE InboxInv
  OBVIOUS
<1>1. \A q \in Requests : [dir |-> "queue", req |-> q, n |-> 1] \in Paths
  BY InboxAssumption DEF Paths, Dirs
<1>2. NotCreated \in Persisted /\ NotCreated.status = "none" /\ NotCreated.req = "none"
  BY DEF NotCreated, Persisted
<1>3. Idle \in StepRecords /\ Idle.step = "idle"
  BY DEF Idle, StepRecords
<1>4. ITypeOK
  <2>1. files \subseteq Paths
    BY <1>1 DEF IInit
  <2>2. clean \in [on : BOOLEAN, read : [Runs -> Persisted],
                   moves : SUBSET [from : Paths, to : Dirs, run : Runs \cup {NoRun}]]
    BY <1>2 DEF IInit, RunAtRest
  <2>3. steps \in [Runs -> StepRecords]
    BY <1>3 DEF IInit
  <2> QED
    BY <1>2, <2>1, <2>2, <2>3, InboxAssumption DEF IInit, ITypeOK, StepRecords
<1>5. RequestKept
  <2> SUFFICES ASSUME NEW q \in Requests PROVE \E p \in files : p.req = q
    BY DEF RequestKept
  <2>1. [dir |-> "queue", req |-> q, n |-> 1] \in files
    BY DEF IInit
  <2> QED
    BY <2>1
<1>6. Unwritten /\ Items /\ SucceededIsFiled
  BY <1>2, <1>3 DEF IInit, Unwritten, Items, Item, SucceededIsFiled
<1>7. clean.moves = {}
  BY DEF IInit, RunAtRest
<1> QED
  BY <1>4, <1>5, <1>6, <1>7 DEF InboxInv, ReadWhatIsWritten, NothingPlanned

\* A step of the process that works on a run, which may move one file.
LEMMA ProcessMoves ==
    ASSUME InboxInv, NEW r \in Runs, NEW s \in StepRecords, FilesMove,
           steps' = [steps EXCEPT ![r] = s],
           s.step \in {"checked", "claimed"} => runs[r].status = "none",
           Item(s), s.step = "complete" /\ cleanups = 0 => Filed(s.path)',
           UNCHANGED <<runs, restore, clean, cleanups>>, crashes' \in 0 .. MaxCrashes
    PROVE  InboxInv'
<1>1. ITypeOK'
  BY DEF InboxInv, ITypeOK, FilesMove, StepRecords
<1>2. \A k \in Runs : steps'[k] = IF k = r THEN s ELSE steps[k]
  BY DEF InboxInv, ITypeOK
<1>3. Unwritten'
  BY <1>2 DEF InboxInv, Unwritten
<1>4. \A p : Filed(p) /\ cleanups = 0 => Filed(p)'
  BY DEF FilesMove, Filed
<1>5. Items'
  BY <1>2, <1>4 DEF InboxInv, Items, Item
<1>6. RequestKept'
  BY DEF InboxInv, RequestKept, FilesMove
<1>7. SucceededIsFiled'
  BY <1>4 DEF InboxInv, SucceededIsFiled, Filed
<1> QED
  BY <1>1, <1>3, <1>5, <1>6, <1>7 DEF InboxInv, ReadWhatIsWritten, NothingPlanned

\* A run is written: it keeps its request, unless it had none.
LEMMA RunIsWritten ==
    ASSUME InboxInv, NEW r \in Runs, NEW v \in Persisted, NEW s \in StepRecords,
           runs' = [runs EXCEPT ![r] = v],
           steps' = [steps EXCEPT ![r] = s], s.step = "idle",
           runs[r].status # "none" => v.status # "none" /\ v.req = runs[r].req,
           v.status = "none" => v.req = "none",
           v.status = "succeeded" /\ cleanups = 0 => Filed(v.src),
           restore' \in Runs \cup {NoRun}, UNCHANGED <<files, clean, cleanups, crashes>>
    PROVE  InboxInv'
<1>1. ITypeOK'
  BY DEF InboxInv, ITypeOK, StepRecords
<1>2. \A k \in Runs : /\ steps'[k] = IF k = r THEN s ELSE steps[k]
                      /\ runs'[k] = IF k = r THEN v ELSE runs[k]
  BY DEF InboxInv, ITypeOK
<1>3. Unwritten'
  BY <1>2 DEF InboxInv, Unwritten
<1>4. Items'
  BY <1>2 DEF InboxInv, Items, Item, Filed
<1>5. RequestKept'
  <2>1. ASSUME NEW q \in Requests, NEW k \in Runs, runs[k].req = q PROVE runs'[k].req = q
    <3>1. runs[k].status # "none"
      BY <2>1, InboxAssumption DEF InboxInv, Unwritten
    <3> QED
      BY <1>2, <2>1, <3>1
  <2> QED
    BY <2>1 DEF InboxInv, RequestKept
<1>6. ReadWhatIsWritten'
  BY <1>2 DEF InboxInv, ReadWhatIsWritten
<1>7. SucceededIsFiled'
  BY <1>2 DEF InboxInv, SucceededIsFiled, Filed
<1> QED
  BY <1>1, <1>3, <1>4, <1>5, <1>6, <1>7 DEF InboxInv, NothingPlanned

LEMMA ClaimKeepsInbox ==
    ASSUME InboxInv, NEW r \in Runs,
           \/ \E p \in Paths : CheckClaim(r, p)
           \/ MoveClaim(r) \/ RollbackClaim(r)
    PROVE  InboxInv'
<1>1. ITypeOK /\ Idle \in StepRecords /\ Idle.step = "idle"
  BY DEF InboxInv, Idle, StepRecords
<1>2. /\ steps[r] \in StepRecords /\ Item(steps[r])
      /\ steps[r].step \in {"checked", "claimed"} => runs[r].status = "none"
      /\ crashes \in 0 .. MaxCrashes
  BY DEF InboxInv, ITypeOK, StepRecords, Items, Unwritten
<1>3. ASSUME NEW p \in Paths, CheckClaim(r, p) PROVE InboxInv'
  <2> DEFINE s == [step |-> "checked", path |-> p, from |-> p]
  <2>1. s \in StepRecords /\ s.step = "checked" /\ s.path = p
    BY DEF StepRecords
  <2>2. /\ steps' = [steps EXCEPT ![r] = s] /\ FilesMove /\ Item(s)
        /\ runs[r].status = "none" /\ UNCHANGED <<runs, restore, clean, cleanups, crashes>>
    BY <1>1, <1>3, MoveNone DEF CheckClaim, Item
  <2> HIDE DEF s
  <2> QED
    BY <1>2, <2>1, <2>2, ProcessMoves
<1>4. ASSUME MoveClaim(r) PROVE InboxInv'
  <2> DEFINE p == steps[r].path
  <2>1. p \in Paths /\ p.dir \in {"queue", "canceled"} /\ runs[r].status = "none"
    BY <1>2, <1>4 DEF MoveClaim, Item
  <2>2. CASE p \in files
    <3> DEFINE s == [steps[r] EXCEPT !.step = "claimed", !.path = In("active", p)]
    <3>1. In("active", p) \in Paths /\ In("active", p).dir = "active"
          /\ In("active", p).req = p.req
      BY <2>1, InAnother DEF Dirs
    <3>2. s \in StepRecords /\ s.step = "claimed" /\ s.path = In("active", p) /\ s.from = steps[r].from
      BY <1>2, <3>1 DEF StepRecords
    <3>3. Item(s)
      BY <1>2, <1>4, <3>1, <3>2 DEF MoveClaim, Item
    <3>4. steps' = [steps EXCEPT ![r] = s] /\ files' = (files \ {p}) \cup {In("active", p)}
          /\ UNCHANGED <<runs, restore, clean, cleanups, crashes>>
      BY <1>4, <2>2 DEF MoveClaim
    <3> HIDE DEF s
    <3>5. FilesMove
      BY <1>1, <2>1, <3>1, <3>4, MoveOne
    <3> QED
      BY <1>2, <2>1, <3>2, <3>3, <3>4, <3>5, ProcessMoves
  <2>3. CASE p \notin files
    <3>1. steps' = [steps EXCEPT ![r] = Idle] /\ UNCHANGED <<files, runs, restore, clean, cleanups, crashes>>
      BY <1>4, <2>3 DEF MoveClaim
    <3>2. FilesMove
      BY <1>1, <3>1, MoveNone
    <3> QED
      BY <1>1, <1>2, <3>1, <3>2, ProcessMoves DEF Item
  <2> QED
    BY <2>2, <2>3
<1>5. ASSUME RollbackClaim(r) PROVE InboxInv'
  <2> DEFINE p == steps[r].path
             f == steps[r].from
  <2>1. p \in Paths /\ p.dir = "active" /\ f \in Paths /\ f.req = p.req
    BY <1>2, <1>5 DEF RollbackClaim, Item
  <2>2. FilesMove
    <3>1. CASE p \in files /\ f \notin files
      <4>1. files' = (files \ {p}) \cup {f}
        BY <1>5, <3>1 DEF RollbackClaim
      <4> HIDE DEF p, f
      <4> QED
        BY <1>1, <2>1, <4>1, MoveOne
    <3>2. CASE ~(p \in files /\ f \notin files)
      BY <1>1, <1>5, <3>2, MoveNone DEF RollbackClaim
    <3> QED
      BY <3>1, <3>2
  <2>3. steps' = [steps EXCEPT ![r] = Idle] /\ UNCHANGED <<runs, restore, clean, cleanups, crashes>>
    BY <1>5 DEF RollbackClaim
  <2> QED
    BY <1>1, <1>2, <2>2, <2>3, ProcessMoves DEF Item
<1> QED
  BY <1>3, <1>4, <1>5

LEMMA RunKeepsInbox ==
    ASSUME InboxInv, NEW r \in Runs,
           \/ PersistRun(r) \/ PersistEnd(r) \/ FailRun(r) \/ OperateRun(r) \/ CrashRun(r)
    PROVE  InboxInv'
<1>1. /\ ITypeOK /\ Idle \in StepRecords /\ Idle.step = "idle"
      /\ crashes \in 0 .. MaxCrashes /\ restore \in Runs \cup {NoRun}
      /\ runs[r] \in Persisted /\ steps[r] \in StepRecords
  BY DEF InboxInv, ITypeOK, Idle, StepRecords
<1>2. ASSUME PersistRun(r) PROVE InboxInv'
  <2> DEFINE p == steps[r].path
             v == [status |-> "running", src |-> p, req |-> p.req]
  <2>1. p \in Paths /\ runs[r].status = "none"
    BY <1>2 DEF PersistRun, InboxInv, Items, Item, Unwritten
  <2>2. v \in Persisted /\ v.status = "running"
    BY <2>1 DEF Persisted, Paths
  <2>3. /\ runs' = [runs EXCEPT ![r] = v] /\ steps' = [steps EXCEPT ![r] = Idle]
        /\ UNCHANGED <<files, restore, clean, cleanups, crashes>>
    BY <1>2 DEF PersistRun
  <2> HIDE DEF v
  <2> QED
    BY <1>1, <2>1, <2>2, <2>3, RunIsWritten
<1>3. ASSUME PersistEnd(r) PROVE InboxInv'
  <2> DEFINE v == [runs[r] EXCEPT !.status = IF steps[r].step = "complete" THEN "succeeded"
                                             ELSE "canceled",
                                  !.src = steps[r].path]
  <2>1. /\ v \in Persisted /\ v.req = runs[r].req /\ v.src = steps[r].path
        /\ v.status = IF steps[r].step = "complete" THEN "succeeded" ELSE "canceled"
    BY <1>1 DEF Persisted, StepRecords, EndStatuses
  <2>2. /\ runs' = [runs EXCEPT ![r] = v] /\ steps' = [steps EXCEPT ![r] = Idle]
        /\ UNCHANGED <<files, restore, clean, cleanups, crashes>>
    BY <1>3 DEF PersistEnd
  <2> HIDE DEF v
  <2>3. v.status = "succeeded" /\ cleanups = 0 => Filed(v.src)
    BY <2>1 DEF InboxInv, Items
  <2> QED
    BY <1>1, <2>1, <2>2, <2>3, RunIsWritten
<1>4. ASSUME FailRun(r) PROVE InboxInv'
  <2> DEFINE v == [runs[r] EXCEPT !.status = "failed"]
  <2>1. v \in Persisted /\ v.req = runs[r].req /\ v.status = "failed"
    BY <1>1 DEF Persisted, EndStatuses
  <2>2. /\ runs' = [runs EXCEPT ![r] = v] /\ steps[r].step = "idle"
        /\ UNCHANGED <<files, steps, restore, clean, cleanups, crashes>>
    BY <1>4 DEF FailRun
  <2>3. steps' = [steps EXCEPT ![r] = steps[r]]
    BY <1>1, <2>2 DEF ITypeOK
  <2> HIDE DEF v
  <2> QED
    BY <1>1, <2>1, <2>2, <2>3, RunIsWritten
<1>5. ASSUME OperateRun(r) \/ CrashRun(r) PROVE InboxInv'
  <2> DEFINE busy == [Idle EXCEPT !.step = "busy"]
  <2>1. busy \in StepRecords /\ busy.step = "busy"
    BY DEF Idle, StepRecords
  <2>2. FilesMove /\ UNCHANGED <<runs, restore, clean, cleanups>>
    BY <1>1, <1>5, MoveNone DEF OperateRun, CrashRun
  <2>3. crashes' \in 0 .. MaxCrashes
    BY <1>1, <1>5, InboxAssumption DEF OperateRun, CrashRun
  <2>4. PICK s \in {busy, Idle} : steps' = [steps EXCEPT ![r] = s]
    BY <1>5 DEF OperateRun, CrashRun
  <2> HIDE DEF busy
  <2>5. s \in StepRecords /\ s.step \in {"busy", "idle"}
    BY <1>1, <2>1, <2>4
  <2> QED
    BY <2>2, <2>3, <2>4, <2>5, ProcessMoves DEF Item
<1> QED
  BY <1>2, <1>3, <1>4, <1>5

LEMMA FinishKeepsInbox ==
    ASSUME InboxInv, NEW r \in Runs, NEW dir \in {"complete", "canceled"},
           FinishRequest(r, dir)
    PROVE  InboxInv'
<1> DEFINE p == runs[r].src
<1>1. /\ ITypeOK /\ p \in Paths \cup {Stored} /\ crashes \in 0 .. MaxCrashes
      /\ UNCHANGED <<runs, restore, clean, cleanups, crashes>>
  BY DEF FinishRequest, InboxInv, ITypeOK, Persisted
<1>2. ASSUME NEW t \in Paths \cup {Stored}
      PROVE  /\ [Idle EXCEPT !.step = dir] = [step |-> dir, path |-> Stored, from |-> Stored]
             /\ [Idle EXCEPT !.step = dir, !.path = t]
                    = [step |-> dir, path |-> t, from |-> Stored]
  <2>1. [Idle EXCEPT !.step = dir] = [step |-> dir, path |-> Stored, from |-> Stored]
    BY DEF Idle
  <2> DEFINE u == [step |-> dir, path |-> Stored, from |-> Stored]
             v == [u EXCEPT !.path = t]
  <2>2. u \in StepRecords /\ v \in StepRecords /\ v.step = dir /\ v.path = t /\ v.from = Stored
    BY DEF StepRecords
  <2>3. v = [step |-> dir, path |-> t, from |-> Stored]
    <3> HIDE DEF v
    <3> QED
      BY <2>2 DEF StepRecords
  <2>4. [Idle EXCEPT !.step = dir, !.path = t] = [[Idle EXCEPT !.step = dir] EXCEPT !.path = t]
    OBVIOUS
  <2>5. [[Idle EXCEPT !.step = dir] EXCEPT !.path = t] = v
    BY <2>1, Zenon
  <2> QED
    BY <2>1, <2>3, <2>4, <2>5
<1>3. ASSUME NEW t \in Paths \cup {Stored}, FilesMove, t = Stored \/ (t.dir = dir /\ t \in files'),
             steps' = [steps EXCEPT ![r] = [step |-> dir, path |-> t, from |-> Stored]]
      PROVE  InboxInv'
  <2> DEFINE s == [step |-> dir, path |-> t, from |-> Stored]
  <2>1. s \in StepRecords /\ s.step = dir /\ s.path = t
    BY DEF StepRecords
  <2>2. s.step = "complete" => Filed(s.path)'
    BY <1>3, <2>1 DEF Filed
  <2>3. Item(s) /\ steps' = [steps EXCEPT ![r] = s] /\ s.step \notin {"checked", "claimed"}
    BY <1>3, <2>1 DEF Item
  <2> HIDE DEF s
  <2> QED
    BY <1>1, <1>3, <2>1, <2>2, <2>3, ProcessMoves
<1>4. CASE p = Stored
  <2>1. files' = files /\ steps' = [steps EXCEPT ![r] = [Idle EXCEPT !.step = dir]]
    BY <1>4 DEF FinishRequest
  <2> QED
    BY <1>1, <1>2, <1>3, <2>1, MoveNone
<1>5. CASE p # Stored /\ p.dir = dir /\ p \in files
  <2>1. files' = files /\ steps' = [steps EXCEPT ![r] = [Idle EXCEPT !.step = dir, !.path = p]]
    BY <1>5 DEF FinishRequest
  <2>2. steps' = [steps EXCEPT ![r] = [step |-> dir, path |-> p, from |-> Stored]]
    BY <1>1, <1>2, <2>1
  <2> HIDE DEF p
  <2> QED
    BY <1>1, <1>3, <1>5, <2>1, <2>2, MoveNone
<1>6. CASE p # Stored /\ ~(p.dir = dir /\ p \in files)
  <2> DEFINE t == FreeName(dir, p)
  <2>1. /\ p.dir = "active" /\ HasName(dir, p) /\ files' = (files \ {p}) \cup {t}
        /\ steps' = [steps EXCEPT ![r] = [Idle EXCEPT !.step = dir, !.path = t]]
    BY <1>6 DEF FinishRequest
  <2>2. p \in Paths /\ dir \in Dirs
    BY <1>1, <1>6 DEF Dirs
  <2>3. t \in Paths /\ t.dir = dir /\ t.req = p.req
    BY <2>1, <2>2, FreeNameIsFree
  <2>4. steps' = [steps EXCEPT ![r] = [step |-> dir, path |-> t, from |-> Stored]]
    BY <1>2, <2>1, <2>3
  <2> HIDE DEF p, t
  <2>5. FilesMove
    BY <1>1, <2>1, <2>2, <2>3, MoveOne
  <2> QED
    BY <1>3, <2>1, <2>3, <2>4, <2>5
<1> QED
  BY <1>4, <1>5, <1>6

LEMMA RestoreKeepsInbox ==
    ASSUME InboxInv,
           \/ \E p \in Paths : RestoreItem(p)
           \/ RecordRestore \/ RefuseRestore \/ CrashRestore
    PROVE  InboxInv'
<1>1. ITypeOK /\ restore \in Runs \cup {NoRun}
  BY DEF InboxInv, ITypeOK
<1>2. ASSUME FilesMove, UNCHANGED <<runs, steps, clean, cleanups>>,
             restore' \in Runs \cup {NoRun}, crashes' \in 0 .. MaxCrashes
      PROVE  InboxInv'
  <2>1. ITypeOK'
    BY <1>1, <1>2 DEF ITypeOK, FilesMove
  <2>2. \A p : Filed(p) /\ cleanups = 0 => Filed(p)'
    BY <1>2 DEF FilesMove, Filed
  <2>3. Items' /\ Unwritten'
    BY <1>2, <2>2 DEF InboxInv, Items, Item, Unwritten
  <2>4. RequestKept'
    BY <1>2 DEF InboxInv, RequestKept, FilesMove
  <2>5. SucceededIsFiled'
    BY <1>2, <2>2 DEF InboxInv, SucceededIsFiled, Filed
  <2> QED
    BY <1>2, <2>1, <2>3, <2>4, <2>5 DEF InboxInv, ReadWhatIsWritten, NothingPlanned
<1>3. ASSUME NEW p \in Paths, RestoreItem(p) PROVE InboxInv'
  <2>1. /\ In("queue", p) \in Paths /\ In("queue", p).req = p.req /\ p.dir # "complete"
    BY <1>3, InAnother DEF RestoreItem, Dirs
  <2>2. files' = (files \ {p}) \cup {In("queue", p)}
    BY <1>3 DEF RestoreItem
  <2>3. FilesMove
    BY <1>1, <2>1, <2>2, MoveOne
  <2>4. restore' \in Runs \cup {NoRun} /\ UNCHANGED <<runs, steps, clean, cleanups, crashes>>
    BY <1>3 DEF RestoreItem, Owners
  <2> QED
    BY <1>1, <1>2, <2>3, <2>4 DEF ITypeOK
<1>4. ASSUME RecordRestore PROVE InboxInv'
  <2>1. PICK r \in Runs \cup {NoRun} : r = restore
    BY <1>1
  <2>2. /\ r \in Runs /\ steps[r].step = "idle" /\ runs' = [runs EXCEPT ![r].src = Stored]
        /\ restore' = NoRun /\ UNCHANGED <<files, steps, clean, cleanups, crashes>>
    BY <1>4, <2>1 DEF RecordRestore
  <2> DEFINE v == [runs[r] EXCEPT !.src = Stored]
  <2>3. runs[r] \in Persisted /\ steps[r] \in StepRecords
    BY <1>1, <2>2 DEF ITypeOK, StepRecords
  <2>4. v \in Persisted /\ v.req = runs[r].req /\ v.status = runs[r].status /\ v.src = Stored
    BY <2>3 DEF Persisted
  <2>5. runs' = [runs EXCEPT ![r] = v] /\ steps' = [steps EXCEPT ![r] = steps[r]]
    BY <1>1, <2>2 DEF ITypeOK
  <2>6. v.status = "none" => v.req = "none"
    BY <2>2, <2>4 DEF InboxInv, Unwritten
  <2> HIDE DEF v
  <2> QED
    BY <2>2, <2>3, <2>4, <2>5, <2>6, RunIsWritten DEF Filed
<1>5. ASSUME RefuseRestore \/ CrashRestore PROVE InboxInv'
  <2>1. /\ UNCHANGED <<files, runs, steps, clean, cleanups>> /\ restore' = NoRun
        /\ crashes' \in 0 .. MaxCrashes
    BY <1>1, <1>5, InboxAssumption DEF RefuseRestore, CrashRestore, ITypeOK
  <2> QED
    BY <1>1, <1>2, <2>1, MoveNone
<1> QED
  BY <1>3, <1>4, <1>5

\* A file is claimed by a run that was written for its request.
LEMMA ClaimedForRequest ==
    ASSUME InboxInv, NEW p \in Paths, NEW r \in Claiming(p)
    PROVE  r \in Runs /\ runs[r].status # "none"
BY DEF Claiming, Owners

LEMMA CleanupKeepsInbox ==
    ASSUME InboxInv, StartReconcile \/ EndReconcile \/ \E m \in clean.moves : ReconcileItem(m)
    PROVE  InboxInv'
<1> DEFINE Moves == [from : Paths, to : Dirs, run : Runs \cup {NoRun}]
           Cleans == [on : BOOLEAN, read : [Runs -> Persisted], moves : SUBSET Moves]
<1>1. ITypeOK /\ clean \in Cleans /\ cleanups \in 0 .. MaxCleanups /\ files \subseteq Paths
  BY DEF InboxInv, ITypeOK
<1>2. ASSUME StartReconcile \/ EndReconcile PROVE InboxInv'
  <2>1. UNCHANGED <<files, runs, steps, restore, crashes>>
    BY <1>2 DEF StartReconcile, EndReconcile
  <2>2. clean' \in Cleans /\ cleanups' \in 0 .. MaxCleanups /\ (cleanups' = 0 => cleanups = 0)
        /\ NothingPlanned' /\ ReadWhatIsWritten'
    <3>1. CASE StartReconcile
      <4>1. /\ clean' = [on |-> TRUE, read |-> runs, moves |-> PlannedMoves]
            /\ cleanups' = cleanups + 1 /\ cleanups < MaxCleanups
        BY <3>1 DEF StartReconcile
      <4>2. PlannedMoves \in SUBSET Moves
        BY <1>1 DEF PlannedMoves
      <4>3. cleanups' \in 0 .. MaxCleanups /\ cleanups' # 0
        BY <1>1, <4>1, InboxAssumption
      <4>4. ASSUME NEW m \in PlannedMoves, m.run # NoRun
            PROVE  m.run \in Runs /\ runs[m.run].status # "none"
        BY <1>1, <4>4, ClaimedForRequest DEF PlannedMoves
      <4>5. clean'.moves = PlannedMoves /\ clean'.read = runs
        BY <4>1
      <4>6. ReadWhatIsWritten'
        BY <2>1, <4>4, <4>5 DEF ReadWhatIsWritten
      <4> QED
        BY <1>1, <4>1, <4>2, <4>3, <4>6 DEF ITypeOK, NothingPlanned
    <3>2. CASE EndReconcile
      <4>1. RunAtRest \in Cleans /\ RunAtRest.moves = {}
        BY DEF RunAtRest, NotCreated, Persisted
      <4>2. clean' = RunAtRest /\ cleanups' = cleanups
        BY <3>2 DEF EndReconcile
      <4> QED
        BY <1>1, <4>1, <4>2 DEF NothingPlanned, ReadWhatIsWritten
    <3> QED
      BY <1>2, <3>1, <3>2
  <2>3. ITypeOK'
    BY <1>1, <2>1, <2>2 DEF ITypeOK
  <2>4. Unwritten' /\ RequestKept'
    BY <2>1 DEF InboxInv, Unwritten, RequestKept
  <2>5. Items'
    BY <2>1, <2>2 DEF InboxInv, Items, Item, Filed
  <2>6. SucceededIsFiled'
    BY <2>1, <2>2 DEF InboxInv, SucceededIsFiled
  <2> QED
    BY <2>2, <2>3, <2>4, <2>5, <2>6 DEF InboxInv
<1>3. ASSUME NEW m \in clean.moves, ReconcileItem(m) PROVE InboxInv'
  <2> DEFINE to == IF m.to \in {"complete", "canceled"} THEN FreeName(m.to, m.from)
                   ELSE In(m.to, m.from)
             kept == {k \in clean.moves : k.from # m.from}
  <2>1. m.from \in Paths /\ m.to \in Dirs /\ m.run \in Runs \cup {NoRun} /\ cleanups # 0
    BY <1>1 DEF InboxInv, NothingPlanned
  <2>2. /\ HasName(m.to, m.from) /\ files' = (files \ {m.from}) \cup {to}
        /\ runs' = IF m.run = NoRun THEN runs
                   ELSE [runs EXCEPT ![m.run] = [clean.read[m.run] EXCEPT !.src = to]]
        /\ clean' = [clean EXCEPT !.moves = kept]
        /\ UNCHANGED <<steps, restore, cleanups, crashes>>
    BY <1>3 DEF ReconcileItem
  <2>3. to \in Paths /\ to.req = m.from.req
    BY <2>1, <2>2, FreeNameIsFree, InAnother
  <2> HIDE DEF to
  <2>4. FilesMove
    BY <1>1, <2>1, <2>2, <2>3, MoveOne
  <2>5. clean' \in Cleans /\ clean'.read = clean.read /\ clean'.moves \subseteq clean.moves
    BY <1>1, <2>2
  <2>6. /\ runs' \in [Runs -> Persisted]
        /\ \A r \in Runs : \/ runs'[r] = runs[r]
                           \/ /\ runs'[r].req = runs[r].req /\ runs[r].status # "none"
                              /\ runs'[r].status # "none"
    <3>1. CASE m.run = NoRun
      BY <1>1, <2>2, <3>1 DEF ITypeOK
    <3>2. CASE m.run # NoRun
      <4> DEFINE v == [clean.read[m.run] EXCEPT !.src = to]
      <4>1. /\ m.run \in Runs /\ runs[m.run].status # "none"
            /\ clean.read[m.run].status # "none" /\ clean.read[m.run].req = runs[m.run].req
        BY <3>2 DEF InboxInv, ReadWhatIsWritten
      <4>2. clean.read[m.run] \in Persisted
        BY <1>1, <4>1
      <4>3. v \in Persisted /\ v.req = runs[m.run].req /\ v.status # "none"
        BY <2>3, <4>1, <4>2 DEF Persisted
      <4>4. runs' = [runs EXCEPT ![m.run] = v]
        BY <2>2, <3>2
      <4> HIDE DEF v
      <4> QED
        BY <1>1, <4>1, <4>3, <4>4 DEF ITypeOK
    <3> QED
      BY <3>1, <3>2
  <2>7. ITypeOK'
    BY <1>1, <2>2, <2>4, <2>5, <2>6 DEF ITypeOK, FilesMove
  <2>8. Unwritten' /\ ReadWhatIsWritten'
    BY <2>2, <2>5, <2>6 DEF InboxInv, Unwritten, ReadWhatIsWritten
  <2>9. RequestKept'
    <3>1. ASSUME NEW q \in Requests, NEW r \in Runs, runs[r].req = q PROVE runs'[r].req = q
      BY <2>6, <3>1
    <3> QED
      BY <2>4, <3>1 DEF InboxInv, RequestKept, FilesMove
  <2>10. Items' /\ SucceededIsFiled' /\ NothingPlanned'
    BY <2>1, <2>2 DEF InboxInv, Items, Item, SucceededIsFiled, NothingPlanned
  <2> QED
    BY <2>7, <2>8, <2>9, <2>10 DEF InboxInv
<1> QED
  BY <1>2, <1>3

LEMMA InboxInvNext == InboxInv /\ [INext]_iVars => InboxInv'
<1> SUFFICES ASSUME InboxInv, [INext]_iVars PROVE InboxInv'
  OBVIOUS
<1>1. CASE INext
  BY <1>1, ClaimKeepsInbox, RunKeepsInbox, FinishKeepsInbox, RestoreKeepsInbox,
     CleanupKeepsInbox DEF INext
<1>2. CASE UNCHANGED iVars
  BY <1>2 DEF iVars, InboxInv, ITypeOK, Unwritten, ReadWhatIsWritten, NothingPlanned, Items,
              Item, Filed, RequestKept, SucceededIsFiled
<1> QED
  BY <1>1, <1>2

LEMMA InboxInvHolds == ISpec => []InboxInv
<1> QED
  BY InboxInvInit, InboxInvNext, PTL DEF ISpec

\* For any number of requests, runs, restores, reconciliations and deaths a
\* request is a file of the inbox or the stored copy of a run.
THEOREM RequestsAreKept == ISpec => []RequestKept
<1>1. InboxInv => RequestKept
  BY DEF InboxInv
<1> QED
  BY <1>1, InboxInvHolds, PTL

\* Until a reconciliation has begun, the item of a run that succeeded is in
\* complete/, or the run was repointed to its own copy.
THEOREM SuccessIsFiled == ISpec => []SucceededIsFiled
<1>1. InboxInv => SucceededIsFiled
  BY DEF InboxInv
<1> QED
  BY <1>1, InboxInvHolds, PTL

-----------------------------------------------------------------------------
(* The registry of agents                                                  *)

LEMMA AlsoHasBoth ==
    ASSUME NEW view, NEW other
    PROVE  DOMAIN Also(view, other) = DOMAIN view \union DOMAIN other
BY DEF Also

\* The registry keeps every agent it has, for any number of invocations and of
\* tickers that read it at any time and write it late or never.
THEOREM AgentsAreKept == YSpec => RegisteredKept
<1>1. ASSUME [YNext]_yVars PROVE DOMAIN registry \subseteq DOMAIN registry'
  <2>1. CASE \E i \in Invocations : RegisterPreparedInvocation(i)
    <3>1. PICK i \in Invocations : registry' = Also(registry, [j \in {i} |-> NewAgent])
      BY <2>1 DEF RegisterPreparedInvocation
    <3>2. DOMAIN registry' = DOMAIN registry \union DOMAIN [j \in {i} |-> NewAgent]
      BY <3>1, AlsoHasBoth
    <3> QED
      BY <3>2
  <2>2. CASE \E i \in Invocations : CompleteInvocationAgent(i)
    BY <2>2 DEF CompleteInvocationAgent
  <2>3. CASE \E t \in Tickers : TickWrites(t)
    <3>1. PICK t \in Tickers : registry' = Also(scan[t], registry)
      BY <2>3 DEF TickWrites
    <3>2. DOMAIN registry' = DOMAIN scan[t] \union DOMAIN registry
      BY <3>1, AlsoHasBoth
    <3> QED
      BY <3>2
  <2>4. CASE UNCHANGED registry
    BY <2>4
  <2> QED
    BY <1>1, <2>1, <2>2, <2>3, <2>4 DEF YNext, yVars, PrepareNext, TranscriptGrows,
       SubmitInvocation, DecideGate, TickScans, TickDies
<1> QED
  BY <1>1, PTL DEF YSpec, RegisteredKept
=============================================================================
