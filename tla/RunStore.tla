------------------------------- MODULE RunStore -------------------------------
(***************************************************************************)
(* The files of one run: src/lib/state.ts.  A command holds the mutex of   *)
(* the run, loads the state, and records one or more changes.  A change is *)
(* three writes: the artifact of the new revision, a line of the event log *)
(* that refers to it, and state.json.  A process may die or fail between   *)
(* them.  A load that finds the log ahead of state.json takes the state    *)
(* from the artifact and rewrites state.json; commands that only read load *)
(* without the mutex, and rewrite it all the same.                         *)
(*                                                                         *)
(* The state is represented as in DurableRun.  An artifact is named by the *)
(* revision and the digest of the state, so it is the state itself here.   *)
(***************************************************************************)
EXTENDS OperationMutex, Sequences, SequencesExt

CONSTANTS
    NoState,
    MaxCommits      \* bound: revisions recorded in a behaviour

ASSUME StoreAssumption == MaxCommits \in Nat

VARIABLES
    disk,       \* state.json
    events,     \* the event log: the state each line refers to
    artifacts,  \* the revision artifacts
    mem,        \* the state a process works on
    load,       \* where a process is in a load or in a change
    asked       \* the revision recorded when the process began to load

storeVars == <<disk, events, artifacts, mem, load, asked>>
runStoreVars == <<mutexVars, storeVars>>

Latest == IF events = <<>> THEN <<>> ELSE Last(events)

At(p, here, next) == load[p] = here /\ load' = [load EXCEPT ![p] = next]

StoreInit ==
    /\ MutexInit
    /\ disk = <<>>
    /\ events = <<>>
    /\ artifacts = {}
    /\ mem = [p \in Procs |-> NoState]
    /\ load = [p \in Procs |-> "none"]
    /\ asked = [p \in Procs |-> 0]

-----------------------------------------------------------------------------
(* loadState, in the mutex or outside of it                                *)

ReadState(p) ==
    /\ phase[p] \in {"idle", "holding"}
    /\ At(p, "none", "log")
    /\ mem' = [mem EXCEPT ![p] = disk]
    /\ asked' = [asked EXCEPT ![p] = Len(Latest)]
    /\ UNCHANGED <<mutexVars, disk, events, artifacts>>

(* Mutant: state.json is trusted without a look at the log. *)
MutantLogAhead(p) == FALSE

LogAhead(p) == Len(Latest) > Len(mem[p]) /\ Latest \in artifacts

ReadLog(p) ==
    /\ Alive(p)
    /\ At(p, "log", IF LogAhead(p) THEN "repair" ELSE "loaded")
    /\ mem' = IF LogAhead(p) THEN [mem EXCEPT ![p] = Latest] ELSE mem
    /\ UNCHANGED <<mutexVars, disk, events, artifacts, asked>>

Repair(p) ==
    /\ Alive(p)
    /\ At(p, "repair", "loaded")
    /\ disk' = mem[p]
    /\ UNCHANGED <<mutexVars, events, artifacts, mem, asked>>

EndRead(p) ==
    /\ phase[p] = "idle"
    /\ At(p, "loaded", "none")
    /\ mem' = [mem EXCEPT ![p] = NoState]
    /\ UNCHANGED <<mutexVars, disk, events, artifacts, asked>>

-----------------------------------------------------------------------------
(* persist                                                                 *)

WriteArtifact(p) ==
    /\ phase[p] = "holding"
    /\ At(p, "loaded", "artifact")
    /\ Len(mem[p]) < MaxCommits
    /\ mem' = [mem EXCEPT ![p] = Append(@, p)]
    /\ artifacts' = artifacts \cup {mem'[p]}
    /\ UNCHANGED <<mutexVars, disk, events, asked>>

AppendEvent(p) ==
    /\ phase[p] = "holding"
    /\ At(p, "artifact", "event")
    /\ events' = Append(events, mem[p])
    /\ UNCHANGED <<mutexVars, disk, artifacts, mem, asked>>

(* A closed run is recorded a second time, with its artifacts finalized.   *)
WriteState(p) ==
    /\ phase[p] = "holding"
    /\ At(p, "event", "loaded")
    /\ disk' = mem[p]
    /\ UNCHANGED <<mutexVars, events, artifacts, mem, asked>>

(* The callback returned, or one of the writes threw.                      *)
Finish(p) ==
    /\ Release(p)
    /\ load' = [load EXCEPT ![p] = "none"]
    /\ mem' = [mem EXCEPT ![p] = NoState]
    /\ UNCHANGED <<disk, events, artifacts, asked>>

-----------------------------------------------------------------------------
(* A process that reads takes no mutex meanwhile.                          *)
Serialize(p) ==
    /\ phase[p] = "idle" => load[p] = "none"
    /\ MutexStep(p) \/ OrderlySweep(p) \/ Die(p)
    /\ UNCHANGED storeVars

Load(p) == ReadState(p) \/ ReadLog(p) \/ Repair(p) \/ EndRead(p)

PersistChange(p) == WriteArtifact(p) \/ AppendEvent(p) \/ WriteState(p)

StoreNext == \E p \in Procs : Serialize(p) \/ Load(p) \/ PersistChange(p) \/ Finish(p)

StoreSpec == StoreInit /\ [][StoreNext]_runStoreVars

-----------------------------------------------------------------------------
(* What a command changes is the last recorded state, whatever crashed     *)
(* before it and whoever repairs state.json beside it: the check of        *)
(* loadState against the log, and the order of the writes of persist.      *)
LoadIsCurrent ==
    \A p \in Holders : load[p] = "loaded" => mem[p] = Latest

(* The files implement the store of DurableRun: no change is lost or       *)
(* recorded beside another, and no load answers with an older state than   *)
(* was recorded when it began.                                             *)
Answered ==
    [p \in Procs |-> IF load[p] = "loaded" THEN mem[p] ELSE NoState]

Run == INSTANCE DurableRun WITH history <- Latest, got <- Answered

Durable == Run!DurableSpec

StoreTypeOK ==
    /\ MutexTypeOK
    /\ disk \in Seq(Procs)
    /\ events \in Seq(Seq(Procs))
    /\ artifacts \subseteq Seq(Procs)
    /\ mem \in [Procs -> Seq(Procs) \cup {NoState}]
    /\ load \in [Procs ->
            {"none", "log", "repair", "loaded", "artifact", "event"}]
    /\ asked \in [Procs -> Nat]

=============================================================================
