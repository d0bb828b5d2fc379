------------------------------ MODULE DurableRun ------------------------------
(***************************************************************************)
(* What the store of a run promises its commands: changes are recorded one *)
(* after the other, each on top of all the earlier ones, and a load answers *)
(* with a recorded state that is no older than the load.                   *)
(*                                                                         *)
(* A state of the run is the sequence of the changes it contains, each named *)
(* by the process that made it; its revision is its length.                *)
(***************************************************************************)
EXTENDS Naturals, Sequences, SequencesExt

CONSTANTS Procs, NoState

VARIABLES
    history,    \* the last recorded state
    asked,      \* the revision that was recorded when a process began to load
    got         \* the state a process has from the store, or NoState

runVars == <<history, asked, got>>

DurableInit ==
    /\ history = <<>>
    /\ asked = [p \in Procs |-> 0]
    /\ got = [p \in Procs |-> NoState]

Commit(p) ==
    /\ history' = Append(history, p)
    /\ UNCHANGED <<asked, got>>

Ask(p) ==
    /\ asked' = [asked EXCEPT ![p] = Len(history)]
    /\ got' = [got EXCEPT ![p] = NoState]
    /\ UNCHANGED history

Answer(p) ==
    \E s \in Prefixes(history) :
        /\ Len(s) >= asked[p]
        /\ got' = [got EXCEPT ![p] = s]
        /\ UNCHANGED <<history, asked>>

Forget(p) ==
    /\ got' = [got EXCEPT ![p] = NoState]
    /\ UNCHANGED <<history, asked>>

DurableNext == \E p \in Procs : Commit(p) \/ Ask(p) \/ Answer(p) \/ Forget(p)

DurableSpec == DurableInit /\ [][DurableNext]_runVars
=============================================================================
