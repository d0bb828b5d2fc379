----------------------------- MODULE Hypervisor -----------------------------
(***************************************************************************)
(* The registry of the agents that execute prepared invocations, of one    *)
(* run.  A preparation registers its agent and a submission completes it,  *)
(* each after it has let go of the run and under the ledger lock.  A tick  *)
(* -- of the daemon, or of an operator's command -- reads the registry and *)
(* observes the run without the lock, judges each agent it saw, and then   *)
(* writes its view under the lock.  No agent has process evidence: nothing *)
(* in the repository records a process id.                                 *)
(***************************************************************************)
EXTENDS Naturals, FiniteSets

CONSTANTS
    Tickers,         \* processes that tick
    MaxInvocations,  \* bound: invocations the run prepares
    QuietScans,      \* bound: quiet scans told apart; two already are a stall
    MaxTranscript    \* bound: writes of an agent to its transcript

VARIABLES
    prepared,    \* invocations prepared so far; the last one is the current one
    waitsFor,    \* what the run waits for: nothing current, the agent, a decision
    unregistered,\* invocations prepared whose agent is still to be registered
    uncompleted, \* invocations accepted whose agent is still to be completed
    transcript,  \* per invocation the writes to its transcript, 0: none found
    registry,    \* the agents' records
    scan         \* per ticker the view it will write

yVars == <<prepared, waitsFor, unregistered, uncompleted, transcript, registry, scan>>

Invocations == 1 .. MaxInvocations
Healths == {"unknown", "running", "stalled", "completed"}
AgentRecords == [seen : 0 .. MaxTranscript, quiet : 0 .. QuietScans, health : Healths, quarantined : BOOLEAN]
NoScan == <<>>

YTypeOK ==
    /\ prepared \in 0 .. MaxInvocations /\ waitsFor \in {"preparation", "agent", "decision"}
    /\ unregistered \subseteq Invocations /\ uncompleted \subseteq Invocations
    /\ transcript \in [Invocations -> 0 .. MaxTranscript]
    /\ DOMAIN registry \subseteq Invocations
    /\ \A i \in DOMAIN registry : registry[i] \in AgentRecords

YInit ==
    /\ prepared = 0 /\ waitsFor = "preparation" /\ unregistered = {} /\ uncompleted = {}
    /\ transcript = [i \in Invocations |-> 0]
    /\ registry = <<>> /\ scan = [t \in Tickers |-> NoScan]

Registered(i) == i \in DOMAIN registry

NewAgent == [seen |-> 0, quiet |-> 0, health |-> "unknown", quarantined |-> FALSE]

\* Records of the registry, and under other keys those of another view.
Also(view, other) ==
    [i \in DOMAIN view \union DOMAIN other |-> IF i \in DOMAIN view THEN view[i] ELSE other[i]]

-----------------------------------------------------------------------------

PrepareNext ==
    /\ waitsFor = "preparation" /\ prepared < MaxInvocations
    /\ prepared' = prepared + 1 /\ waitsFor' = "agent"
    /\ unregistered' = unregistered \union {prepared + 1}
    /\ UNCHANGED <<uncompleted, transcript, registry, scan>>

\* An agent a tick has already discovered stays as it is.
RegisterPreparedInvocation(i) ==
    /\ i \in unregistered
    /\ unregistered' = unregistered \ {i}
    /\ registry' = Also(registry, [j \in {i} |-> NewAgent])
    /\ UNCHANGED <<prepared, waitsFor, uncompleted, transcript, scan>>

TranscriptGrows ==
    /\ waitsFor = "agent" /\ transcript[prepared] < MaxTranscript
    /\ transcript' = [transcript EXCEPT ![prepared] = @ + 1]
    /\ UNCHANGED <<prepared, waitsFor, unregistered, uncompleted, registry, scan>>

\* An operator gate keeps the invocation current until it is decided.
SubmitInvocation ==
    /\ waitsFor = "agent"
    /\ waitsFor' \in {"preparation", "decision"}
    /\ uncompleted' = uncompleted \union {prepared}
    /\ UNCHANGED <<prepared, unregistered, transcript, registry, scan>>

DecideGate ==
    /\ waitsFor = "decision"
    /\ waitsFor' = "preparation"
    /\ UNCHANGED <<prepared, unregistered, uncompleted, transcript, registry, scan>>

\* An agent that was never registered is left alone.
CompleteInvocationAgent(i) ==
    /\ i \in uncompleted
    /\ uncompleted' = uncompleted \ {i}
    /\ registry' = IF Registered(i) THEN [registry EXCEPT ![i].health = "completed"] ELSE registry
    /\ UNCHANGED <<prepared, waitsFor, unregistered, transcript, scan>>

-----------------------------------------------------------------------------

\* Health and quiet scans of an agent whose transcript now has n writes.
ClassifyObservation(agent, n) ==
    IF waitsFor # "agent" THEN [health |-> "completed", quiet |-> 0]
    ELSE IF n > agent.seen THEN [health |-> "running", quiet |-> 0]
    ELSE IF n = 0 THEN [health |-> "unknown", quiet |-> agent.quiet]
    ELSE [health |-> IF agent.quiet + 1 >= 2 THEN "stalled" ELSE "running",
          quiet |-> IF agent.quiet < QuietScans THEN agent.quiet + 1 ELSE agent.quiet]

\* The agent's record after a scan; a stalled one is quarantined.
Reconciled(agent, n) ==
    LET judged == ClassifyObservation(agent, n) IN
    [seen |-> n, quiet |-> judged.quiet, health |-> judged.health,
     quarantined |-> agent.quarantined \/ judged.health = "stalled"]

\* Only the current invocation is observed.
TickScans(t) ==
    /\ scan[t] = NoScan /\ waitsFor # "preparation"
    /\ LET before == IF Registered(prepared) THEN registry[prepared] ELSE NewAgent IN
       scan' = [scan EXCEPT ![t] =
                   [i \in {prepared} |-> Reconciled(before, transcript[prepared])]]
    /\ UNCHANGED <<prepared, waitsFor, unregistered, uncompleted, transcript, registry>>

\* Mutant: the view replaces the registry.
MutantTickWrites(t) ==
    /\ scan[t] # NoScan
    /\ registry' = scan[t]
    /\ scan' = [scan EXCEPT ![t] = NoScan]
    /\ UNCHANGED <<prepared, waitsFor, unregistered, uncompleted, transcript>>

\* The view is written over the records it has, and the others are kept.
TickWrites(t) ==
    /\ scan[t] # NoScan
    /\ registry' = Also(scan[t], registry)
    /\ scan' = [scan EXCEPT ![t] = NoScan]
    /\ UNCHANGED <<prepared, waitsFor, unregistered, uncompleted, transcript>>

TickDies(t) ==
    /\ scan[t] # NoScan
    /\ scan' = [scan EXCEPT ![t] = NoScan]
    /\ UNCHANGED <<prepared, waitsFor, unregistered, uncompleted, transcript, registry>>

YNext ==
    \/ PrepareNext \/ TranscriptGrows \/ SubmitInvocation \/ DecideGate
    \/ \E i \in Invocations : RegisterPreparedInvocation(i) \/ CompleteInvocationAgent(i)
    \/ \E t \in Tickers : TickScans(t) \/ TickWrites(t) \/ TickDies(t)

YSpec == YInit /\ [][YNext]_yVars

-----------------------------------------------------------------------------

\* However scans, registrations and completions overlap, no agent of the
\* registry is lost: a scan that began before an agent was registered does not
\* write it away.
RegisteredKept == [][DOMAIN registry \subseteq DOMAIN registry']_yVars
=============================================================================
