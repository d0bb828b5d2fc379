----------------------------- MODULE GatePasses -----------------------------
(***************************************************************************)
(* The cache of clean gate passes.  A submission gate first looks for a    *)
(* pass of its command, at the fingerprint of the workspace and under the  *)
(* configuration of the checks; without one it runs the command and stores *)
(* a clean result.  An agent that runs a profile itself stores its pass    *)
(* too, if the workspace has one fingerprint before and after.  The cache  *)
(* file is read and rewritten without a lock, entries expire, and their    *)
(* evidence may be archived.  Nobody holds the workspace or the            *)
(* configuration still while a command runs: a gate stores its pass under  *)
(* the content it looked up before.                                        *)
(***************************************************************************)
EXTENDS Naturals, FiniteSets

CONSTANTS
    Gates,            \* submissions that judge a gate
    Agents,           \* agents that run a profile from the command line
    Profiles,         \* profiles a gate may name, "full" one of them
    MaxFingerprint,   \* bound: contents the workspace takes
    MaxConfig,        \* bound: configurations of the checks
    Ttl,              \* CACHE_TTL_MS
    MaxEntries,       \* CACHE_MAX_ENTRIES
    MaxHours          \* bound: how long the clock runs

ASSUME GatesAssumption ==
    /\ Gates \cap Agents = {}
    /\ MaxFingerprint \in Nat \ {0} /\ MaxConfig \in Nat \ {0}
    /\ Ttl \in Nat /\ MaxEntries \in Nat \ {0} /\ MaxHours \in Nat

VARIABLES
    hour,         \* the clock
    fingerprint,  \* content of the workspace
    config,       \* runtime/repository-checks.json
    passes,       \* the cache file, one entry per key
    check         \* per process its check

gVars == <<hour, fingerprint, config, passes, check>>

Checkers == Gates \union Agents
Keys == [fingerprint : 1 .. MaxFingerprint, config : 1 .. MaxConfig, profile : Profiles]

\* An entry also remembers the content and the configuration its command started
\* on.  0 stands for one that was edited before the command ended; the content
\* under an agent's command is compared by the code and stays as it was.
Origins == [fingerprint : 0 .. MaxFingerprint, config : 0 .. MaxConfig, profile : Profiles]
Entries == [key : Keys, recordedBy : {"agent", "harness"}, cachedAt : 0 .. MaxHours,
            evidence : BOOLEAN, of : Origins]
NoCheck == [step |-> "idle"]
GateChecks == [step : {"hit"}, key : Keys, entry : Entries]
              \cup [step : {"runs"}, key : Keys, of : Origins]
AgentChecks == [step : {"runs"}, before : 1 .. MaxFingerprint, of : Origins]

GTypeOK ==
    /\ hour \in 0 .. MaxHours
    /\ fingerprint \in 1 .. MaxFingerprint /\ config \in 1 .. MaxConfig
    /\ passes \subseteq Entries
    /\ check \in [Checkers -> {NoCheck} \cup GateChecks \cup AgentChecks]
    /\ \A g \in Gates : check[g] \notin AgentChecks
    /\ \A a \in Agents : check[a] \notin GateChecks

GInit ==
    /\ hour = 0 /\ fingerprint = 1 /\ config = 1 /\ passes = {}
    /\ check = [p \in Checkers |-> NoCheck]

\* Digest of the fingerprint, the command and the configuration as it is now.
GateCacheKey(f, profile) == [fingerprint |-> f, config |-> config, profile |-> profile]

FreshEntries == {e \in passes : hour - e.cachedAt < Ttl}

\* The fresh entry under the key, if its evidence still exists.
GateCacheLookup(key) ==
    {e \in FreshEntries : e.key = key /\ e.evidence}

\* An agent's pass of the full profile cannot replace the harness-owned gate.
GateCacheLookupForGate(key) ==
    {e \in GateCacheLookup(key) : e.key.profile = "full" => e.recordedBy # "agent"}

\* The entry replaces one with its key, and the newest are kept.  The file is
\* read and rewritten without a lock, and what others store in between is lost:
\* of the rest any entries that fit may be left.
Stored(entry) ==
    {kept \cup {entry} :
        kept \in {k \in SUBSET {e \in FreshEntries : e.key # entry.key} :
                    Cardinality(k) < MaxEntries}}

-----------------------------------------------------------------------------

\* A command starts for `key`, which was made before.
Origin(key) ==
    [fingerprint |-> IF key.fingerprint = fingerprint THEN fingerprint ELSE 0,
     config      |-> IF key.config = config THEN config ELSE 0,
     profile     |-> key.profile]

\* A gate looks its key up; a miss runs the command.
GateLooksUp(g, profile) ==
    /\ check[g].step = "idle"
    /\ LET key == GateCacheKey(fingerprint, profile)
           hits == GateCacheLookupForGate(key)
       IN \/ \E e \in hits : check' = [check EXCEPT ![g] = [step |-> "hit", key |-> key, entry |-> e]]
          \/ /\ hits = {}
             /\ check' = [check EXCEPT ![g] = [step |-> "runs", key |-> key, of |-> Origin(key)]]
    /\ UNCHANGED <<hour, fingerprint, config, passes>>

\* The evidence of the entry is copied, and the gate passes; if it went missing
\* since the lookup, the command runs after all.  That another process dropped
\* the entry from the cache file says nothing of its evidence.
GateAccepts(g) ==
    /\ check[g].step = "hit"
    /\ LET entry == check[g].entry IN
       \/ /\ [entry EXCEPT !.evidence = FALSE] \notin passes
          /\ check' = [check EXCEPT ![g] = NoCheck]
       \/ /\ entry \notin passes
          /\ check' = [check EXCEPT ![g] = [step |-> "runs", key |-> @.key,
                                            of |-> Origin(@.key)]]
    /\ UNCHANGED <<hour, fingerprint, config, passes>>

AgentRuns(a, profile) ==
    /\ check[a].step = "idle"
    /\ check' = [check EXCEPT ![a] =
                    [step |-> "runs", before |-> fingerprint,
                     of |-> Origin(GateCacheKey(fingerprint, profile))]]
    /\ UNCHANGED <<hour, fingerprint, config, passes>>

GateCacheStore(key, by, of) ==
    passes' \in Stored([key |-> key, recordedBy |-> by, cachedAt |-> hour,
                        evidence |-> TRUE, of |-> of])

\* A clean pass is stored under the key of the lookup; every other result is
\* not stored.
GateFinishes(g) ==
    /\ g \in Gates /\ check[g].step = "runs"
    /\ GateCacheStore(check[g].key, "harness", check[g].of) \/ UNCHANGED passes
    /\ check' = [check EXCEPT ![g] = NoCheck]
    /\ UNCHANGED <<hour, fingerprint, config>>

\* Mutant: the fingerprint is not read again before the pass is keyed to it.
MutantAgentFinishes(a) ==
    /\ a \in Agents /\ check[a].step = "runs"
    /\ GateCacheStore(GateCacheKey(fingerprint, check[a].of.profile), "agent", check[a].of) \/ UNCHANGED passes
    /\ check' = [check EXCEPT ![a] = NoCheck]
    /\ UNCHANGED <<hour, fingerprint, config>>

\* The fingerprint is read again, and the key is made, after the run.
AgentFinishes(a) ==
    /\ a \in Agents /\ check[a].step = "runs"
    /\ \/ /\ fingerprint = check[a].before
          /\ GateCacheStore(GateCacheKey(fingerprint, check[a].of.profile), "agent", check[a].of)
       \/ UNCHANGED passes
    /\ check' = [check EXCEPT ![a] = NoCheck]
    /\ UNCHANGED <<hour, fingerprint, config>>

-----------------------------------------------------------------------------

\* Another content, also an earlier one; gates under way go on with both.
EditWorkspace(f) ==
    /\ f # fingerprint
    /\ fingerprint' = f
    /\ check' = [p \in Checkers |->
                    IF p \in Gates /\ check[p].step = "runs"
                    THEN [check[p] EXCEPT !.of = [@ EXCEPT !.fingerprint = 0]] ELSE check[p]]
    /\ UNCHANGED <<hour, config, passes>>

EditConfig(c) ==
    /\ c # config
    /\ config' = c
    /\ check' = [p \in Checkers |->
                    IF check[p].step = "runs"
                    THEN [check[p] EXCEPT !.of = [@ EXCEPT !.config = 0]] ELSE check[p]]
    /\ UNCHANGED <<hour, fingerprint, passes>>

\* The run that stored a pass is archived with its evidence.
ArchiveEvidence(e) ==
    /\ e.evidence
    /\ passes' = (passes \ {e}) \cup {[e EXCEPT !.evidence = FALSE]}
    /\ UNCHANGED <<hour, fingerprint, config, check>>

HourPasses ==
    /\ hour < MaxHours
    /\ hour' = hour + 1
    /\ UNCHANGED <<fingerprint, config, passes, check>>

GNext ==
    \/ \E g \in Gates : (\E f \in Profiles : GateLooksUp(g, f)) \/ GateAccepts(g) \/ GateFinishes(g)
    \/ \E a \in Agents : (\E f \in Profiles : AgentRuns(a, f)) \/ AgentFinishes(a)
    \/ \E f \in 1 .. MaxFingerprint : EditWorkspace(f)
    \/ \E c \in 1 .. MaxConfig : EditConfig(c)
    \/ \E e \in passes : ArchiveEvidence(e)
    \/ HourPasses

GSpec == GInit /\ [][GNext]_gVars

-----------------------------------------------------------------------------

\* The same command ran clean, and started on exactly the content and the
\* configuration of the key, unless what the key names was edited between the
\* reading of the fingerprint and the end of the command; an agent's command
\* started on that content whatever was edited.
Earned(entry) ==
    /\ entry.of.profile = entry.key.profile
    /\ entry.of.config \in {entry.key.config, 0}
    /\ \/ entry.of.fingerprint = entry.key.fingerprint
       \/ entry.of.fingerprint = 0 /\ entry.recordedBy = "harness"

\* A pass a gate is about to accept from the cache answers what the gate asks
\* and was earned, and the pass of the full profile was not an agent's.
AcceptedWasEarned ==
    \A g \in Gates : check[g].step = "hit" =>
        /\ check[g].entry.key = check[g].key /\ Earned(check[g].entry)
        /\ check[g].key.profile = "full" => check[g].entry.recordedBy = "harness"
=============================================================================
