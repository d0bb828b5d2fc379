---------------------------- MODULE WatchSessions ----------------------------
(***************************************************************************)
(* The watches of delegated workers (src/lib/watch).  A watch is a process *)
(* that claims the lock of every target it follows, opens a session in     *)
(* each target's ledger, and appends what it sees at every wake until a    *)
(* target reaches a verdict.  It may be interrupted by a signal, which     *)
(* closes its sessions, or die without cleanup.  The next watch of a       *)
(* target reads the ledger and records the time nobody observed.           *)
(*                                                                         *)
(* A focused watch follows one target, a multiplexed one several.  What an *)
(* observation shows is data: whether a target moved, whether its output   *)
(* is held for a confirming wake, and whether there is a verdict are       *)
(* choices.  An entry `armed` is folded into the entry before it.          *)
(***************************************************************************)
EXTENDS Naturals, Sequences, FiniteSets, FiniteSetsExt

CONSTANTS
    Watchers,       \* processes; each is one watch
    NoWatcher,
    Targets,        \* invocations, numbered in the order their locks are claimed
    Follows,        \* watch -> the targets it was started for
    UntilTerminal,  \* watches that do not return for routine movement
    MaxWakes,       \* bound: wakes of a session
    MaxWatchDeaths  \* bound: watches that die without cleanup

ASSUME WatchAssumption ==
    /\ Targets \subseteq Nat /\ NoWatcher \notin Watchers
    /\ Follows \in [Watchers -> (SUBSET Targets) \ {{}}]
    /\ MaxWakes \in Nat /\ MaxWatchDeaths \in Nat

VARIABLES
    watchLock, \* target -> the watch its lock file names
    ledger,    \* target -> its entries, oldest first
    place,     \* watch -> where it is
    claim,     \* watch -> the attempt to claim its next lock: tries, and the dead owner it read
    round      \* watch -> its wakes, the targets this round has seen, and those that moved

mind == <<claim, round>>
hVars == <<watchLock, ledger, place, mind>>

WatchPlaces == {"look", "remove", "create", "gap", "start", "first", "wake", "close",
                "release", "done", "dead"}
Live == {w \in Watchers : place[w] # "dead"}
Died == Watchers \ Live
FirstClaim == [tries |-> 0, owner |-> NoWatcher]
NewRound(n) == [wakes |-> n, seen |-> {}, moved |-> FALSE, last |-> FALSE]

Events == {"session_started", "wake", "session_ended", "gap"}
States == {"", "verdict", "interrupted", "orphan_session", "sibling_handoff"}

WatchTypeOK ==
    /\ watchLock \in [Targets -> Watchers \union {NoWatcher}]
    /\ \A t \in Targets : \A i \in 1 .. Len(ledger[t]) :
         ledger[t][i] \in [event : Events, by : Watchers \union {NoWatcher},
                          state : States, from : 0 .. i - 1]
    /\ place \in [Watchers -> WatchPlaces]
    /\ claim \in [Watchers -> [tries : {0, 1}, owner : Watchers \union {NoWatcher}]]
    /\ round \in [Watchers -> [wakes : 0 .. MaxWakes, seen : SUBSET Targets,
                              moved : BOOLEAN, last : BOOLEAN]]

HInit ==
    /\ watchLock = [t \in Targets |-> NoWatcher]
    /\ ledger = [t \in Targets |-> <<>>]
    /\ place = [w \in Watchers |-> "look"]
    /\ claim = [w \in Watchers |-> FirstClaim]
    /\ round = [w \in Watchers |-> NewRound(0)]

\* What a process knew is gone when it ends.
Gone(w) ==
    /\ claim' = [claim EXCEPT ![w] = FirstClaim]
    /\ round' = [round EXCEPT ![w] = NewRound(0)]

-----------------------------------------------------------------------------
(* Entries                                                                 *)

Entry(event, w, state) == [event |-> event, by |-> w, state |-> state, from |-> 0]
Started(w) == Entry("session_started", w, "")
Woken(w, state) == Entry("wake", w, state)
Ended(w) == Entry("session_ended", w, "")
GapFrom(i, reason) == [event |-> "gap", by |-> NoWatcher, state |-> reason, from |-> i]

Opened(w, t) == \E i \in 1 .. Len(ledger[t]) :
                   ledger[t][i].event = "session_started" /\ ledger[t][i].by = w
NoGap == GapFrom(0, "")

SessionEntries(entries, w) == {i \in 1 .. Len(entries) : entries[i].by = w}
Wakes(entries, w) == {i \in SessionEntries(entries, w) : entries[i].event = "wake"}
Closing(entries, w) ==
    {i \in SessionEntries(entries, w) :
        entries[i].event = "session_ended" \/ (entries[i].event = "wake" /\ entries[i].state # "")}

\* The entry from which nobody observed: the last wake, or what there is.
Anchor(entries, S, w) ==
    LET wakes == S \intersect Wakes(entries, w)
    IN  IF wakes # {} THEN Max(wakes) ELSE Max(S)

\* What a new session finds out about the one before it.
DetectSessionGap(entries) ==
    LET named == {i \in 1 .. Len(entries) : entries[i].by # NoWatcher}
        w == entries[Max(named)].by
        all == SessionEntries(entries, w)
        end == Min(Closing(entries, w))
    IN  CASE named = {} -> NoGap
          [] named # {} /\ Closing(entries, w) = {} ->
               GapFrom(Anchor(entries, all, w), "orphan_session")
          [] OTHER ->
               CASE entries[end].event = "session_ended" ->
                      GapFrom(Anchor(entries, {end} \union Wakes(entries, w), w), "sibling_handoff")
                 [] entries[end].state = "interrupted" ->
                      GapFrom(IF all = {end} THEN end ELSE Anchor(entries, all \ {end}, w), "interrupted")
                 [] OTHER -> NoGap

(* Mutant: a ledger shows one gap of each kind. *)
MutantSameGap(old, gap) == old.event = "gap" /\ old.state = gap.state

\* A gap is not repeated; its key is where it begins and why.
SameGap(old, gap) == old.event = "gap" /\ old.from = gap.from /\ old.state = gap.state
WithGap(entries, gap) ==
    IF gap = NoGap \/ \E i \in 1 .. Len(entries) : SameGap(entries[i], gap)
    THEN entries
    ELSE Append(entries, gap)

-----------------------------------------------------------------------------
(* Claiming the locks                                                      *)

Locked(w) == {t \in Follows[w] : watchLock[t] = w}
NextLock(w) == Min(Follows[w] \ Locked(w))

\* The locks of a watch that ends; only its own are removed.
Released(w) == [t \in Targets |-> IF watchLock[t] = w THEN NoWatcher ELSE watchLock[t]]

\* A refused watch gives back what it has claimed so far.
RefuseBusy(w) ==
    /\ watchLock' = Released(w)
    /\ place' = [place EXCEPT ![w] = "done"]
    /\ Gone(w)

JudgeOwner(w) ==
    /\ place[w] = "look"
    /\ LET owner == watchLock[NextLock(w)]
       IN  CASE owner \in Live -> RefuseBusy(w)
             [] owner = NoWatcher ->
                  /\ place' = [place EXCEPT ![w] = "create"]
                  /\ UNCHANGED <<watchLock, mind>>
             [] OTHER ->
                  /\ place' = [place EXCEPT ![w] = "remove"]
                  /\ claim' = [claim EXCEPT ![w].owner = owner]
                  /\ UNCHANGED <<watchLock, round>>
    /\ UNCHANGED ledger

\* The lock of a dead owner is removed by name.  OrderlyRemoval excludes the
\* schedules in which another watch has replaced it since it was read.
OrderlyRemoval(w) == watchLock[NextLock(w)] \in {NoWatcher, claim[w].owner}

RemoveStale(w) ==
    /\ place[w] = "remove" /\ OrderlyRemoval(w)
    /\ watchLock' = [watchLock EXCEPT ![NextLock(w)] = NoWatcher]
    /\ place' = [place EXCEPT ![w] = "create"]
    /\ UNCHANGED <<ledger, claim, round>>

Create(w) ==
    /\ place[w] = "create"
    /\ LET t == NextLock(w)
       IN  \/ /\ watchLock[t] = NoWatcher
              /\ watchLock' = [watchLock EXCEPT ![t] = w]
              /\ claim' = [claim EXCEPT ![w] = FirstClaim]
              /\ place' = [place EXCEPT ![w] = IF Follows[w] = Locked(w) \union {t} THEN "gap" ELSE "look"]
              /\ UNCHANGED round
           \/ /\ watchLock[t] # NoWatcher /\ claim[w].tries = 0
              /\ claim' = [claim EXCEPT ![w] = [tries |-> 1, owner |-> NoWatcher]]
              /\ place' = [place EXCEPT ![w] = "look"]
              /\ UNCHANGED <<watchLock, round>>
           \/ /\ watchLock[t] # NoWatcher /\ claim[w].tries = 1
              /\ RefuseBusy(w)
    /\ UNCHANGED ledger

-----------------------------------------------------------------------------
(* Opening the sessions, one target after the other                        *)

Unopened(w) == {t \in Follows[w] : ~Opened(w, t)}

\* The gap comes before the entry of the session that found it.
RecordGap(w) ==
    /\ place[w] = "gap"
    /\ LET t == Min(Unopened(w))
       IN  ledger' = [ledger EXCEPT ![t] = WithGap(@, DetectSessionGap(@))]
    /\ place' = [place EXCEPT ![w] = "start"]
    /\ UNCHANGED <<watchLock, mind>>

OpenSession(w) ==
    /\ place[w] = "start"
    /\ LET t == Min(Unopened(w))
       IN  /\ ledger' = [ledger EXCEPT ![t] = Append(@, Started(w))]
           /\ place' = [place EXCEPT ![w] = IF Unopened(w) = {t} THEN "first" ELSE "gap"]
    /\ UNCHANGED <<watchLock, mind>>

-----------------------------------------------------------------------------
(* Looking at the targets                                                  *)

Focused(w) == Cardinality(Follows[w]) = 1

\* Targets without a verdict: their sessions are open.
Open(w) == {t \in Follows[w] : Opened(w, t) /\ Closing(ledger[t], w) = {}}

NextSeen(w) == Min(Follows[w] \ round[w].seen)
SeenAll(w) == round[w].seen \union {NextSeen(w)} = Follows[w]

\* The observation of the start: a stop of the agent or strong evidence is a
\* verdict, weak evidence is recorded, nothing is not.
JudgeFirst(w) ==
    /\ place[w] = "first"
    /\ \E shown \in {"nothing", "", "verdict"} :
         LET some == round[w].moved \/ shown = "verdict"
         IN  /\ ledger' = IF shown = "nothing" THEN ledger
                          ELSE [ledger EXCEPT ![NextSeen(w)] = Append(@, Woken(w, shown))]
             /\ place' = [place EXCEPT ![w] =
                            IF ~SeenAll(w) THEN "first" ELSE IF some THEN "close" ELSE "wake"]
             /\ round' = [round EXCEPT ![w] =
                            IF SeenAll(w) THEN NewRound(0)
                            ELSE [round[w] EXCEPT !.seen = round[w].seen \union {NextSeen(w)},
                                                  !.moved = some]]
    /\ UNCHANGED <<watchLock, claim>>

\* One target at a wake.  A multiplexed watch may return for movement alone;
\* at its bound every target that does not make it return gets a verdict.
Wake(w) ==
    /\ place[w] = "wake" /\ round[w].wakes < MaxWakes
    /\ \E judged, moved, held, bound \in BOOLEAN :
         LET returns == ~Focused(w) /\ w \notin UntilTerminal /\ moved /\ ~held
             verdict == judged \/ (bound /\ ~returns)
             some == round[w].moved \/ returns \/ verdict
         IN  /\ round[w].seen # {} => bound = round[w].last
             /\ ledger' = [ledger EXCEPT ![NextSeen(w)] =
                             Append(@, Woken(w, IF verdict THEN "verdict" ELSE ""))]
             /\ place' = [place EXCEPT ![w] = IF SeenAll(w) /\ some THEN "close" ELSE "wake"]
             /\ round' = [round EXCEPT ![w] =
                            IF SeenAll(w) THEN NewRound(round[w].wakes + 1)
                            ELSE [round[w] EXCEPT !.seen = round[w].seen \union {NextSeen(w)},
                                                  !.moved = some, !.last = bound]]
    /\ UNCHANGED <<watchLock, claim>>

-----------------------------------------------------------------------------
(* The end of a watch                                                      *)

Closed(w, S, entry) ==
    ledger' = [t \in Targets |-> IF t \in S THEN Append(ledger[t], entry) ELSE ledger[t]]

\* The sessions without a verdict are handed to whoever watches next.
EndOpenSessions(w) ==
    /\ place[w] = "close"
    /\ Closed(w, Open(w), Ended(w))
    /\ place' = [place EXCEPT ![w] = "release"]
    /\ UNCHANGED <<watchLock, mind>>

ReleaseLocks(w) ==
    /\ place[w] = "release"
    /\ watchLock' = Released(w)
    /\ place' = [place EXCEPT ![w] = "done"]
    /\ Gone(w)
    /\ UNCHANGED ledger

\* A signal is handled while the watch sleeps.
Interrupt(w) ==
    /\ place[w] = "wake" /\ round[w].seen = {}
    /\ Closed(w, Open(w), Woken(w, "interrupted"))
    /\ watchLock' = Released(w)
    /\ place' = [place EXCEPT ![w] = "done"]
    /\ Gone(w)

WatchDies(w) ==
    /\ place[w] \notin {"done", "dead"} /\ Cardinality(Died) < MaxWatchDeaths
    /\ place' = [place EXCEPT ![w] = "dead"]
    /\ Gone(w)
    /\ UNCHANGED <<watchLock, ledger>>

HNext ==
    \E w \in Watchers :
        \/ JudgeOwner(w) \/ RemoveStale(w) \/ Create(w)
        \/ RecordGap(w) \/ OpenSession(w) \/ JudgeFirst(w) \/ Wake(w)
        \/ EndOpenSessions(w) \/ ReleaseLocks(w) \/ Interrupt(w) \/ WatchDies(w)

HSpec == HInit /\ [][HNext]_hVars

-----------------------------------------------------------------------------
(* Properties                                                              *)

ReachedVerdict(entries, w) ==
    \E i \in SessionEntries(entries, w) : entries[i].state = "verdict"
LastOf(entries, w, i) == Max({j \in SessionEntries(entries, w) : j < i})

\* Time in which nobody observed a worker is never presented as watched: if a
\* session follows one that ended without a verdict - handed over, interrupted
\* or orphaned - the ledger shows the gap of that session between the two.
LostTimeIsDisclosed ==
    \A t \in Targets : \A i \in 1 .. Len(ledger[t]) :
        LET entries == ledger[t]
            before == {j \in 1 .. i - 1 : entries[j].by # NoWatcher}
            w == entries[Max(before)].by
        IN  entries[i].event = "session_started" /\ before # {} /\ ~ReachedVerdict(entries, w)
            => \E k \in LastOf(entries, w, i) .. i : /\ entries[k].event = "gap"
                                                   /\ entries[k].from \in SessionEntries(entries, w)
=============================================================================
