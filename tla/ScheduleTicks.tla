--------------------------- MODULE ScheduleTicks ---------------------------
(***************************************************************************)
(* `pan schedule tick` and `pan schedule run` on one scheduled job.  A     *)
(* tick decides on the most recent occurrence from the job's ledger, runs  *)
(* the action itself, which may take hours, appends its decision stamped   *)
(* with the instant the tick began, and then recomputes the job's alert.   *)
(* No lock covers a tick, and its process may be killed anywhere, also in  *)
(* the middle of the append.                                               *)
(***************************************************************************)
EXTENDS Integers, Sequences, SequencesExt, FiniteSets

CONSTANTS
    Ticks,      \* the processes a trigger or an operator starts
    Period,     \* instants from one occurrence to the next
    Window,     \* catch_up_window_minutes
    Grace,      \* grace_period_minutes
    MaxInstant, \* bound: the last instant a tick may begin at
    MaxKills    \* bound: ticks that are killed

ASSUME ScheduleAssumption ==
    /\ Period \in Nat \ {0} /\ Window \in Nat /\ Grace \in Nat
    /\ MaxInstant \in Nat /\ MaxKills \in Nat

VARIABLES
    instant,   \* the clock at the latest start of a tick
    enabled,   \* the job's switch in the configuration
    history,   \* the decisions of the ledger that can be read
    torn,      \* the ledger ends in a line that was only partly appended
    tick,      \* per process its step
    scheduled, \* runs the job's actions created that are still live
    alert,     \* instant the open alert was opened at, or NoAlert
    kills

schVars == <<instant, enabled, history, torn, tick, scheduled, alert, kills>>

NoAlert == -1
Never == -1
Asleep == [step |-> "idle", now |-> 0, forced |-> FALSE, read |-> NoAlert,
           verdict |-> "none"]
Successful == {"fired", "caught_up"}
Handled == Successful \cup {"dropped", "failed"}
Outcomes == Handled \cup {"deferred", "skipped"}
Instants == 0 .. MaxInstant

SchTypeOK ==
    /\ instant \in Instants /\ enabled \in BOOLEAN /\ torn \in BOOLEAN
    /\ history \in Seq([occurrence : Instants, outcome : Outcomes, at : Instants])
    /\ tick \in [Ticks -> [step : {"idle", "starting", "acting", "decided", "refreshing"},
                           now : Instants, forced : BOOLEAN,
                           read : Instants \cup {NoAlert},
                           verdict : {"none", "open", "shut", "recovered", "disabled"}]]
    /\ scheduled \in 0 .. MaxInstant /\ alert \in Instants \cup {NoAlert}
    /\ kills \in 0 .. MaxKills

SchInit ==
    /\ instant = 0 /\ enabled = TRUE /\ history = <<>> /\ torn = FALSE
    /\ tick = [p \in Ticks |-> Asleep]
    /\ scheduled = 0 /\ alert = NoAlert /\ kills = 0

-----------------------------------------------------------------------------
(* The ledger                                                              *)

\* mostRecentScheduleOccurrence
MostRecent(now) == now - (now % Period)

\* A forced job decides for the instant it is run at.
OccurrenceOf(t) == IF t.forced THEN t.now ELSE MostRecent(t.now)

\* appendJsonLine after a torn line ends that line: nothing new can be read.
AppendDecision(d) ==
    /\ history' = IF torn THEN history ELSE Append(history, d)
    /\ torn' = FALSE

Decision(t, outcome) ==
    [occurrence |-> OccurrenceOf(t), outcome |-> outcome, at |-> t.now]

Recorded(occurrence, outcomes) ==
    \E i \in DOMAIN history : /\ history[i].occurrence = occurrence
                              /\ history[i].outcome \in outcomes

\* A standing state is recorded once per occurrence.
RecordOnce(t, outcome) ==
    IF Recorded(OccurrenceOf(t), {outcome}) THEN UNCHANGED <<history, torn>>
    ELSE AppendDecision(Decision(t, outcome))

-----------------------------------------------------------------------------
(* decideJob                                                               *)

\* occupyingRun: a live run of the job's workspace.
Occupied == scheduled > 0

BeginTick(p, forced, now) ==
    LET t == [Asleep EXCEPT !.now = now, !.forced = forced]
        late == now - MostRecent(now) > Window
        goes(step) == tick' = [tick EXCEPT ![p] = [t EXCEPT !.step = step]]
    IN
    /\ tick[p].step = "idle" /\ now > instant
    /\ instant' = now
    /\ \/ /\ ~forced /\ ~enabled
          /\ RecordOnce(t, "skipped") /\ goes("decided") /\ UNCHANGED scheduled
       \/ /\ ~forced /\ enabled /\ Recorded(MostRecent(now), Handled)
          /\ goes("decided") /\ UNCHANGED <<history, torn, scheduled>>
       \/ /\ ~forced /\ enabled /\ ~Recorded(MostRecent(now), Handled) /\ late
          /\ AppendDecision(Decision(t, "dropped"))
          /\ goes("decided") /\ UNCHANGED scheduled
       \/ /\ forced \/ (enabled /\ ~Recorded(MostRecent(now), Handled) /\ ~late)
          /\ IF Occupied
             THEN RecordOnce(t, "deferred") /\ goes("decided") /\ UNCHANGED scheduled
             ELSE goes("starting") /\ UNCHANGED <<history, torn, scheduled>>
    /\ UNCHANGED <<enabled, alert, kills>>

\* runWorkflowAction creates the run after the target was found free, and
\* drives it.
StartAction(p) ==
    /\ tick[p].step = "starting"
    /\ scheduled' = scheduled + 1
    /\ tick' = [tick EXCEPT ![p].step = "acting"]
    /\ UNCHANGED <<instant, enabled, history, torn, alert, kills>>

\* The run succeeded, failed, or waits for a supervisor it does not have.
EndAction(p, ok, waits) ==
    /\ tick[p].step = "acting" /\ ~(ok /\ waits)
    /\ scheduled' = IF waits THEN scheduled ELSE scheduled - 1
    /\ LET t == tick[p]
           onTime == t.forced \/ t.now = MostRecent(t.now)
       IN AppendDecision(Decision(t, IF ~ok THEN "failed"
                                     ELSE IF onTime THEN "fired" ELSE "caught_up"))
    /\ tick' = [tick EXCEPT ![p].step = "decided"]
    /\ UNCHANGED <<instant, enabled, alert, kills>>

-----------------------------------------------------------------------------
(* refreshScheduleAlerts                                                   *)

LatestAt(outcomes) ==
    LET at == {i \in DOMAIN history : history[i].outcome \in outcomes}
    IN IF at = {} THEN Never
       ELSE history[CHOOSE i \in at : \A j \in at : j <= i].at

\* alertReason
AlertDue(now) ==
    LET success == LatestAt(Successful)  failure == LatestAt({"failed"}) IN
    /\ enabled
    /\ \/ failure # Never /\ failure > success
       \/ success # Never /\ now - success > Period + Window + Grace
       \/ success = Never /\ now - MostRecent(now) > Window + Grace

(* Mutant: an alert that is no longer due is cleared. *)
MutantAlertVerdict(now, open) ==
    IF AlertDue(now) THEN "open" ELSE IF ~enabled THEN "disabled" ELSE "recovered"

AlertVerdict(now, open) ==
    IF AlertDue(now) THEN "open"
    ELSE IF ~enabled THEN "disabled"
    ELSE IF LatestAt(Successful) # Never /\ LatestAt(Successful) >= open THEN "recovered"
    ELSE "shut"

RefreshAlert(p) ==
    /\ tick[p].step = "decided"
    /\ tick' = [tick EXCEPT ![p].step = "refreshing", ![p].read = alert,
                            ![p].verdict = AlertVerdict(tick[p].now, alert)]
    /\ UNCHANGED <<instant, enabled, history, torn, scheduled, alert, kills>>

\* An open alert keeps its instant; a shut one that no success closed stays.
WriteAlert(p) ==
    /\ tick[p].step = "refreshing"
    /\ alert' = CASE tick[p].verdict = "open" /\ tick[p].read = NoAlert -> tick[p].now
                  [] tick[p].verdict \in {"recovered", "disabled"} -> NoAlert
                  [] OTHER -> tick[p].read
    /\ tick' = [tick EXCEPT ![p] = Asleep]
    /\ UNCHANGED <<instant, enabled, history, torn, scheduled, kills>>

-----------------------------------------------------------------------------
(* Everything else                                                         *)

\* The operator or a supervisor finishes a run the job left waiting.
LeftRunEnds ==
    /\ scheduled > Cardinality({p \in Ticks : tick[p].step = "acting"})
    /\ scheduled' = scheduled - 1
    /\ UNCHANGED <<instant, enabled, history, torn, tick, alert, kills>>

SwitchJob ==
    /\ enabled' = ~enabled
    /\ UNCHANGED <<instant, history, torn, tick, scheduled, alert, kills>>

\* A kill in the middle of the append tears the line.
TickKilled(p, tears) ==
    /\ tick[p].step # "idle" /\ kills < MaxKills
    /\ tears => tick[p].step = "acting"
    /\ torn' = (torn \/ tears)
    /\ tick' = [tick EXCEPT ![p] = Asleep]
    /\ kills' = kills + 1
    /\ UNCHANGED <<instant, enabled, history, scheduled, alert>>

SchNext ==
    \/ LeftRunEnds \/ SwitchJob
    \/ \E p \in Ticks :
          \/ StartAction(p) \/ RefreshAlert(p) \/ WriteAlert(p)
          \/ \E forced \in BOOLEAN, now \in Instants : BeginTick(p, forced, now)
          \/ \E ok, waits \in BOOLEAN : EndAction(p, ok, waits)
          \/ \E tears \in BOOLEAN : TickKilled(p, tears)

SchSpec == SchInit /\ [][SchNext]_schVars

-----------------------------------------------------------------------------
(* Properties                                                              *)

\* "Only a success recorded after the alert opened clears it": whatever else
\* happens, the tick that clears an alert has seen one since that alert opened,
\* or found the job switched off, or it writes over an alert it never read,
\* because another tick wrote while it judged.
AlertStands ==
    [][alert # NoAlert /\ alert' = NoAlert =>
          \E p \in Ticks :
              /\ tick[p].step = "refreshing" /\ tick'[p] = Asleep
              /\ \/ tick[p].verdict = "disabled"
                 \/ tick[p].read # alert
                 \/ \E i \in DOMAIN history : /\ history[i].outcome \in Successful
                                              /\ history[i].at >= alert]_schVars
=============================================================================
