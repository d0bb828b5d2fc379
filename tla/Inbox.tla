------------------------------- MODULE Inbox -------------------------------
(***************************************************************************)
(* A request is a file under runtime/inbox, in the directory of its        *)
(* lifecycle status.  `pan init` claims it into active/ and writes the run;*)
(* a run that ends moves it on; `pan inbox restore` puts it back in the    *)
(* queue; `pan cleanup` moves whatever disagrees with the run records.     *)
(* Files are moved and runs are written one after the other, by processes  *)
(* that do not hold a common lock and may die in between.                  *)
(***************************************************************************)
EXTENDS Naturals, FiniteSets, FiniteSetsExt

CONSTANTS
    Requests,     \* the requests captured in the inbox
    Runs,         \* the runs that may be created
    Restores,     \* TRUE: the operator restores items
    MaxCopies,    \* bound: files of one request that differ by a suffix
    MaxCleanups,  \* bound: reconciliations by `pan cleanup --apply`
    MaxCrashes    \* bound: processes that die

ASSUME InboxAssumption ==
    /\ Restores \in BOOLEAN /\ MaxCleanups \in Nat
    /\ MaxCopies \in Nat \ {0} /\ MaxCrashes \in Nat
    /\ "none" \notin Requests

VARIABLES
    files,    \* inbox files: directory, request, suffix
    runs,     \* per run what is persisted: status, source path, request
    steps,    \* per run the process that works on it: step and path
    restore,  \* the restore in progress: the owner it still has to record
    clean,    \* the reconciliation in progress: runs it read, moves to do
    cleanups, \* reconciliations begun
    crashes   \* processes that died

iVars == <<files, runs, steps, restore, clean, cleanups, crashes>>

Dirs == {"queue", "active", "canceled", "complete"}
Paths == [dir : Dirs, req : Requests, n : 1 .. MaxCopies]
NoRun == "none"
\* The run's own copy of its request, which is not in the inbox.
Stored == [dir |-> "run", req |-> "none", n |-> 0]
EndStatuses == {"succeeded", "failed", "canceled"}

Persisted == [status : {"none", "running"} \cup EndStatuses,
              src : Paths \cup {Stored}, req : Requests \cup {"none"}]
NotCreated == [status |-> "none", src |-> Stored, req |-> "none"]
Idle == [step |-> "idle", path |-> Stored, from |-> Stored]
RunAtRest == [on |-> FALSE, read |-> [r \in Runs |-> NotCreated], moves |-> {}]

ITypeOK ==
    /\ files \subseteq Paths
    /\ runs \in [Runs -> Persisted]
    /\ steps \in [Runs -> [step : {"idle", "busy", "checked", "claimed",
                     "complete", "canceled"}, path : Paths \cup {Stored},
                     from : Paths \cup {Stored}]]
    /\ restore \in Runs \cup {NoRun}
    /\ clean \in [on : BOOLEAN, read : [Runs -> Persisted],
                  moves : SUBSET [from : Paths, to : Dirs, run : Runs \cup {NoRun}]]
    /\ cleanups \in 0 .. MaxCleanups /\ crashes \in 0 .. MaxCrashes

IInit ==
    /\ files = {[dir |-> "queue", req |-> q, n |-> 1] : q \in Requests}
    /\ runs = [r \in Runs |-> NotCreated]
    /\ steps = [r \in Runs |-> Idle]
    /\ restore = NoRun
    /\ clean = RunAtRest
    /\ cleanups = 0 /\ crashes = 0

In(dir, p) == [p EXCEPT !.dir = dir]

\* A terminal directory gives a taken name a suffix.
FreeName(dir, p) ==
    IF In(dir, p) \notin files THEN In(dir, p)
    ELSE LET free == {k \in 1 .. MaxCopies :
                        [dir |-> dir, req |-> p.req, n |-> k] \notin files}
         IN  [dir |-> dir, req |-> p.req, n |-> Min(free)]

HasName(dir, p) == \/ In(dir, p) \notin files
                   \/ \E k \in 1 .. MaxCopies :
                         [dir |-> dir, req |-> p.req, n |-> k] \notin files

-----------------------------------------------------------------------------
(* pan init                                                                *)

\* The claim looks whether active/ has the name, then renames.
CheckClaim(r, p) ==
    /\ runs[r].status = "none" /\ steps[r].step = "idle"
    /\ p \in files /\ p.dir \in {"queue", "canceled"}
    /\ In("active", p) \notin files
    /\ steps' = [steps EXCEPT ![r] = [step |-> "checked", path |-> p, from |-> p]]
    /\ UNCHANGED <<files, runs, restore, clean, cleanups, crashes>>

\* The rename fails if the file is gone, and replaces a file of that name.
MoveClaim(r) ==
    LET p == steps[r].path IN
    /\ steps[r].step = "checked"
    /\ IF p \in files
       THEN /\ files' = (files \ {p}) \cup {In("active", p)}
            /\ steps' = [steps EXCEPT ![r] = [@ EXCEPT !.step = "claimed",
                                                       !.path = In("active", p)]]
       ELSE /\ steps' = [steps EXCEPT ![r] = Idle]
            /\ UNCHANGED files
    /\ UNCHANGED <<runs, restore, clean, cleanups, crashes>>

\* The request is copied and the run is written.
PersistRun(r) ==
    LET p == steps[r].path IN
    /\ steps[r].step = "claimed" /\ p \in files
    /\ runs' = [runs EXCEPT ![r] = [status |-> "running", src |-> p, req |-> p.req]]
    /\ steps' = [steps EXCEPT ![r] = Idle]
    /\ UNCHANGED <<files, restore, clean, cleanups, crashes>>

(* Mutant: the request is dropped with the run. *)
MutantRollbackClaim(r) ==
    /\ steps[r].step = "claimed"
    /\ files' = files \ {steps[r].path}
    /\ steps' = [steps EXCEPT ![r] = Idle]
    /\ UNCHANGED <<runs, restore, clean, cleanups, crashes>>

\* Anything fails after the claim: the file goes back where it came from,
\* unless it is gone or its old path was taken.
RollbackClaim(r) ==
    LET p == steps[r].path IN
    /\ steps[r].step = "claimed"
    /\ files' = IF p \in files /\ steps[r].from \notin files
                THEN (files \ {p}) \cup {steps[r].from} ELSE files
    /\ steps' = [steps EXCEPT ![r] = Idle]
    /\ UNCHANGED <<runs, restore, clean, cleanups, crashes>>

-----------------------------------------------------------------------------
(* A run ends, under its operation mutex                                   *)

\* finishInboxRequest: the item moves before the outcome is persisted.  A
\* missing item is replaced by the run's own copy.
FinishRequest(r, dir) ==
    LET p == runs[r].src IN
    /\ runs[r].status = "running" /\ steps[r].step = "idle"
    /\ IF p = Stored
       THEN /\ steps' = [steps EXCEPT ![r] = [Idle EXCEPT !.step = dir]]
            /\ UNCHANGED files
       ELSE IF p.dir = dir /\ p \in files
       THEN /\ steps' = [steps EXCEPT ![r] = [Idle EXCEPT !.step = dir, !.path = p]]
            /\ UNCHANGED files
       ELSE /\ p.dir = "active" /\ HasName(dir, p)
            /\ files' = (files \ {p}) \cup {FreeName(dir, p)}
            /\ steps' = [steps EXCEPT ![r] = [Idle EXCEPT !.step = dir,
                                                          !.path = FreeName(dir, p)]]
    /\ UNCHANGED <<runs, restore, clean, cleanups, crashes>>

(* Mutant: the new place of the item is not recorded. *)
MutantPersistEnd(r) ==
    /\ steps[r].step \in {"complete", "canceled"}
    /\ runs' = [runs EXCEPT ![r].status =
                   IF steps[r].step = "complete" THEN "succeeded" ELSE "canceled"]
    /\ steps' = [steps EXCEPT ![r] = Idle]
    /\ UNCHANGED <<files, restore, clean, cleanups, crashes>>

PersistEnd(r) ==
    /\ steps[r].step \in {"complete", "canceled"}
    /\ runs' = [runs EXCEPT ![r] = [@ EXCEPT
                   !.status = IF steps[r].step = "complete" THEN "succeeded"
                              ELSE "canceled",
                   !.src = steps[r].path]]
    /\ steps' = [steps EXCEPT ![r] = Idle]
    /\ UNCHANGED <<files, restore, clean, cleanups, crashes>>

\* A failed run leaves its item in active/.
FailRun(r) ==
    /\ runs[r].status = "running" /\ steps[r].step = "idle"
    /\ runs' = [runs EXCEPT ![r].status = "failed"]
    /\ UNCHANGED <<files, steps, restore, clean, cleanups, crashes>>

\* Any other operation on the run holds its mutex meanwhile.
OperateRun(r) ==
    /\ runs[r].status # "none" /\ steps[r].step \in {"idle", "busy"}
    /\ steps' = [steps EXCEPT ![r] = IF @.step = "busy" THEN Idle
                                     ELSE [Idle EXCEPT !.step = "busy"]]
    /\ UNCHANGED <<files, runs, restore, clean, cleanups, crashes>>

\* The process that works on a run dies; what it has not persisted is lost.
CrashRun(r) ==
    /\ steps[r].step # "idle" /\ crashes < MaxCrashes
    /\ steps' = [steps EXCEPT ![r] = Idle]
    /\ crashes' = crashes + 1
    /\ UNCHANGED <<files, runs, restore, clean, cleanups>>

-----------------------------------------------------------------------------
(* pan inbox restore                                                       *)

Owners(p) == {r \in Runs : runs[r].status # "none" /\ runs[r].src = p}

RestoreItem(p) ==
    /\ Restores /\ restore = NoRun
    /\ p \in files /\ p.dir \in {"canceled", "active"}
    /\ In("queue", p) \notin files
    /\ files' = (files \ {p}) \cup {In("queue", p)}
    /\ restore' \in IF Owners(p) = {} THEN {NoRun} ELSE Owners(p)
    /\ UNCHANGED <<runs, steps, clean, cleanups, crashes>>

\* The owner is repointed to its own copy, if its mutex is free and the
\* restoring process still lives.
RecordRestore ==
    /\ restore # NoRun
    /\ steps[restore].step = "idle"
    /\ runs' = [runs EXCEPT ![restore].src = Stored]
    /\ restore' = NoRun
    /\ UNCHANGED <<files, steps, clean, cleanups, crashes>>

RefuseRestore ==
    /\ restore # NoRun
    /\ steps[restore].step # "idle"
    /\ restore' = NoRun
    /\ UNCHANGED <<files, runs, steps, clean, cleanups, crashes>>

CrashRestore ==
    /\ restore # NoRun /\ crashes < MaxCrashes
    /\ restore' = NoRun
    /\ crashes' = crashes + 1
    /\ UNCHANGED <<files, runs, steps, clean, cleanups>>

-----------------------------------------------------------------------------
(* pan cleanup --apply                                                     *)

DirOf(status) == CASE status = "succeeded" -> "complete"
                   [] status = "canceled" -> "canceled"
                   [] OTHER -> "active"

\* The run that claims a file: by its path, or else by its file name.
Claiming(p) ==
    IF Owners(p) # {} THEN Owners(p)
    ELSE {r \in Runs : /\ runs[r].status # "none" /\ runs[r].src # Stored
                       /\ In("queue", runs[r].src) = In("queue", p)}

PlannedMoves ==
    {m \in [from : files, to : Dirs, run : Runs \cup {NoRun}] :
        /\ m.from.dir # m.to
        /\ IF Claiming(m.from) # {}
           THEN m.run \in Claiming(m.from) /\ m.to = DirOf(runs[m.run].status)
           ELSE m.run = NoRun /\ m.from.dir = "active" /\ m.to = "queue"}

\* Runs are read and moves are planned once, outside any mutex.
StartReconcile ==
    /\ cleanups < MaxCleanups /\ ~clean.on /\ PlannedMoves # {}
    /\ clean' = [on |-> TRUE, read |-> runs, moves |-> PlannedMoves]
    /\ cleanups' = cleanups + 1
    /\ UNCHANGED <<files, runs, steps, restore, crashes>>

\* Each item is moved and the run that was read is written back.
ReconcileItem(m) ==
    LET to == IF m.to \in {"complete", "canceled"} THEN FreeName(m.to, m.from)
              ELSE In(m.to, m.from)
    IN
    /\ m \in clean.moves
    /\ m.from \in files /\ HasName(m.to, m.from) /\ to \notin files
    /\ files' = (files \ {m.from}) \cup {to}
    /\ runs' = IF m.run = NoRun THEN runs
               ELSE [runs EXCEPT ![m.run] = [clean.read[m.run] EXCEPT !.src = to]]
    /\ clean' = [clean EXCEPT !.moves = {k \in @ : k.from # m.from}]
    /\ UNCHANGED <<steps, restore, cleanups, crashes>>

\* It is done, a file is gone or a name is taken.
EndReconcile ==
    /\ clean.on
    /\ clean' = RunAtRest
    /\ UNCHANGED <<files, runs, steps, restore, cleanups, crashes>>

INext ==
    \/ \E r \in Runs :
          \/ \E p \in Paths : CheckClaim(r, p)
          \/ MoveClaim(r) \/ PersistRun(r) \/ RollbackClaim(r)
          \/ \E dir \in {"complete", "canceled"} : FinishRequest(r, dir)
          \/ PersistEnd(r) \/ FailRun(r) \/ OperateRun(r) \/ CrashRun(r)
    \/ \E p \in Paths : RestoreItem(p)
    \/ RecordRestore \/ RefuseRestore \/ CrashRestore
    \/ StartReconcile \/ EndReconcile
    \/ \E m \in clean.moves : ReconcileItem(m)

ISpec == IInit /\ [][INext]_iVars

-----------------------------------------------------------------------------
(* Properties                                                              *)

\* A request is never lost: whoever dies in between, it is a file of the inbox
\* or the stored copy of a run that was written.
RequestKept ==
    \A q \in Requests :
        \/ \E p \in files : p.req = q
        \/ \E r \in Runs : runs[r].req = q

\* The request of a run that succeeded is filed as complete, also when its item
\* was restored or when an earlier attempt to end the run died.
SucceededIsFiled ==
    \A r \in Runs : runs[r].status = "succeeded" /\ cleanups = 0 =>
        \/ runs[r].src = Stored
        \/ runs[r].src \in files /\ runs[r].src.dir = "complete"
=============================================================================
