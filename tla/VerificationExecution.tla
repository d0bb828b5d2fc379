----------------------- MODULE VerificationExecution -----------------------
(***************************************************************************)
(* The verifier of a card has no shell.  The harness runs the authorized   *)
(* operations for it and keeps what they showed in the card's manifest; the*)
(* verifier grades the manifest, may ask for more, and is launched again   *)
(* when there is more.  Its report is bound to the observations of its     *)
(* launch by a context key.  Collection takes minutes: the source and the  *)
(* authority files may change before, during and after it and while an     *)
(* operation runs, and `pan prepare` may collect again while the worker is *)
(* out.                                                                    *)
(***************************************************************************)
EXTENDS Naturals, FiniteSets

CONSTANTS
    Required, Optional,  \* the card's operations
    Enforced,            \* TRUE: the system can confine a single process
    MaxSource,           \* bound: contents the workspace alternates between
    MaxCollections       \* bound: collections of one card

ASSUME VerificationAssumption ==
    /\ Required \cap Optional = {} /\ IsFiniteSet(Required \cup Optional)
    /\ Enforced \in BOOLEAN
    /\ MaxSource \in Nat /\ MaxCollections \in Nat

VARIABLES
    source,     \* content of the workspace
    authority,  \* the records that authorize the operations are unchanged
    manifest,   \* fingerprint, records, number of the last change of each kind
    coll,       \* the collection in progress
    bound,      \* context key of the report: a manifest key
    report,     \* present, what it asks for
    worker,     \* the delegated worker: step, launches left
    accepted    \* the report was accepted: the source and records of then

vVars == <<source, authority, manifest, coll, bound, report, worker, accepted>>

Ops == Required \cup Optional
Sources == 0 .. MaxSource
Counts == 0 .. MaxCollections
Budget == Cardinality(Ops) + 1

\* `at` is the content of the workspace when the operation ended.
NoRecord == [status |-> "none", fp |-> 0, single |-> FALSE, at |-> 0, made |-> 0]
NoRecords == [o \in Ops |-> NoRecord]
NoReport == [present |-> FALSE, asks |-> {}]
Resting == [by |-> "none", phase |-> "none", todo |-> {}, running |-> {}, fp |-> 0,
            recs |-> NoRecords, more |-> FALSE]

Records == [status : {"none", "gap", "failed", "collected"}, fp : Sources,
            single : BOOLEAN, at : Sources, made : Counts]

VTypeOK ==
    /\ source \in Sources /\ authority \in BOOLEAN
    /\ manifest \in [fp : Sources, recs : [Ops -> Records], key : Counts,
                     made : Counts, tries : Counts]
    /\ coll \in [by : {"none", "prepare", "delegate"}, phase : {"none", "sweep",
                 "requests", "bind"}, todo : SUBSET Ops, running : SUBSET Ops,
                 fp : Sources, recs : [Ops -> Records], more : BOOLEAN]
    /\ bound \in Counts
    /\ report \in [present : BOOLEAN, asks : SUBSET Ops]
    /\ worker \in [step : {"rest", "due", "launched", "ended"}, left : 0 .. Budget]
    /\ accepted \in [is : BOOLEAN, source : Sources, recs : [Ops -> Records]]

VInit ==
    /\ source = 0 /\ authority = TRUE
    /\ manifest = [fp |-> 0, recs |-> NoRecords, key |-> 0, made |-> 0, tries |-> 0]
    /\ coll = Resting
    /\ bound = 0
    /\ report = NoReport
    /\ worker = [step |-> "rest", left |-> 0]
    /\ accepted = [is |-> FALSE, source |-> 0, recs |-> NoRecords]

-----------------------------------------------------------------------------
(* The workspace and the authority files                                   *)

\* Any content, also an earlier one.
EditSource ==
    /\ source' \in Sources \ {source}
    /\ UNCHANGED <<authority, manifest, coll, bound, report, worker, accepted>>

\* An authorizing record is rewritten; its digest never matches again.
EditAuthority ==
    /\ authority /\ authority' = FALSE
    /\ UNCHANGED <<source, manifest, coll, bound, report, worker, accepted>>

-----------------------------------------------------------------------------
(* Collection, under the run's mutex and the manifest's                    *)

(* Mutant: only a success is kept. *)
MutantCurrentRecord(r, fp) == r.single /\ r.fp = fp /\ r.status = "collected"

\* A record is reused if it was made of this content under a confined process,
\* whatever it says.
CurrentRecord(r, fp) == r.single /\ r.fp = fp

Wanted(o) == \/ o \in Required
             \/ coll.phase = "requests" /\ o \in report.asks
             \/ manifest.recs[o].status # "none"

(* Mutant: the content is not compared after the run. *)
MutantRunOf(fp, n) ==
    {[status |-> s, fp |-> fp, single |-> TRUE, at |-> source, made |-> n] :
         s \in {"collected", "failed"}}

\* What an operation shows when it ends: if the content is another one then
\* than the fingerprint says, it is a gap unless it failed.
RunOf(fp, n) ==
    {[status |-> IF source # fp /\ s = "collected" THEN "gap" ELSE s,
      fp |-> fp, single |-> TRUE, at |-> source, made |-> n] :
         s \in {"collected", "failed"}}

\* What the collector notes of an operation it does not run.
NotRun(o) ==
    IF ~Wanted(o) THEN NoRecord
    ELSE IF authority /\ CurrentRecord(manifest.recs[o], coll.fp) THEN manifest.recs[o]
    ELSE [NoRecord EXCEPT !.status = "gap", !.fp = coll.fp, !.made = manifest.tries]

\* The operation is run: its authority stands, a single process can be
\* confined, and there is no record of this content.
Runs(o) ==
    Wanted(o) /\ authority /\ Enforced /\ ~CurrentRecord(manifest.recs[o], coll.fp)

SweepClaim(by) ==
    [Resting EXCEPT !.by = by, !.phase = "sweep", !.todo = Ops, !.fp = source]

\* `pan prepare` on a card that is already prepared.
StartPrepare ==
    /\ coll.by = "none" /\ ~accepted.is
    /\ manifest.tries < MaxCollections
    /\ coll' = SweepClaim("prepare")
    /\ manifest' = [manifest EXCEPT !.tries = @ + 1]
    /\ UNCHANGED <<source, authority, bound, report, worker, accepted>>

\* `pan delegate`, and its loop once the worker it launched has ended with
\* requests in its report.
StartDelegate ==
    /\ coll.by = "none" /\ ~accepted.is
    /\ manifest.tries < MaxCollections
    /\ \/ /\ worker.step = "rest"
          /\ worker' = [worker EXCEPT !.step = "due", !.left = Budget]
       \/ /\ worker.step = "ended" /\ worker.left > 0
          /\ report.present /\ report.asks # {}
          /\ UNCHANGED worker
    /\ coll' = SweepClaim("delegate")
    /\ manifest' = [manifest EXCEPT !.tries = @ + 1]
    /\ UNCHANGED <<source, authority, bound, report, accepted>>

NoteOperation(o) ==
    /\ o \in coll.todo /\ coll.running = {} /\ ~Runs(o)
    /\ coll' = [coll EXCEPT !.todo = @ \ {o}, !.recs[o] = NotRun(o)]
    /\ UNCHANGED <<source, authority, manifest, bound, report, worker, accepted>>

\* The process of the operation is started; it may run for its whole timeout.
BeginOperation(o) ==
    /\ o \in coll.todo /\ coll.running = {} /\ Runs(o)
    /\ coll' = [coll EXCEPT !.running = {o}]
    /\ UNCHANGED <<source, authority, manifest, bound, report, worker, accepted>>

\* It has ended, and the workspace is fingerprinted again.
EndOperation(o) ==
    /\ o \in coll.running
    /\ \E r \in RunOf(coll.fp, manifest.tries) :
          coll' = [coll EXCEPT !.todo = @ \ {o}, !.running = {}, !.recs[o] = r]
    /\ UNCHANGED <<source, authority, manifest, bound, report, worker, accepted>>

RequiredOf(recs) == [o \in Required |-> recs[o]]

\* The manifest is rewritten if anything in it changed; its key covers the
\* fingerprint and the required records.
Updated == coll.fp # manifest.fp \/ coll.recs # manifest.recs \/ manifest.made = 0
Collected ==
    LET n == manifest.tries
        same == /\ coll.fp = manifest.fp
                /\ RequiredOf(coll.recs) = RequiredOf(manifest.recs)
    IN  [manifest EXCEPT !.fp = coll.fp, !.recs = coll.recs,
                         !.made = IF Updated THEN n ELSE @,
                         !.key = IF same /\ manifest.key # 0 THEN @ ELSE n]

\* The requests in the verifier's report are served by a second collection.
FinishSweep ==
    /\ coll.phase = "sweep" /\ coll.todo = {}
    /\ IF report.present /\ report.asks # {}
       THEN /\ manifest.tries < MaxCollections
            /\ coll' = [SweepClaim(coll.by) EXCEPT !.phase = "requests"]
            /\ manifest' = [Collected EXCEPT !.tries = @ + 1]
       ELSE /\ coll' = [coll EXCEPT !.phase = "bind"]
            /\ manifest' = Collected
    /\ UNCHANGED <<source, authority, bound, report, worker, accepted>>

FinishRequests ==
    /\ coll.phase = "requests" /\ coll.todo = {}
    /\ coll' = [coll EXCEPT !.phase = "bind", !.more = Updated]
    /\ manifest' = Collected
    /\ UNCHANGED <<source, authority, bound, report, worker, accepted>>

\* invalidate: the report of another key is archived, and so is one whose
\* requests brought something new.
Archives == report.present /\ (bound # manifest.key \/ coll.more)

\* The worker goes out if it is the first launch, or again if its report was
\* archived; `pan prepare` launches nothing.
AfterBind ==
    IF coll.by = "prepare" THEN worker
    ELSE IF worker.step = "due" THEN [worker EXCEPT !.step = "launched"]
    ELSE IF Archives THEN [worker EXCEPT !.step = "launched", !.left = @ - 1]
    ELSE [worker EXCEPT !.step = "rest"]

Bind ==
    /\ coll.phase = "bind"
    /\ bound' = manifest.key
    /\ report' = IF Archives THEN NoReport ELSE report
    /\ worker' = AfterBind
    /\ coll' = Resting
    /\ UNCHANGED <<source, authority, manifest, accepted>>

-----------------------------------------------------------------------------
(* The worker, and the validator of what it delivers                       *)

WriteReport ==
    /\ worker.step = "launched"
    /\ \E asks \in SUBSET Ops : report' = [present |-> TRUE, asks |-> asks]
    /\ worker' = [worker EXCEPT !.step = "ended"]
    /\ UNCHANGED <<source, authority, manifest, coll, bound, accepted>>

\* The report asks for nothing, or the launches are used up.
EndDelegate ==
    /\ worker.step = "ended"
    /\ report.asks = {} \/ worker.left = 0
    /\ worker' = [worker EXCEPT !.step = "rest"]
    /\ UNCHANGED <<source, authority, manifest, coll, bound, report, accepted>>

NoGaps ==
    /\ manifest.made # 0 /\ manifest.fp = source /\ authority
    /\ \A o \in Ops :
          LET r == manifest.recs[o]
          IN  \/ o \in Optional /\ r.status = "none" /\ o \notin report.asks
              \/ r.status = "collected" /\ CurrentRecord(r, source)

\* A passing report is accepted only without gaps.
AcceptReport ==
    /\ coll.by = "none" /\ ~accepted.is
    /\ report.present /\ NoGaps
    /\ accepted' = [is |-> TRUE, source |-> source, recs |-> manifest.recs]
    /\ UNCHANGED <<source, authority, manifest, coll, bound, report, worker>>

VNext ==
    \/ EditSource \/ EditAuthority
    \/ StartPrepare \/ StartDelegate
    \/ \E o \in Ops : NoteOperation(o) \/ BeginOperation(o) \/ EndOperation(o)
    \/ FinishSweep \/ FinishRequests \/ Bind
    \/ WriteReport \/ EndDelegate \/ AcceptReport

VSpec == VInit /\ [][VNext]_vVars

-----------------------------------------------------------------------------
(* Properties                                                              *)

\* What an accepted report stands on was collected, successfully, with the
\* accepted content in the workspace when the operation ended, whatever was
\* edited before, between and after the collections: a change while an operation
\* runs is only missed if it is undone before the operation ends.
AcceptedAsObserved ==
    accepted.is => \A o \in Required :
        /\ accepted.recs[o].status = "collected"
        /\ accepted.recs[o].at = accepted.source

\* An observation is not rerolled: as long as the source is the same, what an
\* operation showed, failures included, is not replaced by another run of it.
NotRerolled ==
    [][\A o \in Ops :
          LET old == manifest.recs[o]
              new == manifest'.recs[o]
          IN  old.single /\ new # old => new.fp # old.fp \/ ~new.single]_vVars
=============================================================================
