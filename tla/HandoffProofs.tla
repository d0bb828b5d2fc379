--------------------------- MODULE HandoffProofs ---------------------------
(***************************************************************************)
(* What a supervisor session and its stage share.                          *)
(*                                                                         *)
(* Of all handoff attempts of a run at most one is open, and nothing is    *)
(* sent that the run has no record of, for any number of attempts and of   *)
(* attestations.  Both need what a process knows between its steps: one    *)
(* that has come past the pre-Send callback has a record.                  *)
(*                                                                         *)
(* An accepted verification report stands on successes that ended on the   *)
(* content that is accepted, and no observation is rerolled.               *)
(*                                                                         *)
(* A cached pass a gate accepts was earned, unless what it names was edited*)
(* while its command ran.                                                  *)
(***************************************************************************)
EXTENDS SupervisorHandoff, VerificationExecution, GatePasses, FiniteSetTheorems, TLAPS

HasRecord(a) == \E i \in 1 .. Len(records) : records[i].id = a
RecordedFirst == \A a \in Attempts : cli[a].step = "recorded" => HasRecord(a)
HandoffInv == HTypeOK /\ OneOpenHandoff /\ SentUnderRecord /\ RecordedFirst

\* What a step may do to the records: nothing, a new status of the latest one,
\* or a new record behind one that is closed.
LatestChanges ==
    /\ records # <<>>
    /\ \E s \in {"sending", "sent", "aborted", "accepted"} :
          records' = [records EXCEPT ![Len(records)].status = s]
RecordAdded == ~HandoffPending /\ \E r \in HandoffRecords : records' = Append(records, r)
RecordsStep == UNCHANGED records \/ LatestChanges \/ RecordAdded

\* A new status of the latest record leaves the other records alone.
LEMMA LatestChangesOnly ==
    ASSUME records \in Seq(HandoffRecords), OneOpenHandoff, LatestChanges
    PROVE  /\ records' \in Seq(HandoffRecords) /\ OneOpenHandoff'
           /\ Len(records') = Len(records)
           /\ \A i \in 1 .. Len(records) : records'[i].id = records[i].id
<1>1. PICK s \in {"sending", "sent", "aborted", "accepted"} :
         records' = [records EXCEPT ![Len(records)].status = s]
  BY DEF LatestChanges
<1>2. Len(records) \in 1 .. Len(records) /\ records[Len(records)] \in HandoffRecords
  BY DEF LatestChanges
<1> DEFINE changed == [records[Len(records)] EXCEPT !.status = s]
<1>3. changed \in HandoffRecords /\ changed.id = records[Len(records)].id
  BY <1>2 DEF HandoffRecords
<1>4. records' = [records EXCEPT ![Len(records)] = changed]
  BY <1>1
<1> HIDE DEF changed
<1>5. records' \in Seq(HandoffRecords) /\ Len(records') = Len(records)
  BY <1>2, <1>3, <1>4
<1>6. \A i \in 1 .. Len(records) :
         records'[i] = IF i = Len(records) THEN changed ELSE records[i]
  BY <1>2, <1>4
<1>7. OneOpenHandoff'
  BY <1>5, <1>6 DEF OneOpenHandoff, OpenRecord
<1> QED BY <1>3, <1>5, <1>6, <1>7

\* A new record never follows an open one.
LEMMA RecordAddedLast ==
    ASSUME records \in Seq(HandoffRecords), OneOpenHandoff, RecordAdded
    PROVE  /\ records' \in Seq(HandoffRecords) /\ OneOpenHandoff'
           /\ Len(records') = Len(records) + 1
           /\ \A i \in 1 .. Len(records) : records'[i].id = records[i].id
<1>1. PICK r \in HandoffRecords : records' = Append(records, r)
  BY DEF RecordAdded
<1>2. records' \in Seq(HandoffRecords) /\ Len(records') = Len(records) + 1
  BY <1>1
<1>3. \A i \in 1 .. Len(records) : records'[i] = records[i]
  BY <1>1
<1>4. OneOpenHandoff'
  <2> SUFFICES ASSUME NEW i \in 1 .. Len(records) PROVE ~OpenRecord(records[i])
      BY <1>2, <1>3 DEF OneOpenHandoff, OpenRecord
  <2>1. CASE i = Len(records)
    <3>1. records # <<>>
      BY <2>1
    <3> QED BY <2>1, <3>1 DEF RecordAdded, HandoffPending, Last
  <2>2. CASE i # Len(records)
    BY <2>2 DEF OneOpenHandoff
  <2> QED BY <2>1, <2>2
<1> QED BY <1>2, <1>3, <1>4

\* No step of the records takes an attempt's record away.
LEMMA RecordsStay ==
    ASSUME records \in Seq(HandoffRecords), OneOpenHandoff, RecordsStep
    PROVE  /\ records' \in Seq(HandoffRecords) /\ OneOpenHandoff'
           /\ \A a \in Attempts : HasRecord(a) => HasRecord(a)'
<1> SUFFICES /\ records' \in Seq(HandoffRecords) /\ OneOpenHandoff'
             /\ Len(records') >= Len(records)
             /\ \A i \in 1 .. Len(records) : records'[i].id = records[i].id
    BY DEF HasRecord
<1>1. CASE UNCHANGED records
  BY <1>1 DEF OneOpenHandoff, OpenRecord
<1>2. CASE LatestChanges
  BY <1>2, LatestChangesOnly
<1>3. CASE RecordAdded
  BY <1>3, RecordAddedLast
<1> QED BY <1>1, <1>2, <1>3 DEF RecordsStep

\* The types of everything but the records.
RestOK ==
    /\ hrun \in [pending : {"prepare", "invoke"}, watch : BOOLEAN, bound : BOOLEAN]
    /\ library \in 1 .. MaxEdits + 1
    /\ card \in [digest : 0 .. MaxEdits + 1, attested : 0 .. MaxEdits + 1,
                 generation : 0 .. MaxGeneration]
    /\ redline \subseteq 1 .. MaxGeneration
    /\ cli \in [Attempts -> [step : {"idle", "open", "drafted", "checked",
                  "recorded", "pressed", "failed", "done", "dead"},
                  from : 0 .. MaxGeneration, dry : BOOLEAN]]
    /\ window \in [Attempts -> Chats] /\ chat \in [Attempts -> Chats]
    /\ touches \in 0 .. MaxTouches

USE HandoffAssumption

LEMMA RestIsTyped == HTypeOK <=> RestOK /\ records \in Seq(HandoffRecords)
  BY DEF HTypeOK, RestOK

\* Steps that neither send nor touch the records.
LEMMA BystanderStep ==
    ASSUME HandoffInv, RestOK', UNCHANGED <<records, chat>>,
           \A a \in Attempts : cli'[a].step = "recorded" => cli[a].step = "recorded"
    PROVE  HandoffInv'
<1>1. HTypeOK' /\ OneOpenHandoff'
  BY RestIsTyped DEF HandoffInv, HTypeOK, RestOK, OneOpenHandoff, OpenRecord
<1>2. SentUnderRecord' /\ RecordedFirst'
  BY DEF HandoffInv, SentUnderRecord, RecordedFirst, HasRecord
<1> QED BY <1>1, <1>2 DEF HandoffInv

\* Steps that change the records but send nothing.
LEMMA RecordingStep ==
    ASSUME HandoffInv, RestOK', RecordsStep, UNCHANGED chat,
           \A a \in Attempts : cli'[a].step = "recorded" => cli[a].step = "recorded" \/ HasRecord(a)'
    PROVE  HandoffInv'
<1>1. /\ records' \in Seq(HandoffRecords) /\ OneOpenHandoff'
      /\ \A a \in Attempts : HasRecord(a) => HasRecord(a)'
  BY RecordsStay DEF HandoffInv, HTypeOK
<1>2. HTypeOK'
  BY <1>1 DEF HTypeOK, RestOK
<1>3. SentUnderRecord' /\ RecordedFirst'
  BY <1>1 DEF HandoffInv, SentUnderRecord, RecordedFirst, HasRecord
<1> QED BY <1>1, <1>2, <1>3 DEF HandoffInv

Steps == {"idle", "open", "drafted", "checked", "recorded", "pressed", "failed", "done", "dead"}
AttemptStates == [step : Steps, from : 0 .. MaxGeneration, dry : BOOLEAN]

LEMMA NoChatIsTyped == NoChat \in Chats
  BY DEF NoChat, Chats

LEMMA RestByParts == RestOK <=>
    /\ hrun \in [pending : {"prepare", "invoke"}, watch : BOOLEAN, bound : BOOLEAN]
    /\ library \in 1 .. MaxEdits + 1
    /\ card \in [digest : 0 .. MaxEdits + 1, attested : 0 .. MaxEdits + 1,
                 generation : 0 .. MaxGeneration]
    /\ redline \subseteq 1 .. MaxGeneration
    /\ cli \in [Attempts -> AttemptStates]
    /\ window \in [Attempts -> Chats] /\ chat \in [Attempts -> Chats]
    /\ touches \in 0 .. MaxTouches
  BY DEF RestOK, AttemptStates, Steps

\* A process takes a step of its own; the other processes stay where they are.
LEMMA StepIsTyped ==
    ASSUME cli \in [Attempts -> AttemptStates], NEW a \in Attempts, NEW to \in Steps,
           cli' = [cli EXCEPT ![a].step = to]
    PROVE  /\ cli' \in [Attempts -> AttemptStates] /\ cli'[a].step = to
           /\ \A b \in Attempts : b # a => cli'[b] = cli[b]
<1>1. [cli[a] EXCEPT !.step = to] \in AttemptStates
  BY DEF AttemptStates
<1>2. cli' = [cli EXCEPT ![a] = [cli[a] EXCEPT !.step = to]]
  OBVIOUS
<1>3. [cli[a] EXCEPT !.step = to].step = to
  BY DEF AttemptStates
<1> QED BY <1>1, <1>2, <1>3

LEMMA LeavingIsTyped ==
    ASSUME cli \in [Attempts -> AttemptStates], NEW a \in Attempts, NEW to \in Steps, Leave(a, to)
    PROVE  /\ cli' \in [Attempts -> AttemptStates] /\ cli'[a].step = to
           /\ \A b \in Attempts : b # a => cli'[b] = cli[b]
<1> DEFINE over == [step |-> to, from |-> 0, dry |-> FALSE]
<1>1. over \in AttemptStates /\ over.step = to
  BY DEF AttemptStates
<1>2. cli' = [cli EXCEPT ![a] = over]
  BY DEF Leave
<1> HIDE DEF over
<1> QED BY <1>1, <1>2

LEMMA HandoffInvInit == HInit => HandoffInv
<1> SUFFICES ASSUME HInit PROVE HandoffInv
    OBVIOUS
<1>1. RestOK
  <2>1. cli \in [Attempts -> AttemptStates]
    BY DEF HInit, AttemptStates, Steps
  <2>2. card \in [digest : 0 .. MaxEdits + 1, attested : 0 .. MaxEdits + 1,
                 generation : 0 .. MaxGeneration]
    BY DEF HInit
  <2>3. hrun \in [pending : {"prepare", "invoke"}, watch : BOOLEAN, bound : BOOLEAN]
    BY DEF HInit
  <2>4. window \in [Attempts -> Chats] /\ chat \in [Attempts -> Chats]
    BY NoChatIsTyped DEF HInit
  <2> QED BY <2>1, <2>2, <2>3, <2>4, RestByParts DEF HInit
<1>3. HTypeOK
  BY <1>1, RestIsTyped DEF HInit
<1>2. OneOpenHandoff /\ SentUnderRecord /\ RecordedFirst
  BY DEF HInit, OneOpenHandoff, SentUnderRecord, RecordedFirst
<1> QED BY <1>2, <1>3 DEF HandoffInv

LEMMA CardIsTyped == ASSUME RestOK
    PROVE Rendered \in [digest : 0 .. MaxEdits + 1, attested : 0 .. MaxEdits + 1,
                        generation : 0 .. MaxGeneration]
  BY DEF RestOK, Rendered

LEMMA HandoffInvNext == HandoffInv /\ [HNext]_hVars => HandoffInv'
<1> SUFFICES ASSUME HandoffInv, [HNext]_hVars PROVE HandoffInv'
    OBVIOUS
<1>0. RestOK /\ records \in Seq(HandoffRecords)
  BY RestIsTyped DEF HandoffInv
<1>1. CASE EditPolicy \/ DeclareRedline \/ Submit \/ ArmWatch \/ EndWatch
  <2>3. hrun' \in [pending : {"prepare", "invoke"}, watch : BOOLEAN, bound : BOOLEAN]
    BY <1>0, <1>1 DEF RestOK, EditPolicy, DeclareRedline, Submit, ArmWatch, EndWatch
  <2>4. redline' \subseteq 1 .. MaxGeneration
    BY <1>0, <1>1 DEF RestOK, EditPolicy, DeclareRedline, Submit, ArmWatch, EndWatch
  <2>5. library' \in 1 .. MaxEdits + 1
    BY <1>0, <1>1 DEF RestOK, EditPolicy, DeclareRedline, Submit, ArmWatch, EndWatch
  <2>1. RestOK'
    BY <1>0, <1>1, <2>3, <2>4, <2>5 DEF RestOK, EditPolicy, DeclareRedline, Submit, ArmWatch, EndWatch
  <2>2. UNCHANGED <<records, chat, cli>>
    BY <1>1 DEF EditPolicy, DeclareRedline, Submit, ArmWatch, EndWatch
  <2> QED BY <2>1, <2>2, BystanderStep
<1>2. CASE RenderCard \/ Prepare
  <2>1. RestOK'
    BY <1>0, <1>2, CardIsTyped DEF RestOK, RenderCard, Prepare
  <2>2. UNCHANGED <<records, chat, cli>>
    BY <1>2 DEF RenderCard, Prepare
  <2> QED BY <2>1, <2>2, BystanderStep
<1>3. CASE Attest
  <2>4. card' \in [digest : 0 .. MaxEdits + 1, attested : 0 .. MaxEdits + 1,
                   generation : 0 .. MaxGeneration]
    <3>1. /\ card.digest \in 0 .. MaxEdits + 1
          /\ card.generation \in 0 .. MaxGeneration /\ card.generation < MaxGeneration
      BY <1>0, <1>3 DEF RestOK, Attest
    <3>2. card.generation + 1 \in 0 .. MaxGeneration
      BY <3>1
    <3>3. card = [digest |-> card.digest, attested |-> card.attested,
                  generation |-> card.generation]
      BY <1>0 DEF RestOK
    <3>4. card' = [digest |-> card.digest, attested |-> card.digest,
                   generation |-> card.generation + 1]
      BY <1>3, <3>3 DEF Attest
    <3> QED BY <3>1, <3>2, <3>4
  <2>1. RestOK'
    BY <1>0, <1>3, <2>4 DEF RestOK, Attest
  <2>2. RecordsStep
    BY <1>3 DEF Attest, Accepted, HandoffPending, RecordsStep, LatestChanges
  <2>3. UNCHANGED <<chat, cli>>
    BY <1>3 DEF Attest
  <2> QED BY <2>1, <2>2, <2>3, RecordingStep
<1>4. ASSUME NEW a \in Attempts, NEW dry \in BOOLEAN, StartHandoff(a, dry) PROVE HandoffInv'
  <2>1. RestOK'
    BY <1>0, <1>4 DEF RestOK, StartHandoff
  <2>2. UNCHANGED <<records, chat>>
    BY <1>4 DEF StartHandoff
  <2>3. \A b \in Attempts : cli'[b].step = "recorded" => cli[b].step = "recorded"
    BY <1>0, <1>4 DEF StartHandoff, RestOK
  <2> QED BY <2>1, <2>2, <2>3, BystanderStep
<1>5. ASSUME NEW a \in Attempts, DraftPrompt(a) PROVE HandoffInv'
  <2>6. window[a] \in Chats
    BY <1>0 DEF RestOK
  <2>1. ChatOpened(window[a]) \in Chats
    BY <2>6 DEF Chats, ChatOpened
  <2>2. EffortSelected(ModelSelected(PromptWritten(ChatOpened(window[a])))) \in Chats
    BY <2>1 DEF Chats, PromptWritten, ModelSelected, EffortSelected
  <2>3. RestOK'
    BY <1>0, <1>5, <2>2 DEF RestOK, DraftPrompt, Advance
  <2>4. UNCHANGED <<records, chat>>
    BY <1>5 DEF DraftPrompt
  <2>5. \A b \in Attempts : cli'[b].step = "recorded" => cli[b].step = "recorded"
    BY <1>0, <1>5 DEF DraftPrompt, Advance, RestOK
  <2> QED BY <2>3, <2>4, <2>5, BystanderStep
<1>6. ASSUME NEW a \in Attempts, FinalCheck(a) PROVE HandoffInv'
  <2>1. /\ cli' \in [Attempts -> AttemptStates] /\ cli'[a].step # "recorded"
        /\ \A b \in Attempts : b # a => cli'[b] = cli[b]
    <3>1. CASE Leave(a, "done")
      BY <1>0, <3>1, RestByParts, LeavingIsTyped DEF Steps
    <3>2. CASE Advance(a, "drafted", "checked")
      BY <1>0, <3>2, RestByParts, StepIsTyped DEF Steps, Advance
    <3> QED BY <1>6, <3>1, <3>2 DEF FinalCheck
  <2>2. window' \in [Attempts -> Chats]
    BY <1>0, <1>6, RestByParts, NoChatIsTyped DEF FinalCheck
  <2>3. RestOK' /\ UNCHANGED <<records, chat>>
    BY <1>0, <1>6, <2>1, <2>2 DEF RestOK, AttemptStates, Steps, FinalCheck
  <2> QED BY <2>1, <2>3, BystanderStep
<1>7. ASSUME NEW a \in Attempts, FailAttempt(a) \/ CliDies(a) PROVE HandoffInv'
  <2>1. /\ cli' \in [Attempts -> AttemptStates] /\ cli'[a].step # "recorded"
        /\ \A b \in Attempts : b # a => cli'[b] = cli[b]
    <3>1. CASE FailAttempt(a)
      BY <1>0, <3>1, RestByParts, StepIsTyped DEF Steps, FailAttempt
    <3>2. CASE CliDies(a)
      BY <1>0, <3>2, RestByParts, LeavingIsTyped DEF Steps, CliDies
    <3> QED BY <1>7, <3>1, <3>2
  <2>2. window' \in [Attempts -> Chats]
    BY <1>0, <1>7, RestByParts, NoChatIsTyped DEF FailAttempt, CliDies
  <2>3. RestOK' /\ UNCHANGED <<records, chat>>
    BY <1>0, <1>7, <2>1, <2>2 DEF RestOK, AttemptStates, Steps, FailAttempt, CliDies
  <2> QED BY <2>1, <2>3, BystanderStep
<1>8. ASSUME NEW a \in Attempts, TouchWindow(a) PROVE HandoffInv'
  <2>1. /\ [window[a] EXCEPT !.text = "other"] \in Chats
        /\ [window[a] EXCEPT !.model = FALSE] \in Chats
        /\ [window[a] EXCEPT !.effort = FALSE] \in Chats
    <3>1. window[a] \in Chats
      BY <1>0, RestByParts
    <3> QED BY <3>1 DEF Chats
  <2>2. \E w \in Chats : window' = [window EXCEPT ![a] = w]
    BY <1>8, <2>1 DEF TouchWindow
  <2>3. window' \in [Attempts -> Chats]
    BY <1>0, <2>2, RestByParts
  <2>4. RestOK' /\ UNCHANGED <<records, chat, cli>>
    BY <1>0, <1>8, <2>3 DEF RestOK, AttemptStates, Steps, TouchWindow
  <2> QED BY <2>4, BystanderStep
<1>9. ASSUME NEW a \in Attempts, AppendSending(a) PROVE HandoffInv'
  <2>1. RestOK'
    BY <1>0, <1>9 DEF RestOK, AppendSending, Advance
  <2> DEFINE new == [id |-> a, from |-> cli[a].from, status |-> "sending"]
  <2>2. new \in HandoffRecords /\ records' = Append(records, new) /\ ~HandoffPending
    BY <1>0, <1>9 DEF RestOK, HandoffRecords, AppendSending, Eligible
  <2>3. RecordsStep
    BY <2>2 DEF RecordsStep, RecordAdded
  <2>4. HasRecord(a)'
    <3>1. Len(records') \in 1 .. Len(records') /\ records'[Len(records')].id = a
      BY <1>0, <2>2
    <3> QED BY <3>1 DEF HasRecord
  <2>5. \A b \in Attempts : cli'[b].step = "recorded" => cli[b].step = "recorded" \/ HasRecord(b)'
    BY <1>0, <1>9, <2>4 DEF AppendSending, Advance, RestOK
  <2> HIDE DEF new
  <2>6. UNCHANGED chat
    BY <1>9 DEF AppendSending
  <2> QED BY <2>1, <2>3, <2>5, <2>6, RecordingStep
<1>10. ASSUME NEW a \in Attempts, MarkSent(a) \/ MarkAborted(a) PROVE HandoffInv'
  <2>1. /\ cli' \in [Attempts -> AttemptStates] /\ cli'[a].step # "recorded"
        /\ \A b \in Attempts : b # a => cli'[b] = cli[b]
    BY <1>0, <1>10, RestByParts, LeavingIsTyped DEF Steps, MarkSent, MarkAborted
  <2>2. RecordsStep
    BY <1>10 DEF MarkSent, MarkAborted, LatestIs, RecordsStep, LatestChanges
  <2>3. RestOK' /\ UNCHANGED chat
    BY <1>0, <1>10, <2>1 DEF RestOK, AttemptStates, Steps, MarkSent, MarkAborted
  <2> QED BY <2>1, <2>2, <2>3, RecordingStep
<1>11. ASSUME NEW a \in Attempts, PressSend(a) PROVE HandoffInv'
  <2>7. cli' \in [Attempts -> AttemptStates]
    BY <1>0, <1>11, RestByParts, StepIsTyped DEF Steps, PressSend, Advance
  <2>8. window' \in [Attempts -> Chats] /\ chat' \in [Attempts -> Chats]
    BY <1>0, <1>11, RestByParts, NoChatIsTyped DEF PressSend
  <2>1. RestOK'
    BY <1>0, <1>11, <2>7, <2>8 DEF RestOK, AttemptStates, Steps, PressSend
  <2>2. HTypeOK' /\ OneOpenHandoff'
    <3>1. UNCHANGED records
      BY <1>11 DEF PressSend
    <3> QED BY <2>1, <3>1 DEF HandoffInv, HTypeOK, RestOK, OneOpenHandoff, OpenRecord
  <2>3. HasRecord(a) /\ UNCHANGED records
    BY <1>11 DEF HandoffInv, RecordedFirst, PressSend, Advance
  <2>4. \A b \in Attempts : b # a => chat'[b] = chat[b] /\ cli'[b] = cli[b]
    BY <1>0, <1>11 DEF PressSend, Advance, RestOK
  <2>5. SentUnderRecord'
    BY <2>3, <2>4 DEF HandoffInv, SentUnderRecord, HasRecord
  <2>6. RecordedFirst'
    BY <2>3, <2>4 DEF HandoffInv, RecordedFirst, HasRecord
  <2> QED BY <2>2, <2>5, <2>6 DEF HandoffInv
<1>12. CASE UNCHANGED hVars
  <2>1. RestOK'
    BY <1>0, <1>12 DEF RestOK, hVars
  <2> QED BY <1>12, <2>1, BystanderStep DEF hVars
<1> QED
  BY <1>1, <1>2, <1>3, <1>4, <1>5, <1>6, <1>7, <1>8, <1>9, <1>10, <1>11, <1>12
     DEF HNext, CliStep

LEMMA HandoffInvHolds == HSpec => []HandoffInv
  BY HandoffInvInit, HandoffInvNext, PTL DEF HSpec

\* Two attempts that both passed the early check never both have an open
\* record: the pre-Send callback (appendSendingRecord) looks again, in the
\* critical section that appends.
THEOREM OneHandoffIsOpen == HSpec => []OneOpenHandoff
<1>1. HandoffInv => OneOpenHandoff
  BY DEF HandoffInv
<1> QED BY <1>1, HandoffInvHolds, PTL

\* A chat that received the resume prompt belongs to an attempt the run has a
\* record of, whichever process died right after Send.
THEOREM NothingSentUnrecorded == HSpec => []SentUnderRecord
<1>1. HandoffInv => SentUnderRecord
  BY DEF HandoffInv
<1> QED BY <1>1, HandoffInvHolds, PTL

-----------------------------------------------------------------------------
(* Verification                                                            *)

(* A success was seen on the content its fingerprint says, and only what   *)
(* was recorded counts as a run of a confined process.                     *)
Truthful(recs) ==
    \A o \in Ops : /\ recs[o].status = "collected" => recs[o].at = recs[o].fp
                   /\ recs[o].single => recs[o].status # "none"

RecordsTruthful ==
    Truthful(manifest.recs) /\ Truthful(coll.recs) /\ Truthful(accepted.recs)

(* What NotRerolled says of one record.                                    *)
Keeps(old, new) == old.single /\ new # old => new.fp # old.fp \/ ~new.single

(* The records a collection has made so far keep what the manifest has.    *)
CollectionKeeps ==
    coll.phase \in {"sweep", "requests"} =>
        \A o \in Ops \ coll.todo : Keeps(manifest.recs[o], coll.recs[o])

(* The report is bound to the manifest when nothing collects, the          *)
(* operation that runs is one the collection still has to do, and the      *)
(* launcher only collects while it has no worker out.                      *)
CollectionClaims ==
    /\ coll.by = "none" <=> coll.phase = "none"
    /\ coll.by = "none" => manifest.key = bound /\ coll.todo = {}
    /\ coll.running \subseteq coll.todo
    /\ coll.by = "delegate" =>
          \/ worker.step = "due"
          \/ worker.step = "ended" /\ worker.left > 0 /\ report.asks # {}

(* An operation that runs has no record of the content of the collection.  *)
RunsAreDue == \A o \in coll.running : ~CurrentRecord(manifest.recs[o], coll.fp)

VInv ==
    /\ VTypeOK /\ RecordsTruthful /\ CollectionKeeps /\ CollectionClaims /\ RunsAreDue
    /\ AcceptedAsObserved

(* The sets the variables take their values from.                          *)
Manifests == [fp : Sources, recs : [Ops -> Records], key : Counts, made : Counts,
              tries : Counts]
Collections == [by : {"none", "prepare", "delegate"},
                phase : {"none", "sweep", "requests", "bind"}, todo : SUBSET Ops,
                running : SUBSET Ops, fp : Sources, recs : [Ops -> Records],
                more : BOOLEAN]
Reports == [present : BOOLEAN, asks : SUBSET Ops]
Workers == [step : {"rest", "due", "launched", "ended"}, left : 0 .. Budget]
Acceptances == [is : BOOLEAN, source : Sources, recs : [Ops -> Records]]

LEMMA VTypeParts ==
    VTypeOK <=> /\ source \in Sources /\ authority \in BOOLEAN
                /\ manifest \in Manifests /\ coll \in Collections /\ bound \in Counts
                /\ report \in Reports /\ worker \in Workers /\ accepted \in Acceptances
BY DEF VTypeOK, Manifests, Collections, Reports, Workers, Acceptances

(* The bounds are naturals, and there are launches to use up.              *)
LEMMA VerificationBounds ==
    /\ Counts \subseteq Nat /\ 0 \in Counts /\ 0 \in Sources
    /\ Budget \in Nat \ {0}
    /\ NoRecord \in Records /\ NoRecords \in [Ops -> Records]
    /\ Required \subseteq Ops
<1>1. Cardinality(Ops) \in Nat
  BY VerificationAssumption, FS_CardinalityType DEF Ops
<1> QED
  BY <1>1, VerificationAssumption
  DEF Counts, Sources, Budget, NoRecord, NoRecords, Records, Ops

(* A record a collection may make of an operation: it is truthful and no   *)
(* reroll.                                                                 *)
Makes(o, r) ==
    /\ r \in Records
    /\ r.status = "collected" => r.at = r.fp
    /\ r.single => r.status # "none"
    /\ Keeps(manifest.recs[o], r)

(* What is noted without a run is what was there, or no run at all.        *)
LEMMA NotedTruthful ==
    ASSUME VInv, NEW o \in Ops
    PROVE  Makes(o, NotRun(o))
<1> DEFINE old == manifest.recs[o]
           gap == [NoRecord EXCEPT !.status = "gap", !.fp = coll.fp, !.made = manifest.tries]
<1>1. /\ old \in Records /\ coll.fp \in Sources /\ manifest.tries \in Counts
      /\ old.status = "collected" => old.at = old.fp
      /\ old.single => old.status # "none"
  BY DEF VInv, VTypeOK, RecordsTruthful, Truthful
<1>2. CASE NotRun(o) = gap
  <2>1. NotRun(o) = [status |-> "gap", fp |-> coll.fp, single |-> FALSE, at |-> 0,
                     made |-> manifest.tries]
    BY <1>2 DEF NoRecord
  <2> QED
    BY <1>1, <2>1, VerificationBounds DEF Records, Keeps, Makes
<1>3. CASE NotRun(o) = old
  BY <1>1, <1>3 DEF Keeps, Makes
<1>4. CASE NotRun(o) = NoRecord /\ ~Wanted(o)
  <2>1. old.status = "none"
    BY <1>4 DEF Wanted
  <2> QED
    BY <1>1, <1>4, <2>1, VerificationBounds DEF NoRecord, Keeps, Makes
<1> QED
  BY <1>2, <1>3, <1>4 DEF NotRun

(* What a run shows is true of the content it ended on, and it is made only*)
(* of a content that has no record.                                        *)
LEMMA RunTruthful ==
    ASSUME VInv, NEW o \in Ops, ~CurrentRecord(manifest.recs[o], coll.fp),
           NEW r \in RunOf(coll.fp, manifest.tries)
    PROVE  Makes(o, r)
<1>1. source \in Sources /\ coll.fp \in Sources /\ manifest.tries \in Counts
  BY DEF VInv, VTypeOK
<1>2. PICK s \in {"collected", "failed"} :
         r = [status |-> IF source # coll.fp /\ s = "collected" THEN "gap" ELSE s,
              fp |-> coll.fp, single |-> TRUE, at |-> source, made |-> manifest.tries]
  BY DEF RunOf
<1>3. r.status \in {"collected", "failed", "gap"} /\ r.fp = coll.fp /\ r.at = source
  BY <1>2
<1>4. r.status = "collected" => r.at = r.fp
  BY <1>2
<1>5. r \in Records
  BY <1>1, <1>2 DEF Records
<1>6. Keeps(manifest.recs[o], r)
  BY <1>3 DEF CurrentRecord, Keeps
<1> QED
  BY <1>3, <1>4, <1>5, <1>6 DEF Makes

(* A collection that has been through all operations keeps all records.    *)
LEMMA CollectedKeeps ==
    ASSUME VInv, coll.phase \in {"sweep", "requests"}, coll.todo = {}
    PROVE  /\ Collected \in Manifests /\ Truthful(Collected.recs)
           /\ \A o \in Ops : Keeps(manifest.recs[o], Collected.recs[o])
<1> USE DEF VInv
<1>1. manifest \in Manifests /\ coll \in Collections
  BY VTypeParts
<1>2. /\ Collected.recs = coll.recs /\ Collected.fp = coll.fp
      /\ Collected.tries = manifest.tries
      /\ Collected.made \in {manifest.made, manifest.tries}
      /\ Collected.key \in {manifest.key, manifest.tries}
      /\ Collected = [fp |-> Collected.fp, recs |-> Collected.recs, key |-> Collected.key,
                      made |-> Collected.made, tries |-> Collected.tries]
  <2>1. PICK made \in {manifest.made, manifest.tries}, key \in {manifest.key, manifest.tries} :
           Collected = [manifest EXCEPT !.fp = coll.fp, !.recs = coll.recs, !.made = made,
                                        !.key = key]
    BY <1>1 DEF Collected, Manifests
  <2>2. Collected = [fp |-> coll.fp, recs |-> coll.recs, key |-> key, made |-> made,
                     tries |-> manifest.tries]
    BY <1>1, <2>1 DEF Manifests
  <2> QED
    BY <2>2
<1>3. Collected \in Manifests
  BY <1>1, <1>2 DEF Manifests, Collections
<1> QED
  BY <1>2, <1>3 DEF RecordsTruthful, CollectionKeeps

(* A collection starts with nothing observed.                              *)
Begins(c, by, phase) ==
    /\ c \in Collections /\ Truthful(c.recs)
    /\ c.by = by /\ c.phase = phase /\ c.todo = Ops /\ c.running = {}

LEMMA SweepBegins ==
    ASSUME source \in Sources, NEW by \in {"prepare", "delegate"},
           NEW phase \in {"sweep", "requests"}
    PROVE  /\ Begins(SweepClaim(by), by, "sweep")
           /\ Begins([SweepClaim(by) EXCEPT !.phase = phase], by, phase)
<1>1. Truthful(NoRecords)
  BY DEF Truthful, NoRecords, NoRecord
<1>2. Resting \in Collections /\ Resting.recs = NoRecords /\ Resting.running = {}
  BY VerificationBounds DEF Resting, Collections
<1>3. /\ SweepClaim(by) \in Collections /\ SweepClaim(by).recs = NoRecords
      /\ SweepClaim(by).by = by /\ SweepClaim(by).phase = "sweep" /\ SweepClaim(by).todo = Ops
      /\ SweepClaim(by).running = {}
  BY <1>2 DEF SweepClaim, Collections
<1> QED
  BY <1>1, <1>3 DEF Begins, Collections

LEMMA VInvInit == VInit => VInv
<1> SUFFICES ASSUME VInit PROVE VInv
  OBVIOUS
<1> USE VerificationBounds DEF VInit, Resting, NoReport
<1>1. VTypeOK
  <2>1. coll \in Collections /\ manifest \in Manifests
    BY DEF Collections, Manifests
  <2>2. report \in Reports /\ worker \in Workers /\ accepted \in Acceptances
    BY DEF Reports, Workers, Acceptances
  <2> QED
    BY <2>1, <2>2, VTypeParts
<1>2. RecordsTruthful
  BY DEF RecordsTruthful, Truthful, NoRecords, NoRecord
<1> QED
  BY <1>1, <1>2 DEF VInv, CollectionKeeps, CollectionClaims, RunsAreDue, AcceptedAsObserved

(* The parts of the invariant a step of the worker or of the workspace     *)
(* leaves alone.                                                           *)
LEMMA RecordsUntouched ==
    ASSUME VInv, UNCHANGED <<manifest, coll, accepted>>
    PROVE  RecordsTruthful' /\ CollectionKeeps' /\ RunsAreDue' /\ AcceptedAsObserved'
BY DEF VInv, RecordsTruthful, CollectionKeeps, RunsAreDue, CurrentRecord, AcceptedAsObserved,
       Truthful

(* A new collection claims the manifest; nothing else moves but the worker *)
(* that is due.                                                            *)
LEMMA ClaimKeepsVInv ==
    ASSUME VInv, coll.by = "none", manifest.tries < MaxCollections,
           NEW by \in {"prepare", "delegate"},
           coll' = SweepClaim(by), manifest' = [manifest EXCEPT !.tries = @ + 1],
           UNCHANGED <<source, authority, bound, report, accepted>>,
           worker' \in Workers,
           by = "delegate" =>
              \/ worker'.step = "due"
              \/ worker'.step = "ended" /\ worker'.left > 0 /\ report.asks # {}
    PROVE  VInv'
<1> USE DEF VInv
<1>1. /\ source \in Sources /\ manifest \in Manifests /\ coll \in Collections
      /\ report \in Reports /\ worker \in Workers /\ accepted \in Acceptances
      /\ authority \in BOOLEAN /\ bound \in Counts
  BY VTypeParts
<1>2. Begins(coll', by, "sweep")
  BY <1>1, SweepBegins
<1>3. manifest' \in Manifests /\ manifest'.recs = manifest.recs /\ manifest'.key = manifest.key
  BY <1>1, VerificationAssumption DEF Manifests, Counts
<1>4. VTypeOK'
  <2>1. coll' \in Collections
    BY <1>2 DEF Begins
  <2> QED
    BY <1>1, <1>3, <2>1
    DEF VTypeOK, Manifests, Collections, Reports, Workers, Acceptances
<1>5. RecordsTruthful'
  BY <1>2, <1>3 DEF RecordsTruthful, Begins, Truthful
<1>6. CollectionKeeps' /\ CollectionClaims' /\ RunsAreDue'
  BY <1>2 DEF CollectionKeeps, CollectionClaims, RunsAreDue, Begins
<1> QED
  BY <1>4, <1>5, <1>6 DEF AcceptedAsObserved

(* An operation is noted, started or over; the manifest is not touched.    *)
LEMMA ObserveKeepsVInv ==
    ASSUME VInv, NEW o \in Ops,
           NoteOperation(o) \/ BeginOperation(o) \/ EndOperation(o)
    PROVE  VInv'
<1> USE DEF VInv
<1>1. /\ manifest \in Manifests /\ coll \in Collections /\ o \in coll.todo
      /\ UNCHANGED <<source, authority, manifest, bound, report, worker, accepted>>
  BY VTypeParts DEF NoteOperation, BeginOperation, EndOperation, CollectionClaims
<1>2. CASE BeginOperation(o)
  <2>1. /\ coll' \in Collections /\ coll'.recs = coll.recs /\ coll'.todo = coll.todo
        /\ coll'.by = coll.by /\ coll'.phase = coll.phase /\ coll'.running = {o}
    BY <1>1, <1>2 DEF BeginOperation, Collections
  <2>2. VTypeOK'
    BY <1>1, <2>1 DEF VTypeOK, Collections
  <2>3. RecordsTruthful' /\ CollectionKeeps' /\ CollectionClaims'
    BY <1>1, <2>1 DEF RecordsTruthful, Truthful, CollectionKeeps, CollectionClaims
  <2>4. RunsAreDue'
    <3>1. coll'.fp = coll.fp /\ ~CurrentRecord(manifest.recs[o], coll.fp)
      BY <1>1, <1>2 DEF BeginOperation, Runs, Collections
    <3> QED
      BY <1>1, <2>1, <3>1 DEF RunsAreDue, CurrentRecord
  <2> QED
    BY <1>1, <2>2, <2>3, <2>4 DEF AcceptedAsObserved
<1>3. CASE NoteOperation(o) \/ EndOperation(o)
  <2>1. PICK r : /\ Makes(o, r)
                 /\ coll' = [coll EXCEPT !.todo = @ \ {o}, !.running = {}, !.recs[o] = r]
    <3>1. CASE NoteOperation(o)
      <4>1. coll' = [coll EXCEPT !.todo = @ \ {o}, !.recs[o] = NotRun(o)] /\ coll.running = {}
        BY <3>1 DEF NoteOperation
      <4>2. coll' = [coll EXCEPT !.todo = @ \ {o}, !.running = {}, !.recs[o] = NotRun(o)]
        BY <1>1, <4>1 DEF Collections
      <4> QED
        BY <4>2, NotedTruthful
    <3>2. CASE EndOperation(o)
      <4>1. PICK r \in RunOf(coll.fp, manifest.tries) :
               coll' = [coll EXCEPT !.todo = @ \ {o}, !.running = {}, !.recs[o] = r]
        BY <3>2 DEF EndOperation
      <4>2. ~CurrentRecord(manifest.recs[o], coll.fp)
        BY <3>2 DEF EndOperation, RunsAreDue
      <4> QED
        BY <4>1, <4>2, RunTruthful
    <3> QED
      BY <1>3, <3>1, <3>2
  <2> DEFINE recs == [coll.recs EXCEPT ![o] = r]
  <2>2. recs \in [Ops -> Records] /\ \A i \in Ops : recs[i] = IF i = o THEN r ELSE coll.recs[i]
    BY <1>1, <2>1 DEF Collections, Makes
  <2>3. /\ coll' \in Collections /\ coll'.recs = recs /\ coll'.todo = coll.todo \ {o}
        /\ coll'.by = coll.by /\ coll'.phase = coll.phase /\ coll'.running = {}
    BY <1>1, <2>1, <2>2 DEF Collections
  <2> HIDE DEF recs
  <2>4. VTypeOK'
    BY <1>1, <2>3 DEF VTypeOK, Collections
  <2>5. RecordsTruthful'
    BY <1>1, <2>1, <2>2, <2>3 DEF RecordsTruthful, Truthful, Makes
  <2>6. CollectionKeeps'
    BY <1>1, <2>1, <2>2, <2>3 DEF CollectionKeeps, Makes
  <2>7. CollectionClaims' /\ RunsAreDue'
    BY <1>1, <2>3 DEF CollectionClaims, RunsAreDue
  <2> QED
    BY <1>1, <2>4, <2>5, <2>6, <2>7 DEF AcceptedAsObserved
<1> QED
  BY <1>2, <1>3

LEMMA FinishKeepsVInv ==
    ASSUME VInv, FinishSweep \/ FinishRequests
    PROVE  VInv'
<1> USE DEF VInv
<1>1. /\ source \in Sources /\ manifest \in Manifests /\ coll \in Collections
      /\ coll.phase \in {"sweep", "requests"} /\ coll.todo = {}
      /\ UNCHANGED <<source, authority, bound, report, worker, accepted>>
  BY VTypeParts DEF FinishSweep, FinishRequests
<1>2. /\ Collected \in Manifests /\ Truthful(Collected.recs)
      /\ \A i \in Ops : Keeps(manifest.recs[i], Collected.recs[i])
  BY <1>1, CollectedKeeps
<1>3. coll.by \in {"prepare", "delegate"}
  BY <1>1 DEF CollectionClaims, Collections
<1>4. CASE FinishSweep /\ report.present /\ report.asks # {}
  <2>1. /\ manifest' = [Collected EXCEPT !.tries = @ + 1] /\ manifest.tries < MaxCollections
        /\ coll' = [SweepClaim(coll.by) EXCEPT !.phase = "requests"]
    BY <1>4 DEF FinishSweep
  <2>2. Collected.tries = manifest.tries
    BY <1>1 DEF Collected, Manifests
  <2>3. manifest' \in Manifests /\ manifest'.recs = Collected.recs
    BY <1>1, <1>2, <2>1, <2>2, VerificationAssumption DEF Manifests, Counts
  <2>4. Begins(coll', coll.by, "requests")
    BY <1>1, <1>3, <2>1, SweepBegins
  <2>5. VTypeOK'
    BY <1>1, <2>3, <2>4 DEF Begins, VTypeOK, Manifests, Collections
  <2>6. RecordsTruthful'
    BY <1>1, <1>2, <2>3, <2>4 DEF RecordsTruthful, Begins, Truthful
  <2>7. CollectionKeeps' /\ CollectionClaims' /\ RunsAreDue'
    BY <1>1, <1>3, <2>4 DEF CollectionKeeps, CollectionClaims, RunsAreDue, Begins
  <2> QED
    BY <1>1, <2>5, <2>6, <2>7 DEF AcceptedAsObserved
<1>5. CASE FinishRequests \/ (FinishSweep /\ ~(report.present /\ report.asks # {}))
  <2>1. PICK more \in BOOLEAN : coll' = [coll EXCEPT !.phase = "bind", !.more = more]
    <3>1. CASE FinishRequests
      BY <3>1 DEF FinishRequests, Updated
    <3>2. CASE FinishSweep /\ ~FinishRequests
      <4>1. coll' = [coll EXCEPT !.phase = "bind"]
        BY <1>5, <3>2 DEF FinishSweep
      <4>2. coll' = [coll EXCEPT !.phase = "bind", !.more = coll.more] /\ coll.more \in BOOLEAN
        BY <1>1, <4>1 DEF Collections
      <4> QED
        BY <4>2
    <3> QED
      BY <1>5, <3>1, <3>2
  <2>2. manifest' = Collected
    BY <1>5 DEF FinishSweep, FinishRequests
  <2>3. /\ coll' \in Collections /\ coll'.by = coll.by /\ coll'.phase = "bind"
        /\ coll'.recs = coll.recs /\ coll'.todo = {} /\ coll'.running = {}
    BY <1>1, <2>1 DEF Collections, CollectionClaims
  <2>4. VTypeOK'
    BY <1>1, <1>2, <2>2, <2>3 DEF VTypeOK, Manifests, Collections
  <2>5. RecordsTruthful'
    BY <1>1, <1>2, <2>2, <2>3 DEF RecordsTruthful, Truthful
  <2>6. CollectionKeeps' /\ CollectionClaims' /\ RunsAreDue'
    BY <1>1, <1>3, <2>3 DEF CollectionKeeps, CollectionClaims, RunsAreDue
  <2> QED
    BY <1>1, <2>4, <2>5, <2>6 DEF AcceptedAsObserved
<1> QED
  BY <1>4, <1>5

LEMMA BindKeepsVInv ==
    ASSUME VInv, Bind
    PROVE  VInv'
<1> USE DEF VInv, Bind
<1>1. /\ source \in Sources /\ manifest \in Manifests /\ coll \in Collections
      /\ report \in Reports /\ worker \in Workers /\ accepted \in Acceptances
      /\ UNCHANGED <<source, authority, manifest, accepted>>
  BY VTypeParts
<1>2. coll' \in Collections /\ coll'.by = "none" /\ coll'.phase = "none" /\ coll'.todo = {}
      /\ coll'.recs = NoRecords /\ coll'.running = {}
  BY VerificationBounds DEF Resting, Collections
<1>3. report' \in Reports
  BY <1>1, VerificationBounds DEF Archives, NoReport, Reports
<1>4. coll.by \in {"prepare", "delegate"}
  BY <1>1 DEF CollectionClaims, Collections
<1>5. worker' \in Workers
  <2>1. CASE coll.by = "prepare"
    BY <1>1, <2>1 DEF AfterBind, Workers
  <2>2. CASE coll.by = "delegate"
    <3>1. worker.step = "due" \/ worker.left > 0
      BY <2>2 DEF CollectionClaims
    <3>2. worker.left > 0 => worker.left - 1 \in 0 .. Budget
      BY <1>1, VerificationBounds DEF Workers
    <3> QED
      BY <1>1, <2>2, <3>1, <3>2 DEF AfterBind, Workers
  <2> QED
    BY <1>4, <2>1, <2>2
<1>6. VTypeOK'
  BY <1>1, <1>2, <1>3, <1>5 DEF VTypeOK, Manifests, Collections, Reports, Workers
<1>7. RecordsTruthful'
  BY <1>1, <1>2 DEF RecordsTruthful, Truthful, NoRecords, NoRecord
<1>8. CollectionKeeps' /\ CollectionClaims' /\ RunsAreDue'
  BY <1>1, <1>2 DEF CollectionKeeps, CollectionClaims, RunsAreDue
<1>9. AcceptedAsObserved'
  BY <1>1 DEF AcceptedAsObserved
<1> QED
  BY <1>6, <1>7, <1>8, <1>9

LEMMA WorkerKeepsVInv ==
    ASSUME VInv, WriteReport \/ EndDelegate
    PROVE  VInv'
<1> USE DEF VInv
<1>1. /\ source \in Sources /\ manifest \in Manifests /\ coll \in Collections
      /\ report \in Reports /\ worker \in Workers
      /\ UNCHANGED <<source, authority, manifest, coll, bound, accepted>>
  BY VTypeParts DEF WriteReport, EndDelegate
<1>2. RecordsTruthful' /\ CollectionKeeps' /\ RunsAreDue' /\ AcceptedAsObserved'
  BY <1>1, RecordsUntouched
<1>3. coll.by # "delegate"
  BY <1>1 DEF CollectionClaims, Workers, WriteReport, EndDelegate
<1>4. report' \in Reports /\ worker' \in Workers
  <2>1. CASE WriteReport
    <3>1. PICK asks \in SUBSET Ops : report' = [present |-> TRUE, asks |-> asks]
      BY <2>1 DEF WriteReport
    <3> QED
      BY <1>1, <2>1, <3>1 DEF WriteReport, Reports, Workers
  <2>2. CASE EndDelegate
    BY <1>1, <2>2 DEF EndDelegate, Workers
  <2> QED
    BY <2>1, <2>2
<1>5. VTypeOK' /\ CollectionClaims'
  BY <1>1, <1>3, <1>4 DEF VTypeOK, CollectionClaims, Reports, Workers
<1> QED
  BY <1>2, <1>5

LEMMA AcceptKeepsVInv ==
    ASSUME VInv, AcceptReport
    PROVE  VInv'
<1> USE DEF VInv
<1>1. /\ source \in Sources /\ manifest \in Manifests
      /\ accepted' = [is |-> TRUE, source |-> source, recs |-> manifest.recs]
      /\ UNCHANGED <<source, authority, manifest, coll, bound, report, worker>>
  BY VTypeParts DEF AcceptReport
<1>2. VTypeOK'
  BY <1>1 DEF VTypeOK, Manifests
<1>3. RecordsTruthful' /\ CollectionKeeps' /\ CollectionClaims' /\ RunsAreDue'
  BY <1>1
  DEF RecordsTruthful, CollectionKeeps, CollectionClaims, RunsAreDue, CurrentRecord, Truthful
<1>4. AcceptedAsObserved'
  <2> SUFFICES ASSUME NEW o \in Required
               PROVE  manifest.recs[o].status = "collected" /\ manifest.recs[o].at = source
    BY <1>1 DEF AcceptedAsObserved
  <2>1. o \in Ops /\ o \notin Optional
    BY VerificationAssumption DEF Ops
  <2>2. manifest.recs[o].status = "collected" /\ manifest.recs[o].fp = source
    BY <2>1 DEF AcceptReport, NoGaps, CurrentRecord
  <2> QED
    BY <2>1, <2>2 DEF RecordsTruthful, Truthful
<1> QED
  BY <1>2, <1>3, <1>4

LEMMA VInvStep ==
    ASSUME VInv, [VNext]_vVars
    PROVE  VInv'
<1> USE DEF VInv
<1>1. source \in Sources /\ worker \in Workers
  BY VTypeParts
<1>2. CASE EditSource \/ EditAuthority
  <2>1. /\ source' \in Sources /\ authority' \in BOOLEAN
        /\ UNCHANGED <<manifest, coll, bound, report, worker, accepted>>
    BY <1>2 DEF EditSource, EditAuthority, VTypeOK
  <2> QED
    BY <2>1, RecordsUntouched DEF VTypeOK, CollectionClaims
<1>3. CASE StartPrepare
  BY <1>1, <1>3, ClaimKeepsVInv DEF StartPrepare
<1>4. CASE StartDelegate
  <2>1. /\ worker' \in Workers
        /\ \/ worker'.step = "due"
           \/ worker'.step = "ended" /\ worker'.left > 0 /\ report.asks # {}
    <3>1. CASE worker.step = "rest"
      <4>1. worker' = [worker EXCEPT !.step = "due", !.left = Budget]
        BY <1>4, <3>1 DEF StartDelegate
      <4>2. Budget \in 0 .. Budget
        BY VerificationBounds
      <4> QED
        BY <1>1, <4>1, <4>2 DEF Workers
    <3>2. CASE worker.step # "rest"
      BY <1>1, <1>4, <3>2 DEF StartDelegate
    <3> QED
      BY <3>1, <3>2
  <2> QED
    BY <1>4, <2>1, ClaimKeepsVInv DEF StartDelegate
<1>5. CASE UNCHANGED vVars
  BY <1>5, RecordsUntouched
  DEF vVars, VTypeOK, CollectionClaims
<1> QED
  BY <1>2, <1>3, <1>4, <1>5, ObserveKeepsVInv, FinishKeepsVInv, BindKeepsVInv,
     WorkerKeepsVInv, AcceptKeepsVInv DEF VNext

LEMMA VerificationInvariant == VSpec => []VInv
BY VInvInit, VInvStep, PTL DEF VSpec

(* However often the source and the authority change, also while operations*)
(* run, and however collections repeat, an accepted report stands on       *)
(* successes that ended with the accepted content in the workspace, for any*)
(* sets of operations.                                                     *)
THEOREM AcceptanceIsObserved == VSpec => []AcceptedAsObserved
<1>1. VInv => AcceptedAsObserved
  BY DEF VInv
<1> QED
  BY <1>1, VerificationInvariant, PTL

(* No collection replaces what an operation showed of a content by another *)
(* run of it on that content.                                              *)
THEOREM ObservationsStand == VSpec => NotRerolled
<1> DEFINE Step == \A o \in Ops :
              LET old == manifest.recs[o]
                  new == manifest'.recs[o]
              IN  old.single /\ new # old => new.fp # old.fp \/ ~new.single
<1>1. VInv /\ [VNext]_vVars => [Step]_vVars
  <2> SUFFICES ASSUME VInv, [VNext]_vVars, NEW o \in Ops
               PROVE  Keeps(manifest.recs[o], manifest'.recs[o])
    BY DEF Keeps
  <2>1. CASE FinishSweep \/ FinishRequests
    <3>1. Collected \in Manifests /\ Keeps(manifest.recs[o], Collected.recs[o])
      BY <2>1, CollectedKeeps DEF FinishSweep, FinishRequests
    <3>2. manifest'.recs = Collected.recs
      BY <2>1, <3>1 DEF FinishSweep, FinishRequests, Manifests
    <3> QED
      BY <3>1, <3>2
  <2>2. CASE StartPrepare \/ StartDelegate
    <3>1. manifest \in Manifests
      BY VTypeParts DEF VInv
    <3>2. manifest'.recs = manifest.recs
      BY <2>2, <3>1 DEF StartPrepare, StartDelegate, Manifests
    <3> QED
      BY <3>2 DEF Keeps
  <2>3. CASE UNCHANGED manifest
    BY <2>3 DEF Keeps
  <2> QED
    BY <2>1, <2>2, <2>3
    DEF VNext, vVars, EditSource, EditAuthority, NoteOperation, BeginOperation, EndOperation,
        Bind, WriteReport, EndDelegate, AcceptReport
<1> QED
  BY <1>1, VerificationInvariant, PTL DEF VSpec, NotRerolled

-----------------------------------------------------------------------------
(* Gate passes                                                             *)

(* Every entry of the cache was earned under the key it is stored under.   *)
PassesEarned == \A e \in passes : Earned(e)

(* A gate's command started on what its key names or had it edited under   *)
(* it.                                                                     *)
GateOrigin(c) ==
    /\ c.of.profile = c.key.profile
    /\ c.of.fingerprint \in {c.key.fingerprint, 0} /\ c.of.config \in {c.key.config, 0}

(* An agent's command started on the first content of its bracket, and     *)
(* under the configuration of now unless that was edited.                  *)
AgentOrigin(c) == c.of.fingerprint = c.before /\ c.of.config \in {config, 0}

OriginsKnown ==
    /\ \A g \in Gates : check[g].step = "runs" => GateOrigin(check[g])
    /\ \A a \in Agents : check[a].step = "runs" => AgentOrigin(check[a])

(* That a hit was earned takes that what was stored was, and that takes    *)
(* what is known of the commands that run.                                 *)
GateInv == GTypeOK /\ PassesEarned /\ OriginsKnown /\ AcceptedWasEarned

(* What a process does tells what it is.                                   *)
LEMMA CheckKinds ==
    ASSUME GTypeOK
    PROVE  /\ \A g \in Gates : /\ check[g].step = "hit" =>
                                   check[g] \in [step : {"hit"}, key : Keys, entry : Entries]
                               /\ check[g].step = "runs" =>
                                   check[g] \in [step : {"runs"}, key : Keys, of : Origins]
           /\ \A a \in Agents : /\ check[a].step # "hit"
                                /\ check[a].step = "runs" => check[a] \in AgentChecks
BY DEF GTypeOK, Checkers, NoCheck, GateChecks, AgentChecks

(* No check is of two kinds.                                               *)
LEMMA KindsDiffer ==
    NoCheck \notin GateChecks /\ NoCheck \notin AgentChecks /\ GateChecks \cap AgentChecks = {}
<1>1. NoCheck \notin GateChecks /\ NoCheck \notin AgentChecks
  BY DEF NoCheck, GateChecks, AgentChecks
<1>2. ASSUME NEW x \in GateChecks, x \in AgentChecks PROVE FALSE
  <2>1. DOMAIN x = {"step", "before", "of"}
    BY <1>2 DEF AgentChecks
  <2>2. "key" \in DOMAIN x
    BY DEF GateChecks
  <2> QED
    BY <2>1, <2>2
<1> QED
  BY <1>1, <1>2

(* A process that starts, goes on or ends changes its own check only.      *)
LEMMA OwnCheckTyped ==
    ASSUME GTypeOK, NEW p \in Checkers, NEW c,
           \/ c = NoCheck
           \/ p \in Gates /\ c \in GateChecks
           \/ p \in Agents /\ c \in AgentChecks,
           check' = [check EXCEPT ![p] = c],
           UNCHANGED <<hour, fingerprint, config>>,
           passes' \subseteq Entries
    PROVE  /\ GTypeOK' /\ check'[p] = c
           /\ \A q \in Checkers \ {p} : check'[q] = check[q]
<1>1. NoCheck \notin GateChecks /\ NoCheck \notin AgentChecks /\ GateChecks \cap AgentChecks = {}
  BY KindsDiffer
<1> QED
  BY <1>1, GatesAssumption DEF GTypeOK, Checkers

(* A step of one process on its own check, which knows its origin.         *)
LEMMA OwnStepKeepsInv ==
    ASSUME GateInv, NEW p \in Checkers, NEW c,
           \/ c = NoCheck
           \/ p \in Gates /\ c \in GateChecks
           \/ p \in Agents /\ c \in AgentChecks,
           p \in Gates /\ c.step = "runs" => GateOrigin(c),
           p \in Agents /\ c.step = "runs" => AgentOrigin(c),
           p \in Gates /\ c.step = "hit" =>
              /\ c.entry.key = c.key /\ Earned(c.entry)
              /\ c.key.profile = "full" => c.entry.recordedBy = "harness",
           check' = [check EXCEPT ![p] = c],
           UNCHANGED <<hour, fingerprint, config>>,
           passes' = passes \/ (PassesEarned' /\ passes' \subseteq Entries)
    PROVE  GateInv'
<1>1. passes' \subseteq Entries /\ PassesEarned'
  BY DEF GateInv, GTypeOK, PassesEarned
<1>2. /\ GTypeOK' /\ check'[p] = c /\ \A q \in Checkers \ {p} : check'[q] = check[q]
  BY <1>1, OwnCheckTyped DEF GateInv
<1>3. \A q \in Checkers : q = p \/ check'[q] = check[q]
  BY <1>2
<1>4. OriginsKnown'
  <2>1. ASSUME NEW g \in Gates, check'[g].step = "runs" PROVE GateOrigin(check'[g])
    BY <1>2, <1>3, <2>1 DEF GateInv, OriginsKnown, Checkers
  <2>2. ASSUME NEW a \in Agents, check'[a].step = "runs" PROVE AgentOrigin(check[a])'
    <3>1. CASE a = p
      BY <1>2, <2>2, <3>1 DEF AgentOrigin
    <3>2. CASE a # p
      BY <1>3, <2>2, <3>2 DEF GateInv, OriginsKnown, AgentOrigin, Checkers
    <3> QED
      BY <3>1, <3>2
  <2> QED
    BY <2>1, <2>2 DEF OriginsKnown
<1>5. AcceptedWasEarned'
  BY <1>2, <1>3 DEF GateInv, AcceptedWasEarned, Checkers
<1> QED
  BY <1>1, <1>2, <1>4, <1>5 DEF GateInv

(* What is stored was earned if the check it comes from was.               *)
LEMMA StoreKeepsEarned ==
    ASSUME GTypeOK, PassesEarned, NEW key \in Keys, NEW by \in {"agent", "harness"},
           NEW of \in Origins, GateCacheStore(key, by, of),
           of.profile = key.profile, of.config \in {key.config, 0},
           of.fingerprint = key.fingerprint \/ (of.fingerprint = 0 /\ by = "harness")
    PROVE  PassesEarned' /\ passes' \subseteq Entries
<1> DEFINE entry == [key |-> key, recordedBy |-> by, cachedAt |-> hour, evidence |-> TRUE,
                     of |-> of]
<1>1. entry \in Entries /\ Earned(entry)
  BY DEF GTypeOK, Entries, Earned
<1>2. PICK kept \in SUBSET passes : passes' = kept \cup {entry}
  BY DEF GateCacheStore, Stored, FreshEntries
<1> HIDE DEF entry
<1> QED
  BY <1>1, <1>2 DEF PassesEarned, GTypeOK

LEMMA GateInvInit == GInit => GateInv
<1> SUFFICES ASSUME GInit PROVE GateInv
  OBVIOUS
<1>1. \A p \in Checkers : check[p] = NoCheck /\ check[p].step = "idle"
  BY DEF GInit, NoCheck
<1>2. GTypeOK
  <2>1. NoCheck \notin GateChecks /\ NoCheck \notin AgentChecks
    BY DEF NoCheck, GateChecks, AgentChecks
  <2> QED
    BY <1>1, <2>1, GatesAssumption DEF GInit, GTypeOK, Checkers
<1> QED
  BY <1>1, <1>2
  DEF GInit, GateInv, PassesEarned, OriginsKnown, AcceptedWasEarned, Checkers

(* A command that starts for a key starts on what the key names, or knows  *)
(* that it does not.                                                       *)
LEMMA OriginIsKnown ==
    ASSUME GTypeOK, NEW key \in Keys
    PROVE  /\ Origin(key) \in Origins /\ Origin(key).profile = key.profile
           /\ Origin(key).fingerprint \in {key.fingerprint, 0}
           /\ Origin(key).config \in {key.config, 0}
<1>1. fingerprint \in 0 .. MaxFingerprint /\ config \in 0 .. MaxConfig
      /\ 0 \in 0 .. MaxFingerprint /\ 0 \in 0 .. MaxConfig
  BY GatesAssumption DEF GTypeOK
<1> QED
  BY <1>1 DEF Origin, Origins, Keys

(* A check over whose head something is edited remembers it.               *)
LEMMA MarkedCheck ==
    ASSUME NEW c, NEW field \in {"fingerprint", "config"}, c.of \in Origins,
           c \in GateChecks \cup AgentChecks, c.step = "runs",
           NEW d, d = [c EXCEPT !.of = [c.of EXCEPT ![field] = 0]]
    PROVE  /\ c \in GateChecks => d \in GateChecks /\ d.key = c.key
           /\ c \in AgentChecks => d \in AgentChecks /\ d.before = c.before
           /\ d.step = "runs" /\ d.of.profile = c.of.profile
           /\ field = "fingerprint" => d.of.fingerprint = 0 /\ d.of.config = c.of.config
           /\ field = "config" => d.of.config = 0 /\ d.of.fingerprint = c.of.fingerprint
<1>1. PICK o : o = [c.of EXCEPT ![field] = 0]
  OBVIOUS
<1>2. /\ o \in Origins /\ o.profile = c.of.profile
      /\ field = "fingerprint" => o.fingerprint = 0 /\ o.config = c.of.config
      /\ field = "config" => o.config = 0 /\ o.fingerprint = c.of.fingerprint
  BY <1>1, GatesAssumption DEF Origins
<1>3. d = [c EXCEPT !.of = o]
  BY <1>1
<1> QED
  BY <1>2, <1>3 DEF GateChecks, AgentChecks

(* Edited while it runs, every check keeps its kind.                       *)
LEMMA EditKeepsTypes ==
    ASSUME GTypeOK, NEW P \in SUBSET Checkers, NEW field \in {"fingerprint", "config"},
           \A p \in P : check[p].step = "runs",
           check' = [p \in Checkers |-> IF p \in P
                        THEN [check[p] EXCEPT !.of = [@ EXCEPT ![field] = 0]] ELSE check[p]],
           hour' = hour, passes' = passes,
           fingerprint' \in 1 .. MaxFingerprint, config' \in 1 .. MaxConfig
    PROVE  GTypeOK'
<1>1. ASSUME NEW p \in Checkers
      PROVE  /\ check'[p] \in {NoCheck} \cup GateChecks \cup AgentChecks
             /\ p \in Gates => check'[p] \in {NoCheck} \cup GateChecks
             /\ p \in Agents => check'[p] \in {NoCheck} \cup AgentChecks
  <2>1. /\ p \in Gates => check[p] \in {NoCheck} \cup GateChecks
        /\ p \in Agents => check[p] \in {NoCheck} \cup AgentChecks
    BY DEF GTypeOK, Checkers
  <2>2. CASE p \in P
    <3>1. check[p] \in GateChecks \cup AgentChecks /\ check[p].of \in Origins
      BY <2>1, <2>2, CheckKinds DEF Checkers, NoCheck, GateChecks, AgentChecks
    <3>2. PICK d : d = [check[p] EXCEPT !.of = [check[p].of EXCEPT ![field] = 0]]
      OBVIOUS
    <3>3. /\ check[p] \in GateChecks => d \in GateChecks
          /\ check[p] \in AgentChecks => d \in AgentChecks
      BY <2>2, <3>1, <3>2, MarkedCheck
    <3>4. check'[p] = d /\ check[p] # NoCheck
      BY <2>2, <3>2 DEF NoCheck
    <3> QED
      BY <2>1, <3>1, <3>3, <3>4 DEF Checkers
  <2>3. CASE p \notin P
    BY <2>1, <2>3 DEF Checkers
  <2> QED
    BY <2>2, <2>3
<1>2. check' \in [Checkers -> {NoCheck} \cup GateChecks \cup AgentChecks]
  BY <1>1
<1>3. NoCheck \notin GateChecks /\ NoCheck \notin AgentChecks /\ GateChecks \cap AgentChecks = {}
  BY KindsDiffer
<1>4. /\ \A g \in Gates : check'[g] \notin AgentChecks
      /\ \A a \in Agents : check'[a] \notin GateChecks
  BY <1>1, <1>3 DEF Checkers
<1> QED
  BY <1>2, <1>4 DEF GTypeOK

(* An edit takes nothing from the cache or from a hit.                     *)
LEMMA EditKeepsInv ==
    ASSUME GateInv,
           \/ \E f \in 1 .. MaxFingerprint : EditWorkspace(f)
           \/ \E c \in 1 .. MaxConfig : EditConfig(c)
    PROVE  GateInv'
<1> USE DEF GateInv
<1>1. PICK P \in SUBSET Checkers, field \in {"fingerprint", "config"} :
         /\ \A p \in P : check[p].step = "runs"
         /\ field = "fingerprint" => P \subseteq Gates /\ config' = config
         /\ field = "config" => P = {p \in Checkers : check[p].step = "runs"}
         /\ check' = [p \in Checkers |-> IF p \in P
                        THEN [check[p] EXCEPT !.of = [@ EXCEPT ![field] = 0]] ELSE check[p]]
         /\ hour' = hour /\ passes' = passes
         /\ fingerprint' \in 1 .. MaxFingerprint /\ config' \in 1 .. MaxConfig
  <2>1. CASE \E f \in 1 .. MaxFingerprint : EditWorkspace(f)
    <3>1. PICK f \in 1 .. MaxFingerprint : EditWorkspace(f)
      BY <2>1
    <3> DEFINE P == {p \in Checkers : p \in Gates /\ check[p].step = "runs"}
    <3>2. check' = [p \in Checkers |-> IF p \in P
                       THEN [check[p] EXCEPT !.of = [@ EXCEPT !["fingerprint"] = 0]] ELSE check[p]]
      BY <3>1 DEF EditWorkspace
    <3>3. P \in SUBSET Checkers /\ P \subseteq Gates /\ \A p \in P : check[p].step = "runs"
      OBVIOUS
    <3> HIDE DEF P
    <3> QED
      BY <3>1, <3>2, <3>3 DEF EditWorkspace, GTypeOK
  <2>2. CASE \E c \in 1 .. MaxConfig : EditConfig(c)
    <3>1. PICK c \in 1 .. MaxConfig : EditConfig(c)
      BY <2>2
    <3> DEFINE P == {p \in Checkers : check[p].step = "runs"}
    <3>2. check' = [p \in Checkers |-> IF p \in P
                       THEN [check[p] EXCEPT !.of = [@ EXCEPT !["config"] = 0]] ELSE check[p]]
      BY <3>1 DEF EditConfig
    <3>3. P \in SUBSET Checkers /\ \A p \in P : check[p].step = "runs"
      OBVIOUS
    <3>4. P = {p \in Checkers : check[p].step = "runs"}
      OBVIOUS
    <3> HIDE DEF P
    <3> QED
      BY <3>1, <3>2, <3>3, <3>4 DEF EditConfig, GTypeOK
  <2> QED
    BY <2>1, <2>2
<1>2. GTypeOK'
  BY <1>1, EditKeepsTypes
<1>3. ASSUME NEW p \in P
      PROVE  /\ check'[p].step = "runs" /\ check'[p].of.profile = check[p].of.profile
             /\ p \in Gates => check'[p].key = check[p].key
             /\ p \in Agents => check'[p].before = check[p].before
             /\ field = "fingerprint" => /\ check'[p].of.fingerprint = 0
                                         /\ check'[p].of.config = check[p].of.config
             /\ field = "config" => /\ check'[p].of.config = 0
                                    /\ check'[p].of.fingerprint = check[p].of.fingerprint
  <2>1. check[p].step = "runs" /\ p \in Checkers
    BY <1>1
  <2>2. /\ p \in Gates => check[p] \in GateChecks /\ check[p].of \in Origins
        /\ p \in Agents => check[p] \in AgentChecks /\ check[p].of \in Origins
    BY <2>1, CheckKinds DEF GateChecks, AgentChecks
  <2>3. PICK c : c = check[p]
    OBVIOUS
  <2>4. PICK d : d = [c EXCEPT !.of = [c.of EXCEPT ![field] = 0]]
    OBVIOUS
  <2>5. check'[p] = d
    BY <1>1, <2>1, <2>3, <2>4
  <2>6. c \in GateChecks \cup AgentChecks /\ c.of \in Origins /\ c.step = "runs"
    BY <2>1, <2>2, <2>3 DEF Checkers
  <2>7. field \in {"fingerprint", "config"}
    BY <1>1
  <2>8. /\ c \in GateChecks => d \in GateChecks /\ d.key = c.key
        /\ c \in AgentChecks => d \in AgentChecks /\ d.before = c.before
        /\ d.step = "runs" /\ d.of.profile = c.of.profile
        /\ field = "fingerprint" => d.of.fingerprint = 0 /\ d.of.config = c.of.config
        /\ field = "config" => d.of.config = 0 /\ d.of.fingerprint = c.of.fingerprint
    <3>1. PICK o : o = [c.of EXCEPT ![field] = 0]
      OBVIOUS
    <3>2. /\ o \in Origins /\ o.profile = c.of.profile
          /\ field = "fingerprint" => o.fingerprint = 0 /\ o.config = c.of.config
          /\ field = "config" => o.config = 0 /\ o.fingerprint = c.of.fingerprint
      BY <2>6, <2>7, <3>1, GatesAssumption DEF Origins
    <3>3. d = [c EXCEPT !.of = o]
      BY <2>4, <3>1
    <3> HIDE DEF GateInv
    <3>4. d.of = o /\ d.step = "runs"
      BY <2>6, <3>3 DEF GateChecks, AgentChecks
    <3>5. /\ c \in GateChecks => d \in GateChecks /\ d.key = c.key
          /\ c \in AgentChecks => d \in AgentChecks /\ d.before = c.before
      BY <2>6, <3>2, <3>3 DEF GateChecks, AgentChecks
    <3> QED
      BY <3>2, <3>4, <3>5
  <2> QED
    BY <2>2, <2>3, <2>5, <2>8
<1>4. \A p \in Checkers \ P : check'[p] = check[p]
  BY <1>1
<1>5. OriginsKnown'
  <2>1. ASSUME NEW g \in Gates, check'[g].step = "runs" PROVE GateOrigin(check'[g])
    <3>1. g \in Checkers /\ check[g].step = "runs"
      BY <1>1, <1>4, <2>1 DEF Checkers
    <3>2. GateOrigin(check[g])
      BY <3>1 DEF OriginsKnown
    <3> QED
      BY <1>3, <1>4, <3>1, <3>2 DEF GateOrigin
  <2>2. ASSUME NEW a \in Agents, check'[a].step = "runs" PROVE AgentOrigin(check[a])'
    <3>1. a \in Checkers /\ check[a].step = "runs" /\ a \notin Gates
      BY <1>1, <1>4, <2>2, GatesAssumption DEF Checkers
    <3>2. AgentOrigin(check[a])
      BY <3>1 DEF OriginsKnown
    <3>3. CASE a \in P
      <4>1. field = "config"
        BY <1>1, <3>1, <3>3
      <4> QED
        BY <1>3, <3>2, <3>3, <4>1 DEF AgentOrigin
    <3>4. CASE a \notin P
      <4>1. config' = config
        BY <1>1, <3>1, <3>4
      <4> QED
        BY <1>4, <3>1, <3>2, <3>4, <4>1 DEF AgentOrigin
    <3> QED
      BY <3>3, <3>4
  <2> QED
    BY <2>1, <2>2 DEF OriginsKnown
<1>6. AcceptedWasEarned'
  <2>1. ASSUME NEW g \in Gates, check'[g].step = "hit" PROVE check'[g] = check[g]
    BY <1>3, <1>4, <2>1 DEF Checkers
  <2> QED
    BY <2>1 DEF AcceptedWasEarned
<1> QED
  BY <1>1, <1>2, <1>5, <1>6 DEF PassesEarned

(* A lookup only hits what is stored, and a full profile only a pass of    *)
(* the harness; a miss runs on the workspace as it is.                     *)
LEMMA LookUpKeepsInv ==
    ASSUME GateInv, NEW g \in Gates, NEW profile \in Profiles, GateLooksUp(g, profile)
    PROVE  GateInv'
<1> USE DEF GateInv
<1> DEFINE key == GateCacheKey(fingerprint, profile)
<1>1. key \in Keys
  BY DEF GateCacheKey, Keys, GTypeOK
<1>2. PICK c : /\ check' = [check EXCEPT ![g] = c]
               /\ \/ \E e \in GateCacheLookupForGate(key) :
                        c = [step |-> "hit", key |-> key, entry |-> e]
                  \/ c = [step |-> "runs", key |-> key, of |-> Origin(key)]
  BY DEF GateLooksUp
<1>3. UNCHANGED <<hour, fingerprint, config, passes>> /\ g \in Checkers
  BY DEF GateLooksUp, Checkers
<1> HIDE DEF key
<1>4. /\ c \in GateChecks /\ (c.step = "runs" => GateOrigin(c))
      /\ c.step = "hit" => /\ c.entry.key = c.key /\ Earned(c.entry)
                           /\ c.key.profile = "full" => c.entry.recordedBy = "harness"
  <2>1. CASE \E e \in GateCacheLookupForGate(key) : c = [step |-> "hit", key |-> key, entry |-> e]
    <3>1. PICK e \in GateCacheLookupForGate(key) : c = [step |-> "hit", key |-> key, entry |-> e]
      BY <2>1
    <3>2. e \in passes /\ e.key = key /\ (key.profile = "full" => e.recordedBy # "agent")
      BY DEF GateCacheLookupForGate, GateCacheLookup, FreshEntries
    <3>3. e \in Entries /\ e.recordedBy \in {"agent", "harness"} /\ Earned(e)
      BY <3>2 DEF GTypeOK, Entries, PassesEarned
    <3> QED
      BY <1>1, <3>1, <3>2, <3>3 DEF GateChecks
  <2>2. CASE c = [step |-> "runs", key |-> key, of |-> Origin(key)]
    BY <1>1, <2>2, OriginIsKnown DEF GateChecks, GateOrigin
  <2> QED
    BY <1>2, <2>1, <2>2
<1> QED
  BY <1>2, <1>3, <1>4, OwnStepKeepsInv, GatesAssumption DEF GTypeOK

(* A gate passes on its hit, or runs the command on the workspace of now.  *)
LEMMA AcceptKeepsInv ==
    ASSUME GateInv, NEW g \in Gates, GateAccepts(g)
    PROVE  GateInv'
<1> USE DEF GateInv
<1>1. /\ check[g].step = "hit" /\ g \in Checkers
      /\ UNCHANGED <<hour, fingerprint, config, passes>>
  BY DEF GateAccepts, Checkers
<1> DEFINE key == check[g].key
<1>2. key \in Keys
  BY <1>1, CheckKinds
<1>3. PICK c \in {NoCheck, [step |-> "runs", key |-> key, of |-> Origin(key)]} :
         check' = [check EXCEPT ![g] = c]
  BY <1>1 DEF GateAccepts, GTypeOK
<1> HIDE DEF key
<1>4. /\ c = NoCheck \/ c \in GateChecks
      /\ c.step # "hit" /\ (c.step = "runs" => GateOrigin(c))
  BY <1>2, <1>3, OriginIsKnown DEF GateChecks, GateOrigin, NoCheck
<1> QED
  BY <1>1, <1>3, <1>4, OwnStepKeepsInv, GatesAssumption DEF GTypeOK

(* A check that is over is nobody's.                                       *)
LEMMA EndKeepsInv ==
    ASSUME GateInv, NEW p \in Checkers, check' = [check EXCEPT ![p] = NoCheck],
           UNCHANGED <<hour, fingerprint, config>>,
           PassesEarned', passes' \subseteq Entries
    PROVE  GateInv'
<1>1. NoCheck.step = "idle"
  BY DEF NoCheck
<1> QED
  BY <1>1, OwnStepKeepsInv DEF Checkers

(* What a gate stores it ran on the key it stores it under, or it was      *)
(* edited meanwhile.                                                       *)
LEMMA GateFinishKeepsInv ==
    ASSUME GateInv, NEW g \in Gates, GateFinishes(g)
    PROVE  GateInv'
<1> USE DEF GateInv
<1>1. check[g].step = "runs" /\ g \in Checkers
  BY DEF GateFinishes, Checkers
<1>2. check[g].key \in Keys /\ check[g].of \in Origins
  BY <1>1, CheckKinds
<1>3. GateOrigin(check[g])
  BY <1>1 DEF OriginsKnown
<1>4. PassesEarned' /\ passes' \subseteq Entries
  <2>1. CASE GateCacheStore(check[g].key, "harness", check[g].of)
    BY <1>2, <1>3, <2>1, StoreKeepsEarned DEF GateOrigin
  <2>2. CASE UNCHANGED passes
    BY <2>2 DEF PassesEarned, GTypeOK
  <2> QED
    BY <2>1, <2>2 DEF GateFinishes
<1> QED
  BY <1>1, <1>4, EndKeepsInv DEF GateFinishes

(* An agent whose bracket holds started its profile on the content its     *)
(* pass is keyed to.                                                       *)
LEMMA AgentFinishKeepsInv ==
    ASSUME GateInv, NEW a \in Agents, AgentFinishes(a)
    PROVE  GateInv'
<1> USE DEF GateInv
<1>1. check[a].step = "runs" /\ a \in Checkers
  BY DEF AgentFinishes, Checkers
<1>2. check[a] \in AgentChecks /\ AgentOrigin(check[a])
  BY <1>1, CheckKinds DEF OriginsKnown
<1>3. PassesEarned' /\ passes' \subseteq Entries
  <2>1. CASE UNCHANGED passes
    BY <2>1 DEF PassesEarned, GTypeOK
  <2>2. CASE /\ fingerprint = check[a].before
             /\ GateCacheStore(GateCacheKey(fingerprint, check[a].of.profile), "agent", check[a].of)
    <3> DEFINE key == GateCacheKey(fingerprint, check[a].of.profile)
    <3>1. check[a].of \in Origins
      BY <1>2 DEF AgentChecks
    <3>2. /\ key \in Keys /\ key.fingerprint = fingerprint /\ key.config = config
          /\ key.profile = check[a].of.profile
      BY <3>1 DEF Origins, Keys, GateCacheKey, GTypeOK
    <3>3. check[a].of.fingerprint = key.fingerprint /\ check[a].of.config \in {key.config, 0}
      BY <1>2, <2>2, <3>2 DEF AgentOrigin
    <3> HIDE DEF key
    <3>4. GateCacheStore(key, "agent", check[a].of)
      BY <2>2 DEF key
    <3> QED
      BY <3>1, <3>2, <3>3, <3>4, StoreKeepsEarned
  <2> QED
    BY <2>1, <2>2 DEF AgentFinishes
<1> QED
  BY <1>1, <1>3, EndKeepsInv DEF AgentFinishes

LEMMA AgentRunKeepsInv ==
    ASSUME GateInv, NEW a \in Agents, NEW profile \in Profiles, AgentRuns(a, profile)
    PROVE  GateInv'
<1> USE DEF GateInv
<1> DEFINE key == GateCacheKey(fingerprint, profile)
           c == [step |-> "runs", before |-> fingerprint, of |-> Origin(key)]
<1>1. /\ check' = [check EXCEPT ![a] = c] /\ a \in Checkers
      /\ UNCHANGED <<hour, fingerprint, config, passes>>
  BY DEF AgentRuns, Checkers
<1>2. key \in Keys /\ key.fingerprint = fingerprint /\ key.config = config
  BY DEF GateCacheKey, Keys, GTypeOK
<1>3. Origin(key) \in Origins /\ Origin(key).fingerprint = fingerprint
      /\ Origin(key).config = config
  BY <1>2, OriginIsKnown DEF Origin
<1> HIDE DEF key
<1>4. c \in AgentChecks /\ AgentOrigin(c) /\ c.step # "hit"
  BY <1>3 DEF AgentChecks, AgentOrigin, GTypeOK
<1> HIDE DEF c
<1> QED
  BY <1>1, <1>4, OwnStepKeepsInv, GatesAssumption DEF GTypeOK

(* Time and archives take nothing back that was earned.                    *)
LEMMA CacheAgesInv ==
    ASSUME GateInv, HourPasses \/ \E e \in passes : ArchiveEvidence(e)
    PROVE  GateInv'
<1> USE DEF GateInv
<1>1. /\ hour' \in 0 .. MaxHours /\ UNCHANGED <<fingerprint, config, check>>
  BY GatesAssumption DEF HourPasses, ArchiveEvidence, GTypeOK
<1>2. PassesEarned' /\ passes' \subseteq Entries
  <2>1. CASE HourPasses
    BY <2>1 DEF HourPasses, PassesEarned, GTypeOK
  <2>2. ASSUME NEW e \in passes, ArchiveEvidence(e)
        PROVE  PassesEarned' /\ passes' \subseteq Entries
    <3>1. PICK d : d = [e EXCEPT !.evidence = FALSE]
      OBVIOUS
    <3>2. d \in Entries /\ Earned(d)
      BY <3>1 DEF GTypeOK, Entries, PassesEarned, Earned
    <3> QED
      BY <2>2, <3>1, <3>2 DEF ArchiveEvidence, PassesEarned, GTypeOK
  <2> QED
    BY <2>1, <2>2
<1> QED
  BY <1>1, <1>2 DEF GTypeOK, OriginsKnown, AgentOrigin, AcceptedWasEarned

LEMMA GateInvariant == GSpec => []GateInv
<1>1. ASSUME GateInv, [GNext]_gVars PROVE GateInv'
  <2>1. CASE UNCHANGED gVars
    BY <1>1, <2>1
    DEF gVars, GateInv, GTypeOK, PassesEarned, OriginsKnown, AgentOrigin, AcceptedWasEarned
  <2> QED
    BY <1>1, <2>1, LookUpKeepsInv, AcceptKeepsInv, GateFinishKeepsInv, AgentFinishKeepsInv,
       AgentRunKeepsInv, EditKeepsInv, CacheAgesInv DEF GNext
<1> QED
  BY <1>1, GateInvInit, PTL DEF GSpec

(* A pass a gate accepts from the cache was earned: its command started on *)
(* exactly what the gate asks about, unless that was edited under a gate   *)
(* that had read the fingerprint, for any number of agents that run        *)
(* profiles while the workspace and the configuration change, of writers   *)
(* that lose each other's entries and of entries that expire or are        *)
(* archived.                                                               *)
THEOREM AcceptedPassesAreEarned == GSpec => []AcceptedWasEarned
<1>1. GateInv => AcceptedWasEarned
  BY DEF GateInv
<1> QED
  BY <1>1, GateInvariant, PTL
=============================================================================
