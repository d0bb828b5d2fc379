------------------------- MODULE SupervisorHandoff -------------------------
(***************************************************************************)
(* `pan handoff` moves the supervision of one run to a fresh chat.  A CLI  *)
(* process (an attempt) checks that the run is at a clean boundary, drives *)
(* the chat window step by step, appends a `sending` record to the run,    *)
(* presses Send and then marks the record.  The receiving session attests  *)
(* the supervisor card, which accepts the record.  Meanwhile the session   *)
(* that handed off, other attempts, policy edits and the operator at the   *)
(* same screen go on, and the CLI process may die between any two steps.   *)
(* Every step that touches the run is one critical section of the run's    *)
(* operation mutex (OperationMutex.tla).                                   *)
(***************************************************************************)
EXTENDS Naturals, Sequences, SequencesExt, FiniteSets

CONSTANTS
    Attempts,       \* the handoff attempts, each one CLI process and one chat
    Cardless,       \* TRUE: the run was created before the card existed
    MaxEdits,       \* bound: policy edits that change the card's digest
    MaxGeneration,  \* bound: attestations counted on one card
    MaxTouches      \* bound: times the operator disturbs the chat window

ASSUME HandoffAssumption ==
    /\ Cardless \in BOOLEAN
    /\ MaxEdits \in Nat /\ MaxGeneration \in Nat /\ MaxTouches \in Nat

VARIABLES
    hrun,     \* the run: pending action, live watch, session-bound or not
    library,  \* version of the policies the card is rendered from
    card,     \* supervisor_card: digest (0: none), attested digest, generation
    redline,  \* generations that have a redline declaration
    records,  \* supervisor_handoffs
    cli,      \* per attempt: its step, the generation it read, dry run or not
    window,   \* per attempt: the new chat's composer and picker
    chat,     \* per attempt: what the chat was sent with, or NoChat
    touches   \* disturbances so far

hVars == <<hrun, library, card, redline, records, cli, window, chat,
           touches>>

Chats == [text : {"none", "empty", "prompt", "other"}, model : BOOLEAN, effort : BOOLEAN]
NoChat == [text |-> "none", model |-> FALSE, effort |-> FALSE]
HandoffRecords == [id : Attempts, from : 0 .. MaxGeneration,
            status : {"sending", "sent", "aborted", "accepted"}]
AttemptAtRest == {"idle", "done", "dead"}

HTypeOK ==
    /\ hrun \in [pending : {"prepare", "invoke"}, watch : BOOLEAN,
                 bound : BOOLEAN]
    /\ library \in 1 .. MaxEdits + 1
    /\ card \in [digest : 0 .. MaxEdits + 1, attested : 0 .. MaxEdits + 1,
                 generation : 0 .. MaxGeneration]
    /\ redline \subseteq 1 .. MaxGeneration
    /\ records \in Seq(HandoffRecords)
    /\ cli \in [Attempts -> [step : {"idle", "open", "drafted", "checked",
                  "recorded", "pressed", "failed", "done", "dead"},
                  from : 0 .. MaxGeneration, dry : BOOLEAN]]
    /\ window \in [Attempts -> Chats] /\ chat \in [Attempts -> Chats]
    /\ touches \in 0 .. MaxTouches

HInit ==
    /\ hrun \in [pending : {"prepare"}, watch : {FALSE}, bound : BOOLEAN]
    /\ library = 1
    /\ card = [digest |-> IF Cardless THEN 0 ELSE 1, attested |-> 0,
               generation |-> 0]
    /\ redline = {}
    /\ records = <<>>
    /\ cli = [a \in Attempts |-> [step |-> "idle", from |-> 0, dry |-> FALSE]]
    /\ window = [a \in Attempts |-> NoChat]
    /\ chat = [a \in Attempts |-> NoChat]
    /\ touches = 0

-----------------------------------------------------------------------------
(* The run and its supervisor card                                         *)

OpenRecord(r) == r.status \in {"sending", "sent"}
HandoffPending == records # <<>> /\ OpenRecord(Last(records))

\* The fence, on the card a command holds.
FencedBy(c) == HandoffPending /\ c.generation = Last(records).from
AttestedCard(c) == c.attested = c.digest

\* A render whose digest changed keeps the attestation and drops the count.
Rendered ==
    IF card.digest = library THEN card
    ELSE [digest |-> library, attested |-> card.attested, generation |-> 0]

\* The operator edits a policy the card quotes.
EditPolicy ==
    /\ library <= MaxEdits
    /\ library' = library + 1
    /\ UNCHANGED <<hrun, card, redline, records, cli, window, chat,
                   touches>>

\* pan governance card --mode supervisor
RenderCard ==
    /\ card # Rendered
    /\ card' = Rendered
    /\ UNCHANGED <<hrun, library, redline, records, cli, window, chat,
                   touches>>

\* prepare renders the card first, and saves it even when it then refuses;
\* the prepare that gives the run its first card is not checked.
MayPrepare ==
    \/ card.digest = 0
    \/ ~FencedBy(Rendered) /\ AttestedCard(Rendered)

Prepare ==
    /\ hrun.pending = "prepare"
    /\ card' = Rendered
    /\ IF MayPrepare
       THEN hrun' = [hrun EXCEPT !.pending = "invoke"]
       ELSE card' # card /\ UNCHANGED hrun
    /\ UNCHANGED <<library, redline, records, cli, window, chat, touches>>

Submit ==
    /\ hrun.pending = "invoke"
    /\ card.digest # 0 => ~FencedBy(card) /\ AttestedCard(card)
    /\ hrun' = [hrun EXCEPT !.pending = "prepare"]
    /\ UNCHANGED <<library, card, redline, records, cli, window, chat, touches>>

\* A watch is armed over the worker in flight, and may outlive it.
ArmWatch ==
    /\ hrun.pending = "invoke" /\ ~hrun.watch
    /\ hrun' = [hrun EXCEPT !.watch = TRUE]
    /\ UNCHANGED <<library, card, redline, records, cli, window, chat,
                   touches>>

EndWatch ==
    /\ hrun.watch
    /\ hrun' = [hrun EXCEPT !.watch = FALSE]
    /\ UNCHANGED <<library, card, redline, records, cli, window, chat,
                   touches>>

\* applyHandoffAccepted: an attestation accepts the open handoff, if any.
Accepted ==
    IF HandoffPending
    THEN [records EXCEPT ![Len(records)].status = "accepted"]
    ELSE records

Attest ==
    /\ card.digest # 0
    /\ card.generation < MaxGeneration
    /\ card' = [card EXCEPT !.attested = card.digest, !.generation = @ + 1]
    /\ records' = Accepted
    /\ UNCHANGED <<hrun, library, redline, cli, window, chat, touches>>

\* pan status --redline: a declaration names the card's current generation.
DeclareRedline ==
    /\ card.generation \notin redline \cup {0}
    /\ redline' = redline \cup {card.generation}
    /\ UNCHANGED <<hrun, library, card, records, cli, window, chat,
                   touches>>

RedlineCurrent == card.generation = 0 \/ card.generation \in redline

-----------------------------------------------------------------------------
(* The CLI process of one attempt                                          *)

(* Mutant: an open handoff is not looked for. *)
MutantEligible == ~hrun.bound /\ hrun.pending # "invoke" /\ ~hrun.watch

Eligible ==
    /\ ~hrun.bound
    /\ hrun.pending # "invoke"
    /\ ~hrun.watch
    /\ ~HandoffPending

Advance(a, from, to) ==
    /\ cli[a].step = from
    /\ cli' = [cli EXCEPT ![a].step = to]

\* The process is over: what it had read is gone.
Leave(a, to) ==
    cli' = [cli EXCEPT ![a] = [step |-> to, from |-> 0, dry |-> FALSE]]

\* prepareHandoff: the boundary is checked and the generation is read, well
\* before the record is written.
StartHandoff(a, dry) ==
    /\ cli[a].step = "idle"
    /\ Eligible
    /\ cli' = [cli EXCEPT ![a] = [step |-> "open", from |-> card.generation,
                                  dry |-> dry]]
    /\ UNCHANGED <<hrun, library, card, redline, records, window, chat,
                   touches>>

\* The steps on the new chat: a fresh composer, the prompt in it, the model and
\* the effort in its picker.  Each is verified on a fresh snapshot.
ChatOpened(w) == [w EXCEPT !.text = "empty"]
PromptWritten(w) == [w EXCEPT !.text = IF w.text = "empty" THEN "prompt" ELSE @]
ModelSelected(w) == [w EXCEPT !.model = TRUE]
EffortSelected(w) == [w EXCEPT !.effort = TRUE]

DraftPrompt(a) ==
    /\ Advance(a, "open", "drafted")
    /\ window' = [window EXCEPT ![a] =
                    EffortSelected(ModelSelected(PromptWritten(ChatOpened(@))))]
    /\ UNCHANGED <<hrun, library, card, redline, records, chat, touches>>

\* The last look before Send: prompt held, picker label as asked.  A dry run
\* stops behind it and leaves the draft.
FinalCheck(a) ==
    /\ window[a].text = "prompt" /\ window[a].model /\ window[a].effort
    /\ cli[a].step = "drafted"
    /\ IF cli[a].dry
       THEN Leave(a, "done") /\ window' = [window EXCEPT ![a] = NoChat]
       ELSE Advance(a, "drafted", "checked") /\ UNCHANGED window
    /\ UNCHANGED <<hrun, library, card, redline, records, chat, touches>>

\* The pre-Send callback: eligibility again, and the record in the same
\* critical section.
AppendSending(a) ==
    /\ Eligible
    /\ Advance(a, "checked", "recorded")
    /\ records' = Append(records, [id |-> a, from |-> cli[a].from,
                                   status |-> "sending"])
    /\ UNCHANGED <<hrun, library, card, redline, window, chat, touches>>

(* Mutant: Send is pressed before the record is written. *)
MutantPressSend(a) ==
    /\ \E to \in {"pressed", "failed"} : Advance(a, "checked", to)
    /\ chat' = [chat EXCEPT ![a] = window[a]]
    /\ window' = [window EXCEPT ![a] = NoChat]
    /\ UNCHANGED <<hrun, library, card, redline, records, touches>>

\* Send is pressed; the helper's reply arrives, or is lost after the press.
PressSend(a) ==
    /\ \E to \in {"pressed", "failed"} : Advance(a, "recorded", to)
    /\ chat' = [chat EXCEPT ![a] = window[a]]
    /\ window' = [window EXCEPT ![a] = NoChat]
    /\ UNCHANGED <<hrun, library, card, redline, records, touches>>

\* Any check of the sequence fails, the deadline passes, the record is refused
\* or the press has no effect.
FailAttempt(a) ==
    /\ cli[a].step \in {"open", "drafted", "checked", "recorded"}
    /\ cli' = [cli EXCEPT ![a].step = "failed"]
    /\ window' = [window EXCEPT ![a] = NoChat]
    /\ UNCHANGED <<hrun, library, card, redline, records, chat, touches>>

LatestIs(a) == records # <<>> /\ Last(records).id = a

MarkSent(a) ==
    /\ cli[a].step = "pressed"
    /\ Leave(a, "done")
    /\ records' = IF LatestIs(a) /\ Last(records).status = "sending"
                  THEN [records EXCEPT ![Len(records)].status = "sent"]
                  ELSE records
    /\ UNCHANGED <<hrun, library, card, redline, window, chat, touches>>

(* Mutant: an attempt that failed leaves its record alone. *)
MutantMarkAborted(a) ==
    /\ cli[a].step = "failed"
    /\ Leave(a, "done")
    /\ UNCHANGED <<hrun, library, card, redline, records, window, chat, touches>>

\* The abort is written whatever the record says by then.
MarkAborted(a) ==
    /\ cli[a].step = "failed"
    /\ Leave(a, "done")
    /\ records' = IF LatestIs(a)
                  THEN [records EXCEPT ![Len(records)].status = "aborted"]
                  ELSE records
    /\ UNCHANGED <<hrun, library, card, redline, window, chat, touches>>

CliDies(a) ==
    /\ cli[a].step \notin AttemptAtRest
    /\ Leave(a, "dead")
    /\ window' = [window EXCEPT ![a] = NoChat]
    /\ UNCHANGED <<hrun, library, card, redline, records, chat, touches>>

\* The operator types into the draft or changes its picker.
TouchWindow(a) ==
    /\ cli[a].step \in {"drafted", "checked", "recorded"}
    /\ touches < MaxTouches
    /\ touches' = touches + 1
    /\ window' \in {[window EXCEPT ![a].text = "other"],
                   [window EXCEPT ![a].model = FALSE],
                   [window EXCEPT ![a].effort = FALSE]}
    /\ UNCHANGED <<hrun, library, card, redline, records, cli, chat>>

CliStep(a) ==
    \/ DraftPrompt(a) \/ FinalCheck(a) \/ AppendSending(a) \/ PressSend(a) \/ FailAttempt(a)
    \/ MarkSent(a) \/ MarkAborted(a)

HNext ==
    \/ EditPolicy \/ RenderCard \/ Attest \/ DeclareRedline
    \/ Prepare \/ Submit \/ ArmWatch \/ EndWatch
    \/ \E a \in Attempts :
          \/ \E dry \in BOOLEAN : StartHandoff(a, dry)
          \/ CliStep(a) \/ CliDies(a) \/ TouchWindow(a)

\* A CLI process that is not killed goes on; nobody else has to act.
HFairness == \A a \in Attempts : WF_hVars(CliStep(a))

HSpec == HInit /\ [][HNext]_hVars /\ HFairness

-----------------------------------------------------------------------------
(* Properties                                                              *)

\* Only the latest record of a run may be open: two attempts that both passed
\* the early check never both press Send (appendSendingRecord checks again).
OneOpenHandoff ==
    \A i \in 1 .. Len(records) - 1 : ~OpenRecord(records[i])

\* Nothing is sent without a record: a chat that received the resume prompt
\* belongs to an attempt the run knows, also when the CLI died right after.
SentUnderRecord ==
    \A a \in Attempts :
        chat[a] # NoChat => \E i \in 1 .. Len(records) : records[i].id = a

\* A record never stays `sending` behind a CLI process that lives: the attempt
\* ends and the record is sent, aborted or accepted.
SendingResolves ==
    \A a \in Attempts :
        (LatestIs(a) /\ Last(records).status = "sending") ~>
            (cli[a].step = "dead" \/ ~LatestIs(a)
               \/ Last(records).status # "sending")
=============================================================================
