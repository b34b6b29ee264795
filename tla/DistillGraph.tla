---------------------------- MODULE DistillGraph ----------------------------
(***************************************************************************)
(* One try at a session: the graph of ohmyboring.distill, from the         *)
(* transcript a hook or the worker prepares to the marker the worker sets. *)
(* Its nodes ask the model, whose answers are arbitrary: a draft, once     *)
(* more in the note's language, a repair of a note that fails the          *)
(* resolution gate, and at most two rewrites of the body for readability.  *)
(*                                                                         *)
(* A note is what it lacks of its resolution contract (Part) and how its   *)
(* body reads.                                                             *)
(***************************************************************************)
EXTENDS Naturals

CONSTANT NoteLang   \* the configured language of notes; "ko" asks again

VARIABLES
    pc,         \* the node that is next, "ended" after the marker
    tokens,     \* the transcript has evidence tokens (numbers, commands, paths)
    parsed,     \* the answer of draft or retry_language
    note,       \* the note on its way to memory
    repaired,   \* the repair's answer, then the note prepared from it
    status,     \* verifier_status
    polished,   \* polish_outcome
    calls,      \* history: the calls of the model
    sent,       \* history: the notes remember was called with
    event,      \* the distill_resolution event
    mark        \* the marker of the session; "skipped" is the done marker of one left out

vars == <<pc, tokens, parsed, note, repaired, status, polished, calls, sent, event, mark>>

\* detail: claims in number and with their fields; kind: the required claim kinds;
\* section: the sections of the body; evidence: tokens of the transcript.
Part == {"detail", "kind", "section", "evidence"}
InBody == {"section", "evidence"}

\* NoAnswer: a failed call or no JSON; Broken: JSON the graph cannot work on.
NoAnswer == [kind |-> "none"]
Broken == [kind |-> "broken"]
Draft == [kind : {"object"}, skip : BOOLEAN, title : {"none", "foreign", "korean"},
          body : {"none", "wall", "readable"}, lacks : SUBSET Part]
Answer == Draft \cup {NoAnswer, Broken}

Note == [lacks : SUBSET Part, readable : BOOLEAN, rewritten : BOOLEAN, lost : BOOLEAN]
NoNote == [lacks |-> Part, readable |-> FALSE, rewritten |-> FALSE, lost |-> FALSE]

Rewrite == [text : BOOLEAN, long : BOOLEAN, facts : BOOLEAN, better : BOOLEAN,
            shape : BOOLEAN, lacks : SUBSET InBody]
PolishResult == {"none", "polished", "already_readable", "no_body", "too_long",
                 "lost_facts", "no_better", "missed_shape"}

Event == [status : {"ok", "failed"},
          node : {"skipped", "resolution_repaired", "remember_requested"},
          outcome : {"pass", "fail", "skip", "duplicate"}]
NoEvent == [status |-> "none"]

Steps == {"prepare_transcript", "offer", "draft", "skip", "retry_language", "prepare", "verify",
          "polish", "polish_retry", "repair_call", "repair_prepare", "repair_verify",
          "repair_passed", "repair_failed", "give_up", "remember"}

TypeOK ==
    /\ pc \in Steps \cup {"ended"}
    /\ tokens \in BOOLEAN
    /\ parsed \in Answer
    /\ note \in Note
    /\ repaired \in Answer \cup Note
    /\ status \in {"pass", "repaired"}
    /\ polished \in PolishResult
    /\ calls \in Nat
    /\ sent \in SUBSET Note
    /\ event \in Event \cup {NoEvent}
    /\ mark \in {"none", "done", "skipped", "retry"}

Init ==
    /\ pc = "prepare_transcript"
    /\ tokens \in BOOLEAN
    /\ parsed = NoAnswer
    /\ note = NoNote
    /\ repaired = NoAnswer
    /\ status = "pass"
    /\ polished = "none"
    /\ calls = 0
    /\ sent = {}
    /\ event = NoEvent
    /\ mark = "none"

Go(next) == pc' = next /\ UNCHANGED <<event, mark>>
\* The try is over: with an event or without, and with the worker's marker.
End(e, m) == pc' = "ended" /\ event' = e /\ mark' = m
Ask == calls' = calls + 1
SkipEvent == [status |-> "ok", node |-> "skipped", outcome |-> "skip"]
RepairFailed == [status |-> "failed", node |-> "resolution_repaired", outcome |-> "fail"]

-----------------------------------------------------------------------------
(* Before the graph: a hook or the worker prepares the transcript, and waves *)
(* a session through that is too short or automated.                         *)

PrepareTranscript ==
    /\ pc = "prepare_transcript"
    /\ Go("offer")
    /\ UNCHANGED <<tokens, parsed, note, repaired, status, polished, calls, sent>>

Offer ==
    /\ pc = "offer"
    /\ Go("draft") \/ End(SkipEvent, "skipped")
    /\ UNCHANGED <<tokens, parsed, note, repaired, status, polished, calls, sent>>

-----------------------------------------------------------------------------
(* The draft.                                                                *)

wants_language_retry(a) == NoteLang = "ko" /\ a.title = "foreign"

AfterDraft(a) ==
    IF a \notin Draft THEN End(NoEvent, "retry")
    ELSE IF a.skip THEN Go("skip")
    ELSE Go(IF wants_language_retry(a) THEN "retry_language" ELSE "prepare")

AskDraft ==
    /\ pc = "draft"
    /\ Ask
    /\ \E a \in Answer : parsed' = a /\ AfterDraft(a)
    /\ UNCHANGED <<tokens, note, repaired, status, polished, sent>>

Skip ==
    /\ pc = "skip"
    /\ End(SkipEvent, "skipped")
    /\ UNCHANGED <<tokens, parsed, note, repaired, status, polished, calls, sent>>

\* The second answer is taken when its title is Korean, whatever else it says.
RetryLanguage ==
    /\ pc = "retry_language"
    /\ Ask
    /\ \E a \in Answer :
         IF a = Broken THEN End(NoEvent, "retry") /\ UNCHANGED parsed
         ELSE /\ Go("prepare")
              /\ parsed' = IF a \in Draft /\ a.title = "korean" THEN a ELSE parsed
    /\ UNCHANGED <<tokens, note, repaired, status, polished, sent>>

Usable(a) == a.title # "none" /\ a.body # "none"
prepare_note(a) ==
    [lacks |-> a.lacks, readable |-> a.body = "readable", rewritten |-> FALSE, lost |-> FALSE]

Prepare ==
    /\ pc = "prepare"
    /\ IF Usable(parsed) THEN note' = prepare_note(parsed) /\ Go("verify")
       ELSE UNCHANGED note /\ End(NoEvent, "retry")
    /\ UNCHANGED <<tokens, parsed, repaired, status, polished, calls, sent>>

-----------------------------------------------------------------------------
(* The resolution gate.                                                      *)

\* ensure_required_claim_kinds takes a missing kind from its section,
\* ensure_required_evidence_tokens quotes the transcript; one without any token
\* satisfies no level that asks for some.
Filled(lacks) ==
    (lacks \ ((IF "section" \in lacks THEN {} ELSE {"kind"}) \cup {"evidence"}))
        \cup (IF tokens THEN {} ELSE {"evidence"})
Verified(n) == [n EXCEPT !.lacks = Filled(n.lacks)]
Passes(n) == n.lacks = {}

Verify ==
    /\ pc = "verify"
    /\ note' = Verified(note)
    /\ Go(IF Passes(note') THEN "polish" ELSE "repair_call")
    /\ UNCHANGED <<tokens, parsed, repaired, status, polished, calls, sent>>

RepairCall ==
    /\ pc = "repair_call"
    /\ Ask
    /\ \E a \in Answer :
         /\ repaired' = a
         /\ IF a = Broken THEN End(NoEvent, "retry")
            ELSE IF a = NoAnswer THEN Go("give_up")
            ELSE Go(IF a.skip THEN "give_up" ELSE "repair_prepare")
    /\ UNCHANGED <<tokens, parsed, note, status, polished, sent>>

RepairPrepare ==
    /\ pc = "repair_prepare"
    /\ IF Usable(repaired) THEN repaired' = prepare_note(repaired) /\ Go("repair_verify")
       ELSE UNCHANGED repaired /\ Go("give_up")
    /\ UNCHANGED <<tokens, parsed, note, status, polished, calls, sent>>

RepairVerify ==
    /\ pc = "repair_verify"
    /\ repaired' = Verified(repaired)
    /\ Go(IF Passes(repaired') THEN "repair_passed" ELSE "repair_failed")
    /\ UNCHANGED <<tokens, parsed, note, status, polished, calls, sent>>

RepairPassed ==
    /\ pc = "repair_passed"
    /\ note' = repaired
    /\ status' = "repaired"
    /\ Go("polish")
    /\ UNCHANGED <<tokens, parsed, repaired, polished, calls, sent>>

GiveUpAsSkip ==
    /\ pc \in {"give_up", "repair_failed"}
    /\ End(SkipEvent, "skipped")
    /\ UNCHANGED <<tokens, parsed, note, repaired, status, polished, calls, sent>>

\* give_up and repair_failed differ in the report they log.
GiveUp ==
    /\ pc \in {"give_up", "repair_failed"}
    /\ End(RepairFailed, "retry")
    /\ UNCHANGED <<tokens, parsed, note, repaired, status, polished, calls, sent>>

-----------------------------------------------------------------------------
(* Polishing: the model only proposes, judge decides.                        *)

judge_without_facts(r) ==
    IF ~r.text THEN "no_body"
    ELSE IF r.long THEN "too_long"
    ELSE IF ~r.better THEN "no_better"
    ELSE IF ~r.shape THEN "missed_shape"
    ELSE "polished"
judge(r) ==
    IF ~r.text THEN "no_body"
    ELSE IF r.long THEN "too_long"
    ELSE IF ~r.facts THEN "lost_facts"
    ELSE IF ~r.better THEN "no_better"
    ELSE IF ~r.shape THEN "missed_shape"
    ELSE "polished"

RETRYABLE_KEPT == {"lost_facts", "missed_shape"}

\* _run: claims and title stay; what the sections and tokens of the new body are,
\* judge does not ask.
Judged(r, result) ==
    /\ polished' = result
    /\ note' = IF result = "polished"
               THEN [lacks |-> r.lacks, readable |-> note.readable,
                     rewritten |-> TRUE, lost |-> ~r.facts]
               ELSE note

Polish ==
    /\ pc = "polish"
    /\ IF note.readable
       THEN polished' = "already_readable" /\ Go("remember") /\ UNCHANGED <<note, calls>>
       ELSE /\ Ask
            /\ \E r \in Rewrite :
                 LET result == judge(r) IN
                 /\ Judged(r, result)
                 /\ Go(IF result \in RETRYABLE_KEPT THEN "polish_retry" ELSE "remember")
    /\ UNCHANGED <<tokens, parsed, repaired, status, sent>>

PolishRetryUntilKept ==
    /\ pc = "polish_retry"
    /\ Ask
    /\ \E r \in Rewrite :
         /\ Judged(r, judge(r))
         /\ Go(IF judge(r) \in RETRYABLE_KEPT THEN "polish_retry" ELSE "remember")
    /\ UNCHANGED <<tokens, parsed, repaired, status, sent>>

PolishRetry ==
    /\ pc = "polish_retry"
    /\ Ask
    /\ \E r \in Rewrite : Judged(r, judge(r))
    /\ Go("remember")
    /\ UNCHANGED <<tokens, parsed, repaired, status, sent>>

-----------------------------------------------------------------------------
(* Remember.  Module Remember says what the door does with the note.         *)

Reply == {"remembered", "duplicate", "failed", "refused"}
resolution_fields_deferred(reply) ==
    [status |-> IF reply = "failed" THEN "failed" ELSE "ok",
     node |-> "remember_requested",
     outcome |-> IF reply = "duplicate" THEN "duplicate"
                 ELSE IF reply = "failed" THEN "fail" ELSE "pass"]
resolution_fields(reply) ==
    [status |-> IF reply \in {"remembered", "duplicate"} THEN "ok" ELSE "failed",
     node |-> "remember_requested",
     outcome |-> IF reply = "remembered" THEN "pass"
                 ELSE IF reply = "duplicate" THEN "duplicate" ELSE "fail"]

Remember ==
    /\ pc = "remember"
    /\ sent' = sent \cup {note}
    /\ \E reply \in Reply :
         End(resolution_fields(reply), IF reply \in {"remembered", "duplicate"} THEN "done" ELSE "retry")
    /\ UNCHANGED <<tokens, parsed, note, repaired, status, polished, calls>>

Next ==
    \/ PrepareTranscript \/ Offer
    \/ AskDraft \/ Skip \/ RetryLanguage \/ Prepare
    \/ Verify \/ RepairCall \/ RepairPrepare \/ RepairVerify \/ RepairPassed \/ GiveUp
    \/ Polish \/ PolishRetry
    \/ Remember

Spec == Init /\ [][Next]_vars

-----------------------------------------------------------------------------
(* Properties.                                                             *)

\* The node of the workflow contract the session is at.
Node ==
    IF pc = "prepare_transcript" THEN "session_discovered"
    ELSE IF pc = "offer" THEN "transcript_prepared"
    ELSE IF pc \in {"draft", "retry_language", "prepare"} THEN "distill_requested"
    ELSE IF pc = "verify" \/ (pc \in {"polish", "polish_retry"} /\ status = "pass")
         THEN "resolution_verified"
    ELSE IF pc = "remember" THEN "remember_requested"
    ELSE IF mark = "done" THEN "done_marked"
    ELSE IF mark = "retry" THEN "retry_marked"
    ELSE IF pc \in {"skip", "ended"} THEN "skipped"
    ELSE "resolution_repaired"

Contract == INSTANCE Workflow WITH node <- Node

\* The graph implements the workflow contract (workflow.rs), but for the tries
\* that end before there is a note to verify: those only go back to be retried.
KeepsContract == Contract!SpecWithLapse

\* drudge/WORKFLOW.md: "a session may only move through known nodes and labelled
\* transitions before it reaches the readiness projection".
FollowsContract == Contract!Spec

\* "Verifier failures repair once, then block remember" (README): what is sent to
\* memory has passed the gate, with its claims as they passed; its body did too, or
\* is a rewrite of one that passed and has kept its facts, sections and evidence
\* apart, which nothing asks of a rewrite.
GateHolds ==
    \A n \in sent : ~n.lost /\ n.lacks \subseteq IF n.rewritten THEN InBody ELSE {}

\* The event of a try agrees with its marker and with an edge of the contract into
\* the node the session ends at, and whatever was sent to memory has an event.
EventTellsTheTry ==
    pc = "ended" =>
        /\ sent # {} => event # NoEvent
        /\ event # NoEvent =>
              /\ event.status = "ok" <=> mark # "retry"
              /\ \E from \in {event.node} \cup
                              (IF event.node = Node THEN Contract!WorkflowNode ELSE {}) :
                    <<from, event.outcome, Node>> \in Contract!MEMORY_INGEST_EDGES

\* Every correction is asked for once, so a try costs at most five calls.
FiveCalls == calls <= IF NoteLang = "ko" THEN 5 ELSE 4

\* A session the model declines is not memory (skip, give_up).
DeclinedIsNotSent == sent # {} /\ status = "pass" => ~parsed.skip
=============================================================================
