------------------------- MODULE DistillGraphProofs -------------------------
(* The inductive invariant says, node by node, what the graph holds: a note  *)
(* on its way to the model or to memory has passed the gate, and nothing is  *)
(* sent, logged or marked before the end.                                    *)
EXTENDS DistillGraph, TLAPS

Fresh(n) == ~n.rewritten /\ ~n.lost
Gated(n) == Fresh(n) /\ n.lacks = {}

\* What has been drafted, repaired or verified, by node.
HeldInv ==
    /\ pc \in {"skip", "retry_language", "prepare"} => parsed \in Draft
    /\ pc = "retry_language" => NoteLang = "ko"
    /\ pc = "verify" => Fresh(note)
    /\ pc = "repair_prepare" => repaired \in Draft
    /\ pc = "repair_verify" => repaired \in Note /\ Fresh(repaired)
    /\ pc = "repair_passed" => repaired \in Note /\ Gated(repaired)
    /\ pc \in {"polish", "polish_retry"} => Gated(note)
    /\ pc = "remember" => ~note.lost /\ note.lacks \subseteq IF note.rewritten THEN InBody ELSE {}

\* Only a repair that passed changes the status, and only the end has effects.
EndInv ==
    /\ pc \notin {"polish", "polish_retry", "remember", "ended"} => status = "pass"
    /\ pc # "ended" => sent = {} /\ event = NoEvent /\ mark = "none"

\* The calls made when a node is reached.
Before ==
    IF pc \in {"prepare_transcript", "offer", "draft"} THEN 0
    ELSE IF pc \in {"skip", "retry_language"} THEN 1
    ELSE LET prepared == IF NoteLang = "ko" THEN 2 ELSE 1 IN
         IF pc \in {"prepare", "verify", "repair_call"} THEN prepared
         ELSE IF pc = "polish_retry" THEN prepared + 2
         ELSE IF pc \in {"remember", "ended"} THEN prepared + 3
         ELSE prepared + 1
CallsInv == calls <= Before

IInv == TypeOK /\ HeldInv /\ EndInv /\ CallsInv /\ GateHolds /\ EventTellsTheTry
-----------------------------------------------------------------------------
(* What the nodes make of an answer.                                       *)

LEMMA PreparedNote ==
    ASSUME NEW a \in Draft
    PROVE  prepare_note(a) \in Note /\ Fresh(prepare_note(a))
BY DEF Draft, Note, prepare_note, Fresh

LEMMA VerifiedNote ==
    ASSUME NEW n \in Note, Fresh(n)
    PROVE  /\ Verified(n) \in Note /\ Fresh(Verified(n))
           /\ Passes(Verified(n)) => Gated(Verified(n))
<1>1. Filled(n.lacks) \in SUBSET Part
  BY DEF Note, Filled, Part
<1>2. Verified(n) = [lacks |-> Filled(n.lacks), readable |-> n.readable,
                     rewritten |-> n.rewritten, lost |-> n.lost]
  BY DEF Note, Verified
<1>3. QED
  BY <1>1, <1>2 DEF Note, Fresh, Gated, Passes

LEMMA JudgedNote ==
    ASSUME NEW r \in Rewrite, NEW result, result = judge(r),
           note \in Note, Gated(note), Judged(r, result)
    PROVE  /\ polished' \in PolishResult /\ note' \in Note
           /\ ~note'.lost /\ note'.lacks \subseteq IF note'.rewritten THEN InBody ELSE {}
           /\ result \in RETRYABLE_KEPT => Gated(note')
BY DEF Rewrite, Judged, judge, PolishResult, Note, Gated, Fresh, InBody, Part, RETRYABLE_KEPT

-----------------------------------------------------------------------------
(* The invariant.                                                          *)

LEMMA InitInv == Init => IInv
BY DEF Init, IInv, TypeOK, HeldInv, EndInv, CallsInv, Before, GateHolds, EventTellsTheTry,
       Steps, Answer, Note, NoNote, NoAnswer, NoEvent, Part, PolishResult

\* A step that does not end the try.
LEMMA GoKeeps ==
    ASSUME IInv, pc # "ended", NEW next \in Steps, Go(next), sent' = sent
    PROVE  /\ pc' \in Steps \cup {"ended"}
           /\ event' \in Event \cup {NoEvent} /\ mark' \in {"none", "done", "skipped", "retry"}
           /\ sent' \in SUBSET Note
           /\ sent' = {} /\ event' = NoEvent /\ mark' = "none"
           /\ GateHolds' /\ EventTellsTheTry'
BY DEF IInv, TypeOK, EndInv, Go, GateHolds, EventTellsTheTry, Steps

\* A try that ends before remember is called.
LEMMA EndKeeps ==
    ASSUME IInv, pc # "ended", sent' = sent,
           \/ End(NoEvent, "retry")
           \/ End(SkipEvent, "skipped")
           \/ End(RepairFailed, "retry")
    PROVE  /\ pc' = "ended"
           /\ event' \in Event \cup {NoEvent} /\ mark' \in {"none", "done", "skipped", "retry"}
           /\ sent' \in SUBSET Note
           /\ GateHolds' /\ EventTellsTheTry'
<1>1. pc' = "ended" /\ sent' = {} /\ sent' \in SUBSET Note /\ GateHolds'
  BY DEF IInv, TypeOK, EndInv, End, GateHolds
<1>2. CASE End(NoEvent, "retry")
  BY <1>1, <1>2 DEF End, EventTellsTheTry
<1>3. CASE End(SkipEvent, "skipped")
  <2>1. Node' = "skipped" /\ event' = SkipEvent /\ mark' = "skipped"
    BY <1>1, <1>3 DEF End, Node
  <2>2. <<"distill_requested", "skip", "skipped">> \in Contract!MEMORY_INGEST_EDGES
    BY DEF Contract!MEMORY_INGEST_EDGES
  <2>3. EventTellsTheTry'
    BY <1>1, <2>1, <2>2 DEF EventTellsTheTry, SkipEvent, Contract!WorkflowNode
  <2>4. QED
    BY <1>1, <2>1, <2>3 DEF SkipEvent, Event
<1>4. CASE End(RepairFailed, "retry")
  <2>1. Node' = "retry_marked" /\ event' = RepairFailed /\ mark' = "retry"
    BY <1>1, <1>4 DEF End, Node
  <2>2. <<"resolution_repaired", "fail", "retry_marked">> \in Contract!MEMORY_INGEST_EDGES
    BY DEF Contract!MEMORY_INGEST_EDGES
  <2>3. EventTellsTheTry'
    BY <1>1, <2>1, <2>2 DEF EventTellsTheTry, RepairFailed
  <2>4. QED
    BY <1>1, <2>1, <2>3 DEF RepairFailed, Event
<1>5. QED
  BY <1>2, <1>3, <1>4

LEMMA RememberKeeps ==
    ASSUME IInv, Remember
    PROVE  /\ pc' = "ended"
           /\ event' \in Event \cup {NoEvent} /\ mark' \in {"none", "done", "skipped", "retry"}
           /\ sent' \in SUBSET Note
           /\ GateHolds' /\ EventTellsTheTry'
<1>1. PICK reply \in Reply :
        End(resolution_fields(reply), IF reply \in {"remembered", "duplicate"} THEN "done" ELSE "retry")
  BY DEF Remember
<1>2. pc' = "ended" /\ event' = resolution_fields(reply)
      /\ mark' = IF reply \in {"remembered", "duplicate"} THEN "done" ELSE "retry"
  BY <1>1 DEF End
<1>3. event' \in Event
  BY <1>2 DEF resolution_fields, Event, Reply
<1>4. sent' \in SUBSET Note /\ GateHolds'
  BY DEF Remember, IInv, TypeOK, HeldInv, EndInv, GateHolds
<1>5. Node' = IF reply \in {"remembered", "duplicate"} THEN "done_marked" ELSE "retry_marked"
  BY <1>2 DEF Node
<1>6. /\ <<"remember_requested", "pass", "done_marked">> \in Contract!MEMORY_INGEST_EDGES
      /\ <<"remember_requested", "duplicate", "done_marked">> \in Contract!MEMORY_INGEST_EDGES
      /\ <<"remember_requested", "fail", "retry_marked">> \in Contract!MEMORY_INGEST_EDGES
  BY DEF Contract!MEMORY_INGEST_EDGES
<1>7. event'.node = "remember_requested"
      /\ <<"remember_requested", event'.outcome, Node'>> \in Contract!MEMORY_INGEST_EDGES
      /\ (event'.status = "ok" <=> mark' # "retry")
      /\ event' # NoEvent
  BY <1>2, <1>5, <1>6 DEF resolution_fields, Reply, NoEvent
<1>8. EventTellsTheTry'
  BY <1>7 DEF EventTellsTheTry
<1>9. QED
  BY <1>2, <1>3, <1>4, <1>8

LEMMA NextKeeps == IInv /\ [Next]_vars => IInv'
<1> SUFFICES ASSUME IInv, [Next]_vars PROVE IInv'
  OBVIOUS
<1> USE DEF IInv
<1>1. CASE PrepareTranscript
  <2>1. Go("offer") /\ pc = "prepare_transcript" BY <1>1 DEF PrepareTranscript
  <2>2. QED
    BY <1>1, <2>1, GoKeeps DEF PrepareTranscript, Go, TypeOK, HeldInv, EndInv, CallsInv, Before, Steps
<1>2. CASE Offer
  <2>1. CASE Go("draft")
    BY <1>2, <2>1, GoKeeps DEF Offer, Go, TypeOK, HeldInv, EndInv, CallsInv, Before, Steps
  <2>2. CASE End(SkipEvent, "skipped")
    BY <1>2, <2>2, EndKeeps DEF Offer, TypeOK, HeldInv, EndInv, CallsInv, Before
  <2>3. QED BY <1>2, <2>1, <2>2 DEF Offer
<1>3. CASE AskDraft
  <2>1. PICK a \in Answer : parsed' = a /\ AfterDraft(a)
    BY <1>3 DEF AskDraft
  <2>2. CASE a \notin Draft
    BY <1>3, <2>1, <2>2, EndKeeps DEF AskDraft, AfterDraft, Ask, TypeOK, HeldInv, EndInv, CallsInv, Before
  <2>3. CASE a \in Draft
    <3>1. PICK next \in {"skip", "retry_language", "prepare"} :
              Go(next) /\ (next = "retry_language" => NoteLang = "ko")
      BY <2>1, <2>3 DEF AfterDraft, wants_language_retry
    <3>2. QED
      BY <1>3, <2>1, <2>3, <3>1, GoKeeps
         DEF AskDraft, Go, Ask, TypeOK, HeldInv, EndInv, CallsInv, Before, Steps
  <2>4. QED BY <2>2, <2>3
<1>4. CASE Skip
  BY <1>4, EndKeeps DEF Skip, TypeOK, HeldInv, EndInv, CallsInv, Before
<1>5. CASE RetryLanguage
  <2>1. PICK a \in Answer :
          IF a = Broken THEN End(NoEvent, "retry") /\ UNCHANGED parsed
          ELSE /\ Go("prepare")
               /\ parsed' = IF a \in Draft /\ a.title = "korean" THEN a ELSE parsed
    BY <1>5 DEF RetryLanguage
  <2>2. CASE a = Broken
    BY <1>5, <2>1, <2>2, EndKeeps DEF RetryLanguage, Ask, TypeOK, HeldInv, EndInv, CallsInv, Before
  <2>3. CASE a # Broken
    <3>1. parsed' \in Draft
      BY <1>5, <2>1, <2>3 DEF RetryLanguage, HeldInv
    <3>2. QED
      BY <1>5, <2>1, <2>3, <3>1, GoKeeps
         DEF RetryLanguage, Go, Ask, TypeOK, HeldInv, EndInv, CallsInv, Before, Steps, Answer
  <2>4. QED BY <2>2, <2>3
<1>6. CASE Prepare
  <2>1. CASE Usable(parsed)
    <3>1. prepare_note(parsed) \in Note /\ Fresh(prepare_note(parsed))
      BY <1>6, PreparedNote DEF Prepare, HeldInv
    <3>2. QED
      BY <1>6, <2>1, <3>1, GoKeeps
         DEF Prepare, Go, TypeOK, HeldInv, EndInv, CallsInv, Before, Steps
  <2>2. CASE ~Usable(parsed)
    BY <1>6, <2>2, EndKeeps DEF Prepare, TypeOK, HeldInv, EndInv, CallsInv, Before
  <2>3. QED BY <2>1, <2>2
<1>7. CASE Verify
  <2>1. note' \in Note /\ Fresh(note') /\ (Passes(note') => Gated(note'))
    BY <1>7, VerifiedNote DEF Verify, HeldInv, TypeOK
  <2>2. PICK next \in {"polish", "repair_call"} : Go(next) /\ (next = "polish" => Passes(note'))
    BY <1>7 DEF Verify
  <2>3. QED
    BY <1>7, <2>1, <2>2, GoKeeps DEF Verify, Go, TypeOK, HeldInv, EndInv, CallsInv, Before, Steps
<1>8. CASE RepairCall
  <2>1. PICK a \in Answer :
          /\ repaired' = a
          /\ IF a = Broken THEN End(NoEvent, "retry")
             ELSE IF a = NoAnswer THEN Go("give_up")
             ELSE Go(IF a.skip THEN "give_up" ELSE "repair_prepare")
    BY <1>8 DEF RepairCall
  <2>2. CASE a = Broken
    BY <1>8, <2>1, <2>2, EndKeeps DEF RepairCall, Ask, TypeOK, HeldInv, EndInv, CallsInv, Before
  <2>3. CASE a # Broken
    <3>1. PICK next \in {"give_up", "repair_prepare"} :
              Go(next) /\ (next = "repair_prepare" => a # NoAnswer)
      BY <2>1, <2>3
    <3>2. next = "repair_prepare" => repaired' \in Draft
      BY <2>1, <2>3, <3>1 DEF Answer
    <3>3. QED
      BY <1>8, <2>1, <3>1, <3>2, GoKeeps
         DEF RepairCall, Go, Ask, TypeOK, HeldInv, EndInv, CallsInv, Before, Steps
  <2>4. QED BY <2>2, <2>3
<1>9. CASE RepairPrepare
  <2>1. CASE Usable(repaired)
    <3>1. prepare_note(repaired) \in Note /\ Fresh(prepare_note(repaired))
      BY <1>9, PreparedNote DEF RepairPrepare, HeldInv
    <3>2. QED
      BY <1>9, <2>1, <3>1, GoKeeps
         DEF RepairPrepare, Go, TypeOK, HeldInv, EndInv, CallsInv, Before, Steps
  <2>2. CASE ~Usable(repaired)
    BY <1>9, <2>2, GoKeeps DEF RepairPrepare, Go, TypeOK, HeldInv, EndInv, CallsInv, Before, Steps
  <2>3. QED BY <2>1, <2>2
<1>10. CASE RepairVerify
  <2>1. repaired' \in Note /\ Fresh(repaired') /\ (Passes(repaired') => Gated(repaired'))
    BY <1>10, VerifiedNote DEF RepairVerify, HeldInv, TypeOK
  <2>2. PICK next \in {"repair_passed", "repair_failed"} :
            Go(next) /\ (next = "repair_passed" => Passes(repaired'))
    BY <1>10 DEF RepairVerify
  <2>3. QED
    BY <1>10, <2>1, <2>2, GoKeeps
       DEF RepairVerify, Go, TypeOK, HeldInv, EndInv, CallsInv, Before, Steps
<1>11. CASE RepairPassed
  BY <1>11, GoKeeps DEF RepairPassed, Go, TypeOK, HeldInv, EndInv, CallsInv, Before, Steps
<1>12. CASE GiveUp
  BY <1>12, EndKeeps DEF GiveUp, TypeOK, HeldInv, EndInv, CallsInv, Before
<1>13. CASE Polish
  <2>1. CASE note.readable
    BY <1>13, <2>1, GoKeeps
       DEF Polish, Go, TypeOK, HeldInv, EndInv, CallsInv, Before, Steps, PolishResult, Gated, Fresh
  <2>2. CASE ~note.readable
    <3>1. PICK r \in Rewrite :
             /\ Judged(r, judge(r))
             /\ Go(IF judge(r) \in RETRYABLE_KEPT THEN "polish_retry" ELSE "remember")
      BY <1>13, <2>2 DEF Polish
    <3>2. /\ polished' \in PolishResult /\ note' \in Note
          /\ ~note'.lost /\ note'.lacks \subseteq IF note'.rewritten THEN InBody ELSE {}
          /\ judge(r) \in RETRYABLE_KEPT => Gated(note')
      BY <1>13, <3>1, JudgedNote DEF Polish, TypeOK, HeldInv
    <3>3. PICK next \in {"polish_retry", "remember"} :
             Go(next) /\ (next = "polish_retry" => judge(r) \in RETRYABLE_KEPT)
      BY <3>1
    <3>4. QED
      BY <1>13, <2>2, <3>2, <3>3, GoKeeps
         DEF Polish, Go, Ask, TypeOK, HeldInv, EndInv, CallsInv, Before, Steps
  <2>3. QED BY <2>1, <2>2
<1>14. CASE PolishRetry
  <2>1. PICK r \in Rewrite : Judged(r, judge(r))
    BY <1>14 DEF PolishRetry
  <2>2. /\ polished' \in PolishResult /\ note' \in Note
        /\ ~note'.lost /\ note'.lacks \subseteq IF note'.rewritten THEN InBody ELSE {}
    BY <1>14, <2>1, JudgedNote DEF PolishRetry, TypeOK, HeldInv
  <2>3. QED
    BY <1>14, <2>2, GoKeeps
       DEF PolishRetry, Go, Ask, TypeOK, HeldInv, EndInv, CallsInv, Before, Steps
<1>15. CASE Remember
  BY <1>15, RememberKeeps DEF Remember, TypeOK, HeldInv, EndInv, CallsInv, Before
<1>16. CASE UNCHANGED vars
  BY <1>16 DEF vars, TypeOK, HeldInv, EndInv, CallsInv, Before, GateHolds, EventTellsTheTry, Node,
               Fresh, Gated
<1>17. QED
  BY <1>1, <1>2, <1>3, <1>4, <1>5, <1>6, <1>7, <1>8, <1>9, <1>10, <1>11, <1>12, <1>13, <1>14,
     <1>15, <1>16 DEF Next

LEMMA Invariant == Spec => []IInv
<1>1. Init => IInv
  BY InitInv
<1>2. IInv /\ [Next]_vars => IInv'
  BY NextKeeps
<1>3. QED
  BY <1>1, <1>2, PTL DEF Spec

\* Whatever the model answers, the graph's state has its types (state.py).
THEOREM TypeCorrect == Spec => []TypeOK
<1>1. IInv => TypeOK
  BY DEF IInv
<1>2. QED
  BY <1>1, Invariant, PTL

\* Nothing is sent to memory that has not passed the resolution gate (graph.py).
THEOREM OnlyGatedIsSent == Spec => []GateHolds
<1>1. IInv => GateHolds
  BY DEF IInv
<1>2. QED
  BY <1>1, Invariant, PTL

\* The event of a try says what its marker says (resolution_event.py).
THEOREM EventAgrees == Spec => []EventTellsTheTry
<1>1. IInv => EventTellsTheTry
  BY DEF IInv
<1>2. QED
  BY <1>1, Invariant, PTL

\* A try asks the model at most five times (graph.py).
THEOREM CallsBounded == Spec => []FiveCalls
<1>1. IInv => FiveCalls
  BY DEF IInv, TypeOK, Steps, CallsInv, Before, FiveCalls
<1>2. QED
  BY <1>1, Invariant, PTL

-----------------------------------------------------------------------------
(* The workflow contract: each step of the graph is an edge, a lapse or none. *)

Edge(from, to) == \E outcome \in Contract!WorkflowOutcome :
                    <<from, outcome, to>> \in Contract!MEMORY_INGEST_EDGES

LEMMA Edges ==
    /\ Edge("session_discovered", "transcript_prepared")
    /\ Edge("transcript_prepared", "distill_requested")
    /\ Edge("transcript_prepared", "skipped")
    /\ Edge("distill_requested", "resolution_verified")
    /\ Edge("distill_requested", "skipped")
    /\ Edge("resolution_verified", "remember_requested")
    /\ Edge("resolution_verified", "resolution_repaired")
    /\ Edge("resolution_repaired", "remember_requested")
    /\ Edge("resolution_repaired", "retry_marked")
    /\ Edge("remember_requested", "done_marked")
    /\ Edge("remember_requested", "retry_marked")
BY DEF Edge, Contract!WorkflowOutcome, Contract!MEMORY_INGEST_EDGES

LEMMA StepKeepsContract ==
    ASSUME IInv, [Next]_vars
    PROVE  \/ Node' = Node
           \/ Edge(Node, Node')
           \/ Node = "distill_requested" /\ Node' = "retry_marked"
<1>1. CASE PrepareTranscript \/ Offer \/ Skip
  BY <1>1, Edges DEF PrepareTranscript, Offer, Skip, Node, Go, End, IInv, EndInv
<1>2. CASE AskDraft
  <2>1. Node = "distill_requested" /\ mark = "none"
    BY <1>2 DEF AskDraft, Node, IInv, EndInv
  <2>2. \/ pc' \in {"skip", "retry_language", "prepare"} /\ mark' = mark
        \/ pc' = "ended" /\ mark' = "retry"
    BY <1>2 DEF AskDraft, AfterDraft, Go, End
  <2>3. Node' \in {"distill_requested", "skipped", "retry_marked"}
    BY <2>1, <2>2 DEF Node
  <2>4. QED
    BY <2>1, <2>3, Edges
<1>3. CASE RetryLanguage
  <2>1. Node = "distill_requested"
    BY <1>3 DEF RetryLanguage, Node
  <2>2. pc' = "prepare" \/ (pc' = "ended" /\ mark' = "retry")
    BY <1>3 DEF RetryLanguage, Go, End
  <2>3. Node' \in {"distill_requested", "retry_marked"}
    BY <2>2 DEF Node
  <2>4. QED
    BY <2>1, <2>3
<1>4. CASE Prepare
  BY <1>4, Edges DEF Prepare, IInv, EndInv, Node, Go, End
<1>5. CASE Verify
  BY <1>5, Edges DEF Verify, IInv, EndInv, Node, Go, End
<1>6. CASE RepairCall
  BY <1>6, Edges DEF RepairCall, IInv, EndInv, Node, Go, End
<1>7. CASE RepairPrepare \/ RepairVerify \/ RepairPassed
  BY <1>7, Edges DEF RepairPrepare, RepairVerify, RepairPassed, IInv, EndInv, Node, Go, End
<1>8. CASE GiveUp
  BY <1>8, Edges DEF GiveUp, IInv, EndInv, Node, Go, End
<1>9. CASE Polish \/ PolishRetry
  <2>1. status' = status /\ status \in {"pass", "repaired"} /\ pc \in {"polish", "polish_retry"}
    BY <1>9 DEF Polish, PolishRetry, IInv, TypeOK
  <2>2. pc' \in {"polish_retry", "remember"} /\ mark' = mark
    BY <1>9 DEF Polish, PolishRetry, Go
  <2>3. Node = IF status = "pass" THEN "resolution_verified" ELSE "resolution_repaired"
    BY <2>1, <1>9 DEF IInv, EndInv, Node
  <2>4. Node' = IF pc' = "remember" THEN "remember_requested" ELSE Node
    BY <2>1, <2>2, <2>3, <1>9 DEF IInv, EndInv, Node
  <2>5. QED
    BY <2>1, <2>2, <2>3, <2>4, Edges
<1>10. CASE Remember
  <2>1. Node = "remember_requested"
    BY <1>10 DEF Remember, Node
  <2>2. pc' = "ended" /\ mark' \in {"done", "retry"}
    BY <1>10 DEF Remember, End
  <2>3. Node' \in {"done_marked", "retry_marked"}
    BY <2>2 DEF Node
  <2>4. QED
    BY <2>1, <2>3, Edges
<1>11. CASE UNCHANGED vars
  BY <1>11 DEF vars, Node
<1>12. QED
  BY <1>1, <1>2, <1>3, <1>4, <1>5, <1>6, <1>7, <1>8, <1>9, <1>10, <1>11 DEF Next

\* The graph implements the workflow contract of workflow.rs, with the one edge the
\* contract lacks.
THEOREM ImplementsContract == Spec => KeepsContract
<1>1. Init => Contract!Init
  BY DEF Init, Contract!Init, Node
<1>2. IInv /\ [Next]_vars => [Contract!Next \/ Contract!Lapse]_Node
  BY StepKeepsContract DEF Edge, Contract!Next, Contract!Move, Contract!Lapse
<1>3. QED
  BY <1>1, <1>2, Invariant, PTL DEF Spec, KeepsContract, Contract!SpecWithLapse
=============================================================================
