------------------------------ MODULE Workflow ------------------------------
(* The workflow contract of memory ingestion (drudge/src/workflow.rs): the   *)
(* nodes a session moves through on its way into memory, and the labelled    *)
(* edges.  "A session may only move through known nodes and labelled         *)
(* transitions" (drudge/WORKFLOW.md).                                        *)

VARIABLE node

WorkflowNode == {"session_discovered", "transcript_prepared", "distill_requested",
                 "resolution_verified", "resolution_repaired", "remember_requested",
                 "done_marked", "retry_marked", "skipped",
                 "resolution_event_recorded", "readiness_projected"}

WorkflowOutcome == {"continue", "pass", "fail", "skip", "duplicate"}

MEMORY_INGEST_EDGES ==
    {<<"session_discovered", "continue", "transcript_prepared">>,
     <<"transcript_prepared", "continue", "distill_requested">>,
     <<"transcript_prepared", "skip", "skipped">>,
     <<"distill_requested", "continue", "resolution_verified">>,
     <<"distill_requested", "skip", "skipped">>,
     <<"resolution_verified", "pass", "remember_requested">>,
     <<"resolution_verified", "fail", "resolution_repaired">>,
     <<"resolution_repaired", "pass", "remember_requested">>,
     <<"resolution_repaired", "fail", "retry_marked">>,
     <<"remember_requested", "pass", "done_marked">>,
     <<"remember_requested", "duplicate", "done_marked">>,
     <<"remember_requested", "fail", "retry_marked">>,
     <<"done_marked", "continue", "resolution_event_recorded">>,
     <<"retry_marked", "continue", "resolution_event_recorded">>,
     <<"skipped", "continue", "resolution_event_recorded">>,
     <<"resolution_event_recorded", "continue", "readiness_projected">>}

TypeOK == node \in WorkflowNode

Init == node = "session_discovered"

\* WorkflowGraph.next: one labelled edge.
Move(outcome) == <<node, outcome, node'>> \in MEMORY_INGEST_EDGES
Next == \E outcome \in WorkflowOutcome : Move(outcome)

Spec == Init /\ [][Next]_node

\* What a session does besides: a try that ends before the model has given a note
\* to verify goes back to be tried again.  The contract has no such edge.
Lapse == node = "distill_requested" /\ node' = "retry_marked"

SpecWithLapse == Init /\ [][Next \/ Lapse]_node
=============================================================================
