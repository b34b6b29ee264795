----------------------------- MODULE RereadJobs -----------------------------
(***************************************************************************)
(* What the door promises of the subject merges it accepts: a merge is     *)
(* owed a reread from its commit on, one reread at a time covers merges    *)
(* that were committed before it began, and each merge is told once how it *)
(* went.  It is told "done" only when a reread that covers it has ended.   *)
(* SubjectMerge implements this specification.                             *)
(***************************************************************************)
CONSTANT Merge

State == {"none", "owed", "reading", "read", "missed", "done", "failed", "lost"}

VARIABLE job

TypeOK == job \in [Merge -> State]

Init == job = [m \in Merge |-> "none"]

Move(S, to) == job' = [m \in Merge |-> IF m \in S THEN to ELSE job[m]]
In(states) == {m \in Merge : job[m] \in states}

Commit(m) == job[m] = "none" /\ Move({m}, "owed")

\* One reread at a time.
Begin == /\ In({"reading"}) = {}
         /\ \E S \in SUBSET In({"owed"}) : S # {} /\ Move(S, "reading")

End == In({"reading"}) # {} /\ Move(In({"reading"}), "read")

\* The reread failed, never began, or its result could not be used.
Miss == \E from \in {"owed", "reading", "read"} :
            \E S \in SUBSET In({from}) : S # {} /\ Move(S, "missed")

Tell(m) == \/ job[m] = "read" /\ Move({m}, "done")
           \/ job[m] = "missed" /\ Move({m}, "failed")

\* The door restarts, or its worker dies: what it held in memory is gone.
Forget == \E S \in SUBSET In({"owed", "reading", "read", "missed"}) : Move(S, "lost")

Next == (\E m \in Merge : Commit(m) \/ Tell(m)) \/ Begin \/ End \/ Miss \/ Forget

Spec == Init /\ [][Next]_job
=============================================================================
