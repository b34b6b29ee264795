---------------------------- MODULE SubjectMerge ----------------------------
(***************************************************************************)
(* The door's subject merge (agents/door/door.py).  Rows of the claim      *)
(* table whose subjects are spellings of one canonical subject are deleted,*)
(* and the engine's /sync reads the notes again, which writes the rows     *)
(* under the canonical spelling.  The request is answered at the commit;   *)
(* one background worker calls /sync for all merges queued meanwhile and   *)
(* settles their card rows.                                                *)
(*                                                                         *)
(* Processes: the request threads, the worker, the engine's whole-vault    *)
(* pass under its sync_lock (asked for by the worker or the scheduler).    *)
(***************************************************************************)
EXTENDS Naturals, FiniteSets

CONSTANTS
    Merge,     \* POST /repairs/split-subjects, one value a request
    Subject,   \* canonical subjects
    Note,
    Held,      \* owner-written notes, when requests carry no owner token
    Spelling, Canon,
    Faults,    \* of {"ingest", "sync", "raise", "restart"}
    MaxFault   \* bound: failures of the engine, the database and the door

ASSUME MergeAssumption ==
    /\ Held \subseteq Note /\ Canon \in Spelling /\ Subject # {} /\ MaxFault \in Nat

Stated == Subject \X Note        \* every note's file states a claim of every subject

VARIABLES
    table,     \* claim: the spellings under which a note's claims of a subject are stored
    door,      \* the request threads
    queue,     \* _REREAD_QUEUE
    worker,    \* the reread thread; "none": _REREAD_WORKER is None
    engine,    \* the pass that holds sync_lock
    told,      \* how each merge was settled
    committed, \* history: merges whose delete is committed
    lost,      \* history: merges the door forgot
    unread,    \* history: claims whose last ingest failed
    faults

vars == <<table, door, queue, worker, engine, told, committed, lost, unread, faults>>

\* A request: its subject, the spellings and notes it read, and then touched.
Request == [pc : {"idle", "find", "commit", "queue", "answered", "refused", "cut"},
            subject : Subject, variants : SUBSET Spelling, notes : SUBSET Note]
Worker == [pc : {"none", "take", "sync", "wait", "count", "tell"}, batch : SUBSET Merge,
           outcome : {"done", "failed"}]
\* The claims still to go through, and those probed and being embedded.
Engine == [on : BOOLEAN, left : SUBSET Stated, insert : SUBSET Stated]

RequestIdle == [pc |-> "idle", subject |-> CHOOSE s \in Subject : TRUE,
                variants |-> {}, notes |-> {}]
NoWorker == [pc |-> "none", batch |-> {}, outcome |-> "failed"]
EngineIdle == [on |-> FALSE, left |-> {}, insert |-> {}]
EngineStartStored == [on |-> TRUE, left |-> {e \in Stated : table[e] # {}}, insert |-> {}]
EngineStart == [on |-> TRUE, left |-> Stated, insert |-> {}]

TypeOK ==
    /\ table \in [Stated -> SUBSET Spelling]
    /\ door \in [Merge -> Request]
    /\ queue \subseteq Merge
    /\ worker \in Worker
    /\ engine \in Engine
    /\ told \in [Merge -> {"no", "done", "failed"}]
    /\ committed \subseteq Merge
    /\ lost \subseteq Merge
    /\ unread \subseteq Stated
    /\ faults \in 0 .. MaxFault
    \* Only a worker past the queue holds merges; who waits has a pass to
    \* wait for; a pass embeds one claim at a time.
    /\ worker.pc \in {"none", "take"} => worker.batch = {}
    /\ worker.pc = "wait" => engine.on
    /\ ~engine.on => engine = EngineIdle
    /\ \A e, x \in engine.insert : e = x

\* Every stated claim has rows, under some spellings.
Init ==
    /\ table \in [Stated -> (SUBSET Spelling) \ {{}}]
    /\ door = [m \in Merge |-> RequestIdle]
    /\ queue = {}
    /\ worker = NoWorker
    /\ engine = EngineIdle
    /\ told = [m \in Merge |-> "no"]
    /\ committed = {}
    /\ lost = {}
    /\ unread = {}
    /\ faults = 0

Fault(kind) == kind \in Faults /\ faults < MaxFault /\ faults' = faults + 1

-----------------------------------------------------------------------------
(* A request: _merge_split_subject, on two connections.                    *)

Unheard == UNCHANGED <<worker, engine, told, lost, unread>>

Post(m, s) ==
    /\ door[m].pc = "idle"
    /\ door' = [door EXCEPT ![m] = [@ EXCEPT !.pc = "find", !.subject = s]]
    /\ UNCHANGED <<committed, table, queue, faults>> /\ Unheard

Written(s) == {n \in Note : table[s, n] # {}}
Variants(s) == UNION {table[s, n] : n \in Written(s)}

\* _fetch_split_subject_rows, and the group: 404 unless two spellings are left.
Find(m) ==
    LET s == door[m].subject IN
    /\ door[m].pc = "find"
    /\ door' = [door EXCEPT ![m] =
           IF Cardinality(Variants(s)) < 2
           THEN [@ EXCEPT !.pc = "refused"]
           ELSE [@ EXCEPT !.pc = "commit", !.variants = Variants(s), !.notes = Written(s)]]
    /\ UNCHANGED <<committed, table, queue, faults>> /\ Unheard

\* The delete of the rows read, without the notes held for the owner, and the
\* blanked sha, in one transaction.
Commit(m) ==
    LET touched == door[m].notes \ Held IN
    /\ door[m].pc = "commit"
    /\ door' = [door EXCEPT ![m] = [@ EXCEPT !.pc = "queue", !.notes = touched]]
    /\ table' = [e \in Stated |-> IF e[1] = door[m].subject /\ e[2] \in touched
                                  THEN table[e] \ door[m].variants ELSE table[e]]
    /\ committed' = committed \cup {m}
    /\ UNCHANGED <<queue, faults>> /\ Unheard

CommitFails(m) ==
    /\ door[m].pc = "commit" /\ Fault("sync")
    /\ door' = [door EXCEPT ![m].pc = "refused"]
    /\ UNCHANGED <<committed, table, queue>> /\ Unheard

\* _reread_in_background: one worker at a time.
Enqueue(m) ==
    /\ door[m].pc = "queue"
    /\ door' = [door EXCEPT ![m].pc = "answered"]
    /\ queue' = queue \cup {m}
    /\ worker' = IF worker.pc = "none" THEN [NoWorker EXCEPT !.pc = "take"] ELSE worker
    /\ UNCHANGED <<table, engine, told, committed, lost, unread, faults>>

-----------------------------------------------------------------------------
(* The worker.                                                             *)

WorkerOnly == UNCHANGED <<table, door, committed, lost, unread>>

\* _take_batch
Take ==
    /\ worker.pc = "take"
    /\ worker' = IF queue = {} THEN NoWorker
                 ELSE [pc |-> "sync", batch |-> queue, outcome |-> "failed"]
    /\ queue' = {}
    /\ UNCHANGED <<engine, told, faults>> /\ WorkerOnly

ToTell(outcome) == [worker EXCEPT !.pc = "tell", !.outcome = outcome]

SyncTimesOutAsDone ==
    /\ worker.pc \in {"sync", "wait"} /\ engine.on
    /\ worker' = ToTell("done")
    /\ UNCHANGED <<queue, engine, told, faults>> /\ WorkerOnly

\* The call times out, while another pass holds the lock or its own runs on; the
\* engine may stop the pass nobody waits for any more.
SyncTimesOut ==
    /\ worker.pc \in {"sync", "wait"} /\ engine.on
    /\ worker' = ToTell("failed")
    /\ \/ UNCHANGED engine
       \/ worker.pc = "wait" /\ engine' = EngineIdle
    /\ UNCHANGED <<queue, told, faults>> /\ WorkerOnly

\* The recount after the pass, and the merge's subject_merged event.
Recount ==
    /\ worker.pc = "count"
    /\ worker' = ToTell("done")
    /\ UNCHANGED <<queue, engine, told, faults>> /\ WorkerOnly

RecountFails ==
    /\ worker.pc = "count" /\ Fault("sync")
    /\ worker' = ToTell("failed")
    /\ UNCHANGED <<queue, engine, told>> /\ WorkerOnly

BatchRaisesUntold ==
    /\ worker.pc \in {"sync", "wait", "count"} /\ Fault("raise")
    /\ worker' = [NoWorker EXCEPT !.pc = "take"]
    /\ UNCHANGED <<queue, engine, told>> /\ WorkerOnly

\* _fail_batch: whatever the reread raised, its rows settle as failed.
BatchRaises ==
    /\ worker.pc \in {"sync", "wait", "count"} /\ Fault("raise")
    /\ worker' = ToTell("failed")
    /\ UNCHANGED <<queue, engine, told>> /\ WorkerOnly

\* _fail_batch raises too: the handle is given up, the queue stays.
WorkerDies ==
    /\ worker.pc \in {"sync", "wait", "count"} /\ Fault("raise")
    /\ worker' = NoWorker
    /\ lost' = lost \cup worker.batch
    /\ UNCHANGED <<table, door, queue, engine, told, committed, unread>>

TellAndLeave(m) ==
    /\ worker.pc = "tell" /\ m \in worker.batch
    /\ told' = [told EXCEPT ![m] = worker.outcome]
    /\ worker' = IF worker.batch = {m} THEN NoWorker ELSE [worker EXCEPT !.batch = @ \ {m}]
    /\ UNCHANGED <<queue, engine, faults>> /\ WorkerOnly

\* One row of the batch is settled.
Tell(m) ==
    /\ worker.pc = "tell" /\ m \in worker.batch
    /\ told' = [told EXCEPT ![m] = worker.outcome]
    /\ worker' = [worker EXCEPT !.batch = @ \ {m},
                                !.pc = IF worker.batch = {m} THEN "take" ELSE @]
    /\ UNCHANGED <<queue, engine, faults>> /\ WorkerOnly

-----------------------------------------------------------------------------
(* The engine's pass over the vault, under sync_lock.                      *)

EngineOnly == UNCHANGED <<door, queue, told, committed, lost>>

SchedulerSyncs ==
    /\ ~engine.on
    /\ engine' = EngineStart
    /\ UNCHANGED <<table, worker, unread, faults>> /\ EngineOnly

SyncJoins ==
    /\ worker.pc = "sync"
    /\ engine' = IF engine.on THEN engine ELSE EngineStart
    /\ worker' = [worker EXCEPT !.pc = "wait"]
    /\ UNCHANGED <<table, unread, faults>> /\ EngineOnly

\* handle_sync, once the lock is free: the pass starts after the call.
SyncStarts ==
    /\ worker.pc = "sync" /\ ~engine.on
    /\ engine' = EngineStart
    /\ worker' = [worker EXCEPT !.pc = "wait"]
    /\ UNCHANGED <<table, unread, faults>> /\ EngineOnly

\* ingest_file goes through the claims even when the sha is the same: a claim
\* whose row is there is left alone, another is embedded and inserted.
Probe(e) ==
    /\ engine.insert = {} /\ e \in engine.left
    /\ engine' = [engine EXCEPT !.left = @ \ {e}, !.insert = {e} \ {x \in {e} : Canon \in table[x]}]
    /\ UNCHANGED <<table, worker, unread, faults>> /\ EngineOnly

\* The file's spelling is made canonical.
Insert(e) ==
    /\ e \in engine.insert
    /\ table' = [table EXCEPT ![e] = @ \cup {Canon}]
    /\ engine' = [engine EXCEPT !.insert = {}]
    /\ unread' = unread \ {e}
    /\ UNCHANGED <<worker, faults>> /\ EngineOnly

\* The note fails: the pass counts it and goes on.
IngestFails(e) ==
    /\ e \in engine.insert /\ Fault("ingest")
    /\ engine' = [engine EXCEPT !.insert = {}]
    /\ unread' = unread \cup {e}
    /\ UNCHANGED <<table, worker>> /\ EngineOnly

PassEnds ==
    /\ engine.on /\ engine.left = {} /\ engine.insert = {}
    /\ engine' = EngineIdle
    /\ worker' = IF worker.pc = "wait" THEN [worker EXCEPT !.pc = "count"]
                 ELSE worker
    /\ UNCHANGED <<table, unread, faults>> /\ EngineOnly

PassFailsUnheard ==
    /\ engine.on /\ Fault("sync")
    /\ engine' = EngineIdle
    /\ UNCHANGED <<table, worker, unread>> /\ EngineOnly

\* The pass fails as a whole, or the engine restarts.
PassFails ==
    /\ engine.on /\ Fault("sync")
    /\ engine' = EngineIdle
    /\ worker' = IF worker.pc = "wait" THEN ToTell("failed") ELSE worker
    /\ UNCHANGED <<table, unread>> /\ EngineOnly

-----------------------------------------------------------------------------
\* The queue and the worker live in memory; callers lose their connection.

DoorRestarts ==
    /\ Fault("restart")
    /\ lost' = lost \cup {m \in committed : told[m] = "no"}
    /\ door' = [m \in Merge |-> IF door[m].pc \in {"find", "commit", "queue"}
                                THEN [door[m] EXCEPT !.pc = "cut"] ELSE door[m]]
    /\ queue' = {}
    /\ worker' = NoWorker
    /\ UNCHANGED <<table, engine, told, committed, unread>>

RequestStep(m) == Find(m) \/ Commit(m) \/ Enqueue(m)
WorkerStep == Take \/ Recount \/ \E m \in Merge : Tell(m)
EngineStep == PassEnds \/ \E e \in Stated : Probe(e) \/ Insert(e)

Next ==
    \/ \E m \in Merge : (\E s \in Subject : Post(m, s)) \/ RequestStep(m) \/ CommitFails(m)
    \/ WorkerStep \/ SyncTimesOut \/ RecountFails \/ BatchRaises \/ WorkerDies
    \/ EngineStep \/ SchedulerSyncs \/ SyncStarts \/ PassFails
    \/ \E e \in Stated : IngestFails(e)
    \/ DoorRestarts

Spec == Init /\ [][Next]_vars

\* Threads go on; tokio's Mutex is fair to the waiting call; the scheduler syncs
\* again and again.
Fairness ==
    /\ \A m \in Merge : WF_vars(RequestStep(m))
    /\ WF_vars(WorkerStep)
    /\ WF_vars(EngineStep)
    /\ SF_vars(SyncStarts)
    /\ SF_vars(SchedulerSyncs)

FairSpec == Spec /\ Fairness

-----------------------------------------------------------------------------

\* A commit deleted the row and the reread it is owed has not ended.
Owed(s, n) ==
    \E m \in Merge : /\ door[m].subject = s /\ n \in door[m].notes /\ m \in committed
                     /\ told[m] # "done"

\* A merge told as done has its notes' claims back, under the canonical
\* spelling alone, whatever passes, other merges of the subject and scheduled
\* syncs ran meanwhile; except where the note itself failed to ingest.
MergedIsReread ==
    \A m \in Merge : told[m] = "done" =>
        \A n \in door[m].notes : LET s == door[m].subject IN
            /\ table[s, n] \subseteq {Canon} \cup (Spelling \ door[m].variants)
            /\ \/ Canon \in table[s, n]
               \/ <<s, n>> \in unread
               \/ Owed(s, n)

\* A queued merge has a worker, unless one died raising.
QueuedIsServed == queue # {} => worker.pc # "none" \/ lost # {}

\* A committed merge is settled, unless the door lost it.
MergeIsTold ==
    \A m \in Merge : door[m].pc = "queue" ~> told[m] # "no" \/ lost # {}

\* Deleted claims come back, also after a restart or a failed reread.
ClaimsReturn == []<>(\A e \in Stated : table[e] # {})

\* The door keeps the promise of RereadJobs.
Job(m) ==
    CASE told[m] # "no" -> told[m]
      [] told[m] = "no" /\ m \in lost -> "lost"
      [] told[m] = "no" /\ m \notin lost /\ m \in worker.batch /\ worker.pc = "wait" -> "reading"
      [] told[m] = "no" /\ m \notin lost /\ m \in worker.batch /\ worker.pc = "count" -> "read"
      [] told[m] = "no" /\ m \notin lost /\ m \in worker.batch /\ worker.pc = "tell" ->
             IF worker.outcome = "done" THEN "read" ELSE "missed"
      [] OTHER -> IF m \in committed THEN "owed" ELSE "none"

Jobs == INSTANCE RereadJobs WITH job <- [m \in Merge |-> Job(m)]
KeepsPromise == Jobs!Spec
=============================================================================
