------------------------- MODULE SubjectMergeProofs -------------------------
(***************************************************************************)
(* The door's merge and reread for any merges, subjects, notes, spellings  *)
(* and failures: type correctness, MergedIsReread, QueuedIsServed, and the *)
(* refinement of RereadJobs.                                               *)
(*                                                                         *)
(* A merge told as done relies on a pass that began after its commit.  The *)
(* invariant follows a deleted claim through it: still to be probed, being *)
(* inserted, back, or deleted once more by a merge that is not told yet.   *)
(***************************************************************************)
EXTENDS SubjectMerge, TLAPS

\* The claims a merge deleted.
Claims(m) == {<<door[m].subject, n>> : n \in door[m].notes}
Back(e) == Canon \in table[e] \/ e \in unread
Owes(m, e) == m \in committed /\ e \in Claims(m) /\ told[m] # "done"
OwedOutside(e) == \E m \in Merge \ worker.batch : Owes(m, e)

\* Where a merge may be.
Placed ==
    /\ \A m \in queue \cup worker.batch :
          door[m].pc = "answered" /\ told[m] = "no" /\ m \notin lost
    /\ queue \cap worker.batch = {}
    /\ \A m \in Merge :
          /\ m \in committed => door[m].pc \in {"queue", "answered", "cut"}
          /\ door[m].pc \in {"queue", "answered"} => m \in committed
          /\ door[m].pc = "queue" => m \notin lost
          /\ told[m] # "no" => door[m].pc = "answered"
    /\ lost \subseteq committed
    /\ worker.pc \in {"sync", "wait", "count", "tell"} => worker.batch # {}

\* No spelling a merge deleted comes back.
Deleted ==
    \A m \in committed : \A e \in Claims(m) :
        table[e] \subseteq {Canon} \cup (Spelling \ door[m].variants)

\* The pass the worker waits for leaves none of the batch's claims out.
Covered ==
    /\ worker.pc = "wait" => \A m \in worker.batch : \A e \in Claims(m) :
          e \in engine.left \/ e \in engine.insert \/ Back(e) \/ OwedOutside(e)
    /\ worker.pc = "count" \/ (worker.pc = "tell" /\ worker.outcome = "done") =>
          \A m \in worker.batch : \A e \in Claims(m) : Back(e) \/ OwedOutside(e)
    /\ \A m \in Merge : told[m] = "done" =>
          \A e \in Claims(m) : Back(e) \/ \E x \in Merge : Owes(x, e)

IInv == TypeOK /\ Placed /\ Deleted /\ Covered /\ QueuedIsServed

-----------------------------------------------------------------------------
LEMMA Typed ==
    ASSUME TypeOK
    PROVE  /\ table \in [Stated -> SUBSET Spelling]
           /\ \A m \in Merge : /\ door[m] \in Request /\ door[m].subject \in Subject
                               /\ door[m].variants \subseteq Spelling
                               /\ door[m].notes \subseteq Note
                               /\ Claims(m) \subseteq Stated
           /\ queue \subseteq Merge /\ worker \in Worker /\ worker.batch \subseteq Merge
           /\ worker.pc \in {"none", "take", "sync", "wait", "count", "tell"}
           /\ worker.outcome \in {"done", "failed"}
           /\ engine \in Engine /\ engine.left \subseteq Stated /\ engine.insert \subseteq Stated
           /\ told \in [Merge -> {"no", "done", "failed"}]
           /\ committed \subseteq Merge /\ lost \subseteq Merge /\ unread \subseteq Stated
           /\ faults \in 0 .. MaxFault
BY DEF TypeOK, Request, Worker, Engine, Claims, Stated

LEMMA Idles ==
    /\ RequestIdle \in Request /\ RequestIdle.pc = "idle" /\ RequestIdle.notes = {}
    /\ NoWorker \in Worker /\ NoWorker.pc = "none" /\ NoWorker.batch = {}
    /\ EngineIdle \in Engine /\ ~EngineIdle.on
    /\ EngineIdle.left = {} /\ EngineIdle.insert = {}
    /\ EngineStart \in Engine /\ EngineStart.on
    /\ EngineStart.left = Stated /\ EngineStart.insert = {}
BY MergeAssumption DEF RequestIdle, Request, NoWorker, Worker, EngineIdle, EngineStart, Engine

LEMMA FaultTyped == ASSUME TypeOK, NEW kind, Fault(kind) PROVE faults' \in 0 .. MaxFault
BY MergeAssumption DEF TypeOK, Fault

LEMMA InitIInv == Init => IInv
<1> SUFFICES ASSUME Init PROVE IInv
  OBVIOUS
<1> USE DEF Init
<1>1. TypeOK
  BY Idles, MergeAssumption DEF TypeOK
<1>2. Placed /\ Deleted /\ Covered /\ QueuedIsServed
  BY Idles DEF Placed, Deleted, Covered, QueuedIsServed
<1> QED
  BY <1>1, <1>2 DEF IInv

-----------------------------------------------------------------------------
(* Requests.                                                               *)

\* A request that has not deleted anything goes on, or is refused.
LEMMA UncommittedKeeps ==
    ASSUME IInv, NEW m \in Merge, NEW q \in Request, door' = [door EXCEPT ![m] = q],
           door[m].pc \in {"idle", "find", "commit"}, q.pc \in {"find", "commit", "refused"},
           faults' \in 0 .. MaxFault, UNCHANGED <<table, queue, committed>>, Unheard
    PROVE  IInv'
<1>1. /\ UNCHANGED <<table, queue, committed, worker, engine, told, lost, unread>>
      /\ door' \in [Merge -> Request] /\ door'[m] = q
      /\ \A x \in Merge : x # m => door'[x] = door[x] /\ Claims(x)' = Claims(x)
  BY DEF Unheard, IInv, TypeOK, Claims
<1>2. /\ m \notin committed /\ told[m] = "no" /\ m \notin lost /\ m \notin queue \cup worker.batch
      /\ committed \subseteq Merge /\ worker.batch \subseteq Merge /\ queue \subseteq Merge
  BY Typed DEF IInv, Placed
<1>3. TypeOK'
  BY <1>1 DEF IInv, TypeOK, EngineIdle
<1>4. Placed'
  BY <1>1, <1>2 DEF IInv, Placed
<1>5. Deleted'
  BY <1>1, <1>2 DEF IInv, Deleted
<1>6. \A x \in Merge, e \in Stated : Owes(x, e)' <=> Owes(x, e)
  BY <1>1, <1>2 DEF Owes
<1>7. Covered'
  BY <1>1, <1>2, <1>6, Typed DEF IInv, Covered, Back, OwedOutside
<1>8. QueuedIsServed'
  BY <1>1 DEF IInv, QueuedIsServed
<1> QED
  BY <1>3, <1>4, <1>5, <1>7, <1>8 DEF IInv

LEMMA PostKeeps == ASSUME IInv, NEW m \in Merge, NEW s \in Subject, Post(m, s) PROVE IInv'
<1>1. /\ door[m] \in Request /\ faults \in 0 .. MaxFault
  BY Typed DEF IInv
<1>2. /\ [door[m] EXCEPT !.pc = "find", !.subject = s] \in Request
      /\ [door[m] EXCEPT !.pc = "find", !.subject = s].pc = "find"
  BY <1>1 DEF Request
<1> QED
  BY <1>1, <1>2, UncommittedKeeps DEF Post

LEMMA FindKeeps == ASSUME IInv, NEW m \in Merge, Find(m) PROVE IInv'
<1> DEFINE s == door[m].subject
           q == IF Cardinality(Variants(s)) < 2 THEN [door[m] EXCEPT !.pc = "refused"]
                ELSE [door[m] EXCEPT !.pc = "commit", !.variants = Variants(s), !.notes = Written(s)]
<1>1. /\ door[m] \in Request /\ s \in Subject /\ faults \in 0 .. MaxFault
      /\ table \in [Stated -> SUBSET Spelling]
  BY Typed DEF IInv
<1>2. Written(s) \subseteq Note /\ Variants(s) \subseteq Spelling
  BY <1>1 DEF Written, Variants, Stated
<1>3. q \in Request /\ q.pc \in {"commit", "refused"}
  BY <1>1, <1>2 DEF Request
<1>4. /\ door' = [door EXCEPT ![m] = q] /\ door[m].pc = "find"
      /\ UNCHANGED <<committed, table, queue, faults>> /\ Unheard
  BY DEF Find
<1> HIDE DEF q
<1> QED
  BY <1>1, <1>3, <1>4, UncommittedKeeps

LEMMA CommitFailsKeeps == ASSUME IInv, NEW m \in Merge, CommitFails(m) PROVE IInv'
<1>1. door[m] \in Request /\ faults' \in 0 .. MaxFault
  BY Typed, FaultTyped DEF IInv, CommitFails
<1>2. /\ [door[m] EXCEPT !.pc = "refused"] \in Request
      /\ [door[m] EXCEPT !.pc = "refused"].pc = "refused"
  BY <1>1 DEF Request
<1> QED
  BY <1>1, <1>2, UncommittedKeeps DEF CommitFails

LEMMA CommitKeeps == ASSUME IInv, NEW m \in Merge, Commit(m) PROVE IInv'
<1> DEFINE q == [door[m] EXCEPT !.pc = "queue", !.notes = door[m].notes \ Held]
<1>1. /\ door' = [door EXCEPT ![m] = q] /\ door[m].pc = "commit" /\ committed' = committed \cup {m}
      /\ table' = [e \in Stated |-> IF e[1] = door[m].subject /\ e[2] \in door[m].notes \ Held
                                    THEN table[e] \ door[m].variants ELSE table[e]]
      /\ UNCHANGED <<queue, faults, worker, engine, told, lost, unread>>
  BY DEF Commit, Unheard
<1>2. /\ q \in Request /\ q.pc = "queue" /\ q.notes = door[m].notes \ Held
      /\ q.subject = door[m].subject /\ q.variants = door[m].variants
  <2>1. door[m] \in Request
    BY Typed DEF IInv
  <2> QED
    BY <2>1 DEF Request
<1>3. /\ door' \in [Merge -> Request] /\ door'[m] = q
      /\ \A x \in Merge : x # m => door'[x] = door[x] /\ Claims(x)' = Claims(x)
  BY <1>1, <1>2 DEF IInv, TypeOK, Claims
<1> HIDE DEF q
<1>4. /\ m \notin committed /\ told[m] = "no" /\ m \notin lost /\ m \notin queue \cup worker.batch
      /\ committed \subseteq Merge /\ worker.batch \subseteq Merge /\ queue \subseteq Merge
  BY <1>1, Typed DEF IInv, Placed
<1>5. /\ table' \in [Stated -> SUBSET Spelling]
      /\ \A e \in Stated : /\ table'[e] \subseteq table[e]
                           /\ e \in Claims(m)' => table'[e] = table[e] \ door[m].variants
                           /\ e \notin Claims(m)' => table'[e] = table[e]
  <2>1. table \in [Stated -> SUBSET Spelling] /\ table' \in [Stated -> SUBSET Spelling]
    BY <1>1, Typed DEF IInv
  <2>2. \A e \in Stated : e \in Claims(m)' <=> e[1] = door[m].subject /\ e[2] \in door[m].notes \ Held
    BY <1>2, <1>3 DEF Claims, Stated
  <2> QED
    BY <1>1, <2>1, <2>2
<1>6. TypeOK'
  BY <1>1, <1>3, <1>4, <1>5 DEF IInv, TypeOK, EngineIdle
<1>7. Placed'
  BY <1>1, <1>2, <1>3, <1>4 DEF IInv, Placed
<1>8. \A x \in Merge : Claims(x)' \subseteq Stated /\ Claims(x) \subseteq Stated
  BY <1>3, Typed DEF IInv, Claims, Request, Stated
<1>9. Deleted'
  <2> SUFFICES ASSUME NEW x \in committed', NEW e \in Claims(x)'
               PROVE  table'[e] \subseteq {Canon} \cup (Spelling \ door'[x].variants)
    BY DEF Deleted
  <2>1. CASE x = m
    BY <1>2, <1>3, <1>5, <1>8, <2>1, Typed DEF IInv
  <2>2. CASE x # m
    BY <1>1, <1>3, <1>4, <1>5, <1>8, <2>2 DEF IInv, Deleted
  <2> QED
    BY <2>1, <2>2
<1>10. \A e \in Stated : /\ \A x \in Merge : Owes(x, e) => Owes(x, e)'
                         /\ OwedOutside(e) => OwedOutside(e)'
                         /\ Back(e) => Back(e)' \/ OwedOutside(e)'
  <2> SUFFICES ASSUME NEW e \in Stated
               PROVE  /\ \A x \in Merge : Owes(x, e) => Owes(x, e)'
                      /\ OwedOutside(e) => OwedOutside(e)'
                      /\ Back(e) => Back(e)' \/ OwedOutside(e)'
    OBVIOUS
  <2>1. \A x \in Merge : Owes(x, e) => Owes(x, e)'
    BY <1>1, <1>3, <1>4 DEF Owes
  <2>2. OwedOutside(e) => OwedOutside(e)'
    BY <1>1, <2>1 DEF OwedOutside
  <2>3. CASE e \in Claims(m)'
    BY <1>1, <1>4, <2>1, <2>2, <2>3 DEF OwedOutside, Owes
  <2>4. CASE e \notin Claims(m)'
    BY <1>1, <1>5, <2>1, <2>2, <2>4 DEF Back
  <2> QED
    BY <2>1, <2>2, <2>3, <2>4
<1>11. \A e \in Stated : OwedOutside(e) => \E x \in Merge : Owes(x, e)
  BY DEF OwedOutside
<1>12. \A e \in Stated : OwedOutside(e)' => \E x \in Merge : Owes(x, e)'
  BY DEF OwedOutside
<1>13. Covered'
  BY <1>1, <1>3, <1>4, <1>8, <1>10, <1>12 DEF IInv, Covered
<1>14. QueuedIsServed'
  BY <1>1 DEF IInv, QueuedIsServed
<1> QED
  BY <1>6, <1>7, <1>9, <1>13, <1>14 DEF IInv

LEMMA EnqueueKeeps == ASSUME IInv, NEW m \in Merge, Enqueue(m) PROVE IInv'
<1> DEFINE q == [door[m] EXCEPT !.pc = "answered"]
<1>1. /\ door' = [door EXCEPT ![m] = q] /\ door[m].pc = "queue" /\ queue' = queue \cup {m}
      /\ worker' = IF worker.pc = "none" THEN [NoWorker EXCEPT !.pc = "take"] ELSE worker
      /\ UNCHANGED <<table, engine, told, committed, lost, unread, faults>>
  BY DEF Enqueue
<1>2. /\ q \in Request /\ q.pc = "answered" /\ q.notes = door[m].notes
      /\ q.subject = door[m].subject /\ q.variants = door[m].variants
  <2>1. door[m] \in Request
    BY Typed DEF IInv
  <2> QED
    BY <2>1 DEF Request
<1>3. /\ door' \in [Merge -> Request] /\ door'[m] = q
      /\ \A x \in Merge : /\ x # m => door'[x] = door[x]
                          /\ Claims(x)' = Claims(x) /\ door'[x].variants = door[x].variants
  BY <1>1, <1>2 DEF IInv, TypeOK, Claims
<1> HIDE DEF q
<1>4. /\ worker' \in Worker /\ worker'.batch = worker.batch /\ worker'.pc # "none"
      /\ worker'.outcome = worker.outcome \/ worker'.pc = "take"
      /\ worker'.pc = worker.pc \/ (worker.pc = "none" /\ worker'.pc = "take")
  <2>1. CASE worker.pc = "none"
    BY <1>1, <2>1, Idles DEF IInv, TypeOK, Worker
  <2>2. CASE worker.pc # "none"
    BY <1>1, <2>2, Typed DEF IInv
  <2> QED
    BY <2>1, <2>2
<1>5. /\ m \in committed /\ told[m] = "no" /\ m \notin lost /\ m \notin queue \cup worker.batch
      /\ committed \subseteq Merge /\ worker.batch \subseteq Merge /\ queue \subseteq Merge
  BY <1>1, Typed DEF IInv, Placed
<1>6. TypeOK'
  BY <1>1, <1>3, <1>4, <1>5 DEF IInv, TypeOK, EngineIdle
<1>7. Placed'
  BY <1>1, <1>2, <1>3, <1>4, <1>5 DEF IInv, Placed
<1>8. Deleted'
  BY <1>1, <1>3, <1>5 DEF IInv, Deleted
<1>9. \A e : /\ Back(e)' <=> Back(e)
             /\ OwedOutside(e)' <=> OwedOutside(e)
             /\ \A x \in Merge : Owes(x, e)' <=> Owes(x, e)
  BY <1>1, <1>3, <1>4 DEF Back, Owes, OwedOutside
<1>10. Covered'
  BY <1>1, <1>3, <1>4, <1>5, <1>9 DEF IInv, Covered
<1>11. QueuedIsServed'
  BY <1>4 DEF QueuedIsServed
<1> QED
  BY <1>6, <1>7, <1>8, <1>10, <1>11 DEF IInv

-----------------------------------------------------------------------------
(* The worker.                                                             *)

\* A step of the worker, or of the engine as far as the worker hears of it: who is
\* owed a reread, and what is back in the table, stays the same.
Same == UNCHANGED <<table, door, committed, told, lost, unread, queue>>

LEMMA SameClaims ==
    ASSUME UNCHANGED <<table, door, committed, told, unread>>
    PROVE  /\ \A e : Back(e)' <=> Back(e)
           /\ \A x, e : Owes(x, e)' <=> Owes(x, e)
           /\ \A x : Claims(x)' = Claims(x)
           /\ worker'.batch = worker.batch => \A e : OwedOutside(e)' <=> OwedOutside(e)
BY DEF Back, Owes, Claims, OwedOutside

\* The worker keeps its batch and goes on to count, or to tell.
LEMMA BatchKeeps ==
    ASSUME IInv, Same, NEW w \in Worker, worker' = w, w.batch = worker.batch,
           worker.pc \in {"sync", "wait", "count"},
           w.pc \in {"count", "tell"}, w.outcome = "done" \/ w.pc = "count" => 
               \A m \in worker.batch : \A e \in Claims(m) : Back(e) \/ OwedOutside(e),
           engine' \in {engine, EngineIdle}, faults' \in 0 .. MaxFault
    PROVE  IInv'
<1>1. TypeOK'
  BY Idles DEF IInv, TypeOK, Same
<1>2. Placed' /\ Deleted' /\ QueuedIsServed'
  BY SameClaims DEF IInv, Placed, Deleted, QueuedIsServed, Same
<1>3. Covered'
  BY SameClaims DEF IInv, Covered, Same
<1> QED
  BY <1>1, <1>2, <1>3 DEF IInv

LEMMA ToTellTyped ==
    ASSUME TypeOK, NEW o \in {"done", "failed"}
    PROVE  /\ ToTell(o) \in Worker /\ ToTell(o).pc = "tell" /\ ToTell(o).outcome = o
           /\ ToTell(o).batch = worker.batch
BY Typed DEF ToTell, Worker

LEMMA FailedKeeps ==
    ASSUME IInv, Same, worker' = ToTell("failed"), worker.pc \in {"sync", "wait", "count"},
           engine' \in {engine, EngineIdle}, faults' \in 0 .. MaxFault
    PROVE  IInv'
BY ToTellTyped, BatchKeeps DEF IInv

LEMMA TakeKeeps == ASSUME IInv, Take PROVE IInv'
<1>1. /\ worker.pc = "take" /\ queue' = {} /\ worker.batch = {}
      /\ worker' = IF queue = {} THEN NoWorker
                   ELSE [pc |-> "sync", batch |-> queue, outcome |-> "failed"]
      /\ UNCHANGED <<engine, told, faults, table, door, committed, lost, unread>>
  BY DEF Take, WorkerOnly, IInv, TypeOK
<1>2. /\ worker' \in Worker /\ worker'.batch = queue /\ worker'.pc \in {"none", "sync"}
      /\ worker'.pc = "sync" => queue # {}
      /\ worker'.pc = "none" => queue = {}
  BY <1>1, Idles, Typed DEF Worker, IInv
<1>3. TypeOK'
  BY <1>1, <1>2 DEF IInv, TypeOK, EngineIdle
<1>4. Placed' /\ Deleted' /\ QueuedIsServed'
  BY <1>1, <1>2, SameClaims DEF IInv, Placed, Deleted, QueuedIsServed
<1>5. Covered'
  BY <1>1, <1>2, SameClaims DEF IInv, Covered
<1> QED
  BY <1>3, <1>4, <1>5 DEF IInv

LEMMA SyncTimesOutKeeps == ASSUME IInv, SyncTimesOut PROVE IInv'
BY FailedKeeps, Typed DEF IInv, SyncTimesOut, WorkerOnly, Same

LEMMA BatchRaisesKeeps == ASSUME IInv, BatchRaises PROVE IInv'
BY FailedKeeps, FaultTyped DEF IInv, BatchRaises, WorkerOnly, Same

LEMMA RecountFailsKeeps == ASSUME IInv, RecountFails PROVE IInv'
BY FailedKeeps, FaultTyped DEF IInv, RecountFails, WorkerOnly, Same

LEMMA RecountKeeps == ASSUME IInv, Recount PROVE IInv'
<1>1. /\ worker.pc = "count" /\ worker' = ToTell("done") /\ Same /\ UNCHANGED <<engine, faults>>
  BY DEF Recount, WorkerOnly, Same
<1>2. \A m \in worker.batch : \A e \in Claims(m) : Back(e) \/ OwedOutside(e)
  BY <1>1 DEF IInv, Covered
<1>3. engine' \in {engine, EngineIdle} /\ faults' \in 0 .. MaxFault
  BY <1>1 DEF IInv, TypeOK
<1> QED
  BY <1>1, <1>2, <1>3, ToTellTyped, BatchKeeps DEF IInv

LEMMA TellKeeps == ASSUME IInv, NEW m \in Merge, Tell(m) PROVE IInv'
<1>1. /\ worker.pc = "tell" /\ m \in worker.batch /\ told' = [told EXCEPT ![m] = worker.outcome]
      /\ worker' = [worker EXCEPT !.batch = @ \ {m},
                                  !.pc = IF worker.batch = {m} THEN "take" ELSE @]
      /\ UNCHANGED <<queue, engine, faults, table, door, committed, lost, unread>>
  BY DEF Tell, WorkerOnly
<1>2. /\ worker' \in Worker /\ worker'.batch = worker.batch \ {m}
      /\ worker'.outcome = worker.outcome /\ worker'.pc \in {"take", "tell"}
      /\ worker'.pc = "take" <=> worker'.batch = {}
  <2>1. worker \in Worker
    BY Typed DEF IInv
  <2> QED
    BY <1>1, <2>1 DEF Worker
<1>3. /\ told \in [Merge -> {"no", "done", "failed"}] /\ worker.outcome \in {"done", "failed"}
      /\ worker.batch \subseteq Merge /\ told[m] = "no" /\ m \in committed
  BY <1>1, Typed DEF IInv, Placed
<1>4. /\ told' \in [Merge -> {"no", "done", "failed"}] /\ told'[m] = worker.outcome
      /\ \A x \in Merge : x # m => told'[x] = told[x]
  BY <1>1, <1>3
<1>5. TypeOK'
  BY <1>1, <1>2, <1>4 DEF IInv, TypeOK, EngineIdle
<1>6. Placed'
  BY <1>1, <1>2, <1>3, <1>4 DEF IInv, Placed
<1>7. Deleted' /\ QueuedIsServed'
  BY <1>1, <1>2 DEF IInv, Deleted, Claims, QueuedIsServed
<1>8. /\ \A e : Back(e)' <=> Back(e)
      /\ \A x : Claims(x)' = Claims(x)
      /\ \A x \in Merge, e \in Stated : x # m => (Owes(x, e)' <=> Owes(x, e))
  BY <1>1, <1>4 DEF Back, Claims, Owes
<1>9. \A e \in Stated : /\ OwedOutside(e) => OwedOutside(e)'
                        /\ OwedOutside(e)' => \E x \in Merge : Owes(x, e)'
  BY <1>1, <1>2, <1>8 DEF OwedOutside
<1>10. worker.outcome = "done" =>
          \A x \in worker.batch : \A e \in Claims(x) : Back(e) \/ OwedOutside(e)
  BY <1>1 DEF IInv, Covered
<1>11. \A x \in Merge : told'[x] = "done" =>
          \A e \in Claims(x) : Back(e) \/ \E y \in Merge : Owes(y, e)'
  <2> SUFFICES ASSUME NEW x \in Merge, told'[x] = "done", NEW e \in Claims(x), ~Back(e)
               PROVE  \E y \in Merge : Owes(y, e)'
    OBVIOUS
  <2>1. e \in Stated
    BY Typed DEF IInv
  <2>2. CASE worker.outcome = "done"
    <3>1. CASE x \in worker.batch
      BY <1>9, <1>10, <2>1, <2>2, <3>1
    <3>2. CASE x \notin worker.batch
      <4>1. PICK y \in Merge : Owes(y, e)
        BY <1>1, <1>4, <3>2 DEF IInv, Covered
      <4>2. CASE y \in worker.batch
        <5>1. OwedOutside(e)
          BY <1>10, <2>2, <4>1, <4>2 DEF Owes
        <5> QED
          BY <1>9, <2>1, <5>1
      <4>3. CASE y \notin worker.batch
        BY <1>1, <1>8, <2>1, <4>1, <4>3
      <4> QED
        BY <4>2, <4>3
    <3> QED
      BY <3>1, <3>2
  <2>3. CASE worker.outcome = "failed"
    <3>1. x # m
      BY <1>4, <2>3
    <3>2. PICK y \in Merge : Owes(y, e)
      BY <1>4, <3>1 DEF IInv, Covered
    <3>3. Owes(m, e)' \/ y # m
      BY <1>1, <1>3, <1>4, <1>8, <2>3, <3>2 DEF Owes
    <3> QED
      BY <1>8, <2>1, <3>2, <3>3
  <2> QED
    BY <1>3, <2>2, <2>3
<1>12. Covered'
  BY <1>1, <1>2, <1>3, <1>8, <1>9, <1>10, <1>11, Typed DEF IInv, Covered
<1> QED
  BY <1>5, <1>6, <1>7, <1>12 DEF IInv

\* The worker dies, or the door restarts.
LEMMA ForgetKeeps ==
    ASSUME IInv, NEW kind, Fault(kind), worker' = NoWorker,
           \/ /\ lost' = lost \cup worker.batch /\ worker.batch # {}
              /\ UNCHANGED <<door, queue>>
           \/ /\ lost' = lost \cup {m \in committed : told[m] = "no"}
              /\ queue' = {}
              /\ door' = [m \in Merge |-> IF door[m].pc \in {"find", "commit", "queue"}
                                          THEN [door[m] EXCEPT !.pc = "cut"] ELSE door[m]],
           UNCHANGED <<table, engine, told, committed, unread>>
    PROVE  IInv'
<1>1. /\ \A m \in Merge : door[m] \in Request /\ door'[m] \in Request
      /\ \A m \in Merge : /\ door'[m].subject = door[m].subject
                          /\ door'[m].notes = door[m].notes
                          /\ door'[m].variants = door[m].variants
                          /\ door'[m].pc = door[m].pc \/ (door[m].pc # "answered" /\ door'[m].pc = "cut")
                          /\ queue' # {} => door'[m].pc = door[m].pc
                          /\ door'[m].pc = "queue" => door' = door
      /\ door' \in [Merge -> Request]
  <2>1. door \in [Merge -> Request] /\ \A m \in Merge : door[m] \in Request
    BY Typed DEF IInv, TypeOK
  <2>2. \A m \in Merge : LET q == [door[m] EXCEPT !.pc = "cut"] IN
           /\ q \in Request /\ q.pc = "cut" /\ q.subject = door[m].subject
           /\ q.notes = door[m].notes /\ q.variants = door[m].variants
    BY <2>1 DEF Request
  <2>3. CASE UNCHANGED <<door, queue>>
    BY <2>1, <2>3
  <2>4. CASE queue' = {} /\ ~UNCHANGED door /\ door' = [m \in Merge |-> IF door[m].pc \in {"find", "commit", "queue"}
                                          THEN [door[m] EXCEPT !.pc = "cut"] ELSE door[m]]
    <3>1. \A m \in Merge : door'[m] = IF door[m].pc \in {"find", "commit", "queue"}
                                          THEN [door[m] EXCEPT !.pc = "cut"] ELSE door[m]
      BY <2>4
    <3>2. door' \in [Merge -> Request]
      BY <2>1, <2>2, <2>4
    <3> QED
      BY <2>1, <2>2, <2>4, <3>1, <3>2
  <2> QED
    BY <2>1, <2>3, <2>4
<1>2. /\ worker'.pc = "none" /\ worker'.batch = {} /\ worker' \in Worker
      /\ lost' \subseteq committed /\ lost \subseteq lost' /\ committed \subseteq Merge
      /\ queue' \subseteq queue /\ (queue' # {} => lost' # {})
      /\ \A m \in queue' : m \notin lost' /\ door' = door
  BY Idles, Typed DEF IInv, Placed
<1>3. TypeOK'
  BY <1>1, <1>2, FaultTyped DEF IInv, TypeOK, EngineIdle
<1>4. \A x \in Merge : Claims(x)' = Claims(x) /\ \A e : Owes(x, e)' <=> Owes(x, e)
  <2> SUFFICES ASSUME NEW x \in Merge
               PROVE  Claims(x)' = Claims(x) /\ \A e : Owes(x, e)' <=> Owes(x, e)
    OBVIOUS
  <2>1. Claims(x)' = Claims(x)
    BY <1>1 DEF Claims
  <2> QED
    BY <2>1 DEF Owes
<1>5. Placed'
  <2>1. \A m \in queue' : door'[m].pc = "answered" /\ told'[m] = "no" /\ m \notin lost'
    BY <1>2 DEF IInv, Placed
  <2>2. \A m \in Merge :
          /\ m \in committed => door'[m].pc \in {"queue", "answered", "cut"}
          /\ door'[m].pc \in {"queue", "answered"} => m \in committed
          /\ told[m] # "no" => door'[m].pc = "answered"
    BY <1>1 DEF IInv, Placed
  <2>3. \A m \in Merge : door'[m].pc = "queue" => m \notin lost'
    <3>1. CASE lost' = lost \cup worker.batch /\ UNCHANGED door
      BY <3>1 DEF IInv, Placed
    <3>2. CASE door' = [m \in Merge |-> IF door[m].pc \in {"find", "commit", "queue"}
                                        THEN [door[m] EXCEPT !.pc = "cut"] ELSE door[m]]
      <4>1. \A m \in Merge : door[m].pc = "queue" => door'[m] = [door[m] EXCEPT !.pc = "cut"]
        BY <3>2
      <4>2. \A m \in Merge : door'[m].pc # "queue"
        BY <1>1, <4>1 DEF Request
      <4> QED
        BY <4>2
    <3> QED
      BY <3>1, <3>2
  <2> QED
    BY <1>2, <2>1, <2>2, <2>3 DEF Placed
<1>6. Deleted' /\ QueuedIsServed'
  <2>1. \A m \in committed : Claims(m)' = Claims(m) /\ door'[m].variants = door[m].variants
    BY <1>1, <1>2, <1>4
  <2> QED
    BY <1>2, <2>1 DEF IInv, Deleted, QueuedIsServed
<1>7. Covered'
  BY <1>2, <1>4 DEF IInv, Covered, Back
<1> QED
  BY <1>3, <1>5, <1>6, <1>7 DEF IInv

LEMMA WorkerDiesKeeps == ASSUME IInv, WorkerDies PROVE IInv'
BY ForgetKeeps DEF WorkerDies, IInv, Placed

LEMMA DoorRestartsKeeps == ASSUME IInv, DoorRestarts PROVE IInv'
BY ForgetKeeps DEF DoorRestarts

-----------------------------------------------------------------------------
(* The engine.                                                             *)

Aside == UNCHANGED <<door, queue, told, committed, lost>>

LEMMA SchedulerSyncsKeeps == ASSUME IInv, SchedulerSyncs PROVE IInv'
<1>1. /\ ~engine.on /\ engine' = EngineStart /\ worker.pc # "wait"
      /\ Aside /\ UNCHANGED <<table, worker, unread, faults>>
  BY DEF SchedulerSyncs, EngineOnly, Aside, IInv, TypeOK
<1>2. TypeOK'
  BY <1>1, Idles DEF IInv, TypeOK, Aside
<1>3. Placed' /\ Deleted' /\ Covered' /\ QueuedIsServed'
  BY <1>1, SameClaims DEF IInv, Placed, Deleted, Covered, QueuedIsServed, Aside
<1> QED
  BY <1>2, <1>3 DEF IInv

LEMMA SyncStartsKeeps == ASSUME IInv, SyncStarts PROVE IInv'
<1>1. /\ worker.pc = "sync" /\ engine' = EngineStart /\ worker' = [worker EXCEPT !.pc = "wait"]
      /\ Aside /\ UNCHANGED <<table, unread, faults>>
  BY DEF SyncStarts, EngineOnly, Aside
<1>2. /\ worker' \in Worker /\ worker'.pc = "wait" /\ worker'.batch = worker.batch
  BY <1>1, Typed DEF IInv, Worker
<1>3. TypeOK'
  BY <1>1, <1>2, Idles DEF IInv, TypeOK, Aside
<1>4. Placed' /\ Deleted' /\ QueuedIsServed'
  BY <1>1, <1>2, SameClaims DEF IInv, Placed, Deleted, QueuedIsServed, Aside
<1>5. \A m \in worker.batch : Claims(m) \subseteq engine'.left
  BY <1>1, Idles, Typed DEF IInv
<1>6. Covered'
  BY <1>1, <1>2, <1>5, SameClaims DEF IInv, Covered, Aside
<1> QED
  BY <1>3, <1>4, <1>6 DEF IInv

\* The pass works on one claim.
LEMMA PassKeeps ==
    ASSUME IInv, Aside, UNCHANGED worker, engine.on,
           engine' \in Engine, engine'.on, \A e, x \in engine'.insert : e = x,
           table' \in [Stated -> SUBSET Spelling],
           unread' \subseteq Stated, faults' \in 0 .. MaxFault,
           \A e \in Stated :
              /\ table'[e] \subseteq table[e] \cup {Canon}
              /\ Back(e) => Back(e)'
              /\ e \in engine.left \cup engine.insert =>
                    e \in engine'.left \cup engine'.insert \/ Back(e)'
    PROVE  IInv'
<1>1. TypeOK'
  BY DEF IInv, TypeOK, Aside
<1>2. /\ \A x, e : Owes(x, e)' <=> Owes(x, e)
      /\ \A x : Claims(x)' = Claims(x)
      /\ \A e : OwedOutside(e)' <=> OwedOutside(e)
  BY DEF Aside, Owes, Claims, OwedOutside
<1>3. \A m \in Merge : Claims(m) \subseteq Stated
  BY Typed DEF IInv
<1>4. Placed' /\ QueuedIsServed'
  BY DEF IInv, Placed, QueuedIsServed, Aside
<1>5. Deleted'
  BY <1>2, <1>3, Typed DEF IInv, Deleted, Aside
<1>6. Covered'
  BY <1>2, <1>3, Typed DEF IInv, Covered, Aside
<1> QED
  BY <1>1, <1>4, <1>5, <1>6 DEF IInv

LEMMA EngineOn == ASSUME TypeOK, engine.left # {} \/ engine.insert # {} PROVE engine.on
BY Idles DEF TypeOK

LEMMA ProbeKeeps == ASSUME IInv, NEW e \in Stated, Probe(e) PROVE IInv'
<1>1. /\ e \in engine.left /\ engine.insert = {} /\ Aside /\ engine.on
      /\ engine' = [engine EXCEPT !.left = @ \ {e},
                                  !.insert = {e} \ {x \in {e} : Canon \in table[x]}]
      /\ UNCHANGED <<table, worker, unread, faults>>
  BY EngineOn DEF Probe, EngineOnly, Aside, IInv
<1>2. /\ engine' \in Engine /\ engine'.on /\ engine'.left = engine.left \ {e}
      /\ engine'.insert = {e} \ {x \in {e} : Canon \in table[x]}
  BY <1>1, Typed DEF IInv, Engine
<1> QED
  BY <1>1, <1>2, PassKeeps, Typed DEF IInv, Back

LEMMA InsertKeeps == ASSUME IInv, NEW e \in Stated, Insert(e) PROVE IInv'
<1>1. /\ e \in engine.insert /\ Aside /\ engine.on /\ engine' = [engine EXCEPT !.insert = {}]
      /\ table' = [table EXCEPT ![e] = @ \cup {Canon}] /\ unread' = unread \ {e}
      /\ UNCHANGED <<worker, faults>>
  BY EngineOn DEF Insert, EngineOnly, Aside, IInv
<1>2. /\ engine' \in Engine /\ engine'.on /\ engine'.left = engine.left /\ engine'.insert = {}
  BY <1>1, Typed DEF IInv, Engine
<1>3. /\ table' \in [Stated -> SUBSET Spelling] /\ table'[e] = table[e] \cup {Canon}
      /\ \A x \in Stated : x # e => table'[x] = table[x]
  BY <1>1, Typed, MergeAssumption DEF IInv
<1>4. engine.insert = {e}
  BY <1>1 DEF IInv, TypeOK
<1> QED
  BY <1>1, <1>2, <1>3, <1>4, PassKeeps, Typed DEF IInv, Back

LEMMA IngestFailsKeeps == ASSUME IInv, NEW e \in Stated, IngestFails(e) PROVE IInv'
<1>1. /\ e \in engine.insert /\ Aside /\ engine.on /\ engine' = [engine EXCEPT !.insert = {}]
      /\ unread' = unread \cup {e} /\ faults' \in 0 .. MaxFault
      /\ UNCHANGED <<table, worker>>
  BY EngineOn, FaultTyped DEF IngestFails, EngineOnly, Aside, IInv
<1>2. /\ engine' \in Engine /\ engine'.on /\ engine'.left = engine.left /\ engine'.insert = {}
  BY <1>1, Typed DEF IInv, Engine
<1>3. engine.insert = {e}
  BY <1>1 DEF IInv, TypeOK
<1> QED
  BY <1>1, <1>2, <1>3, PassKeeps, Typed DEF IInv, Back

LEMMA PassEndsKeeps == ASSUME IInv, PassEnds PROVE IInv'
<1>1. /\ engine.left = {} /\ engine.insert = {} /\ engine' = EngineIdle /\ Aside
      /\ worker' = IF worker.pc = "wait" THEN [worker EXCEPT !.pc = "count"] ELSE worker
      /\ UNCHANGED <<table, unread, faults>>
  BY DEF PassEnds, EngineOnly, Aside
<1>2. faults' \in 0 .. MaxFault
  BY <1>1, Typed DEF IInv
<1>3. CASE worker.pc = "wait"
  <2>1. /\ worker' \in Worker /\ worker'.pc = "count" /\ worker'.batch = worker.batch
    BY <1>1, <1>3, Typed DEF IInv, Worker
  <2>2. \A m \in worker.batch : \A e \in Claims(m) : Back(e) \/ OwedOutside(e)
    BY <1>1, <1>3 DEF IInv, Covered
  <2>3. TypeOK'
    BY <1>1, <2>1, Idles DEF IInv, TypeOK, Aside
  <2>4. Placed' /\ Deleted' /\ QueuedIsServed'
    BY <1>1, <1>3, <2>1, SameClaims DEF IInv, Placed, Deleted, QueuedIsServed, Aside
  <2>5. Covered'
    BY <1>1, <2>1, <2>2, SameClaims DEF IInv, Covered, Aside
  <2> QED
    BY <2>3, <2>4, <2>5 DEF IInv
<1>4. CASE worker.pc # "wait"
  <2>1. TypeOK'
    BY <1>1, <1>4, Idles DEF IInv, TypeOK, Aside
  <2>2. Placed' /\ Deleted' /\ QueuedIsServed' /\ Covered'
    BY <1>1, <1>4, SameClaims DEF IInv, Placed, Deleted, QueuedIsServed, Covered, Aside
  <2> QED
    BY <2>1, <2>2 DEF IInv
<1> QED
  BY <1>3, <1>4

LEMMA PassFailsKeeps == ASSUME IInv, PassFails PROVE IInv'
<1>1. /\ engine' = EngineIdle /\ Aside /\ faults' \in 0 .. MaxFault
      /\ worker' = IF worker.pc = "wait" THEN ToTell("failed") ELSE worker
      /\ UNCHANGED <<table, unread>>
  BY FaultTyped DEF PassFails, EngineOnly, Aside, IInv
<1>2. CASE worker.pc = "wait"
  BY <1>1, <1>2, FailedKeeps DEF Aside, Same
<1>3. CASE worker.pc # "wait"
  <2>1. TypeOK'
    BY <1>1, <1>3, Idles DEF IInv, TypeOK, Aside
  <2>2. Placed' /\ Deleted' /\ QueuedIsServed' /\ Covered'
    BY <1>1, <1>3, SameClaims DEF IInv, Placed, Deleted, QueuedIsServed, Covered, Aside
  <2> QED
    BY <2>1, <2>2 DEF IInv
<1> QED
  BY <1>2, <1>3

-----------------------------------------------------------------------------
(* The specification.                                                      *)

LEMMA NextIInv == IInv /\ [Next]_vars => IInv'
<1> SUFFICES ASSUME IInv, [Next]_vars PROVE IInv'
  OBVIOUS
<1>1. CASE \E m \in Merge : (\E s \in Subject : Post(m, s)) \/ RequestStep(m) \/ CommitFails(m)
  BY <1>1, PostKeeps, FindKeeps, CommitKeeps, EnqueueKeeps, CommitFailsKeeps DEF RequestStep
<1>2. CASE WorkerStep \/ SyncTimesOut \/ RecountFails \/ BatchRaises \/ WorkerDies
  BY <1>2, TakeKeeps, RecountKeeps, TellKeeps, SyncTimesOutKeeps, RecountFailsKeeps,
     BatchRaisesKeeps, WorkerDiesKeeps DEF WorkerStep
<1>3. CASE EngineStep \/ SchedulerSyncs \/ SyncStarts \/ PassFails
  BY <1>3, PassEndsKeeps, ProbeKeeps, InsertKeeps, SchedulerSyncsKeeps, SyncStartsKeeps,
     PassFailsKeeps DEF EngineStep
<1>4. CASE (\E e \in Stated : IngestFails(e)) \/ DoorRestarts
  BY <1>4, IngestFailsKeeps, DoorRestartsKeeps
<1>5. CASE UNCHANGED vars
  <2>1. TypeOK'
    BY <1>5 DEF vars, IInv, TypeOK
  <2>2. Placed' /\ Deleted' /\ QueuedIsServed' /\ Covered'
    BY <1>5, SameClaims DEF vars, IInv, Placed, Deleted, QueuedIsServed, Covered
  <2> QED
    BY <2>1, <2>2 DEF IInv
<1> QED
  BY <1>1, <1>2, <1>3, <1>4, <1>5 DEF Next

LEMMA MergeInvariant == Spec => []IInv
BY InitIInv, NextIInv, PTL DEF Spec

\* The variables keep their types; a worker that waits has a pass to wait for.
THEOREM TypeCorrect == Spec => []TypeOK
BY MergeInvariant, PTL DEF IInv

\* No merge waits in the queue without a worker, unless one died raising.
THEOREM ServedWhileQueued == Spec => []QueuedIsServed
BY MergeInvariant, PTL DEF IInv

\* A merge told as done has its notes' claims back under the canonical spelling alone
\* (_merge_split_subject, _settle_batch).
THEOREM ToldDoneIsReread == Spec => []MergedIsReread
<1>1. IInv => MergedIsReread
  <2> SUFFICES ASSUME IInv, NEW m \in Merge, told[m] = "done", NEW n \in door[m].notes
               PROVE  LET s == door[m].subject IN
                        /\ table[s, n] \subseteq {Canon} \cup (Spelling \ door[m].variants)
                        /\ Canon \in table[s, n] \/ <<s, n>> \in unread \/ Owed(s, n)
    BY DEF MergedIsReread
  <2> DEFINE e == <<door[m].subject, n>>
  <2>1. e \in Claims(m) /\ m \in committed
    BY DEF IInv, Placed, Claims
  <2>2. Back(e) \/ \E x \in Merge : Owes(x, e)
    BY <2>1 DEF IInv, Covered
  <2>3. \A x \in Merge : Owes(x, e) => Owed(door[m].subject, n)
    BY DEF Owes, Owed, Claims
  <2> QED
    BY <2>1, <2>2, <2>3 DEF IInv, Deleted, Back
<1> QED
  BY <1>1, MergeInvariant, PTL

-----------------------------------------------------------------------------
(* The refinement of RereadJobs.                                           *)

JobOf == [m \in Merge |-> Job(m)]

\* What a merge's job is, by where the merge is.
JobIs(m) ==
    /\ told[m] # "no" => Job(m) = told[m]
    /\ m \in lost /\ told[m] = "no" => Job(m) = "lost"
    /\ m \in worker.batch =>
          /\ told[m] = "no" /\ m \notin lost /\ m \in committed
          /\ worker.pc \in {"sync", "wait", "count", "tell"}
          /\ worker.pc = "sync" => Job(m) = "owed"
          /\ worker.pc = "wait" => Job(m) = "reading"
          /\ worker.pc = "count" => Job(m) = "read"
          /\ worker.pc = "tell" => Job(m) = IF worker.outcome = "done" THEN "read" ELSE "missed"
    /\ told[m] = "no" /\ m \notin lost /\ m \notin worker.batch =>
          Job(m) = IF m \in committed THEN "owed" ELSE "none"

LEMMA JobCases == IInv => \A m \in Merge : JobIs(m)
<1> SUFFICES ASSUME IInv, NEW m \in Merge PROVE JobIs(m)
  OBVIOUS
<1>1. /\ told[m] \in {"no", "done", "failed"}
      /\ worker.pc \in {"none", "take", "sync", "wait", "count", "tell"}
      /\ worker.pc \in {"none", "take"} => worker.batch = {}
      /\ m \in worker.batch => told[m] = "no" /\ m \notin lost /\ m \in committed
  BY Typed DEF IInv, TypeOK, Placed
<1> QED
  BY <1>1 DEF Job, JobIs

LEMMA JobCasesNext == IInv' => (\A m \in Merge : JobIs(m))'
BY JobCases, PTL

\* The merges of S move together.
LEMMA Moves ==
    ASSUME NEW S \in SUBSET Merge, NEW to, \A m \in S : Job(m)' = to,
           \A m \in Merge \ S : Job(m)' = Job(m)
    PROVE  Jobs!Move(S, to)
BY DEF Jobs!Move

LEMMA Stays == ASSUME \A m \in Merge : Job(m)' = Job(m) PROVE UNCHANGED JobOf
BY DEF JobOf

LEMMA InState == \A states : Jobs!In(states) = {m \in Merge : Job(m) \in states}
BY DEF Jobs!In

JobStep == [Jobs!Next]_JobOf

LEMMA CommitJobs == ASSUME IInv, IInv', NEW m \in Merge, Commit(m) PROVE JobStep
<1>1. /\ m \notin committed /\ told[m] = "no" /\ m \notin lost /\ m \notin worker.batch
      /\ committed' = committed \cup {m} /\ UNCHANGED <<worker, told, lost>>
  BY DEF IInv, Placed, Commit, Unheard
<1>2. Job(m) = "none" /\ Job(m)' = "owed" /\ \A x \in Merge \ {m} : Job(x)' = Job(x)
  BY <1>1 DEF Job
<1>3. Jobs!Move({m}, "owed")
  BY <1>2, Moves
<1>4. Jobs!Commit(m)
  BY <1>2, <1>3 DEF Jobs!Commit
<1> QED
  BY <1>4 DEF JobStep, Jobs!Next

LEMMA UnheardJobs ==
    ASSUME IInv, IInv', UNCHANGED <<told, lost, committed>>,
           UNCHANGED worker \/ (worker.batch = {} /\ worker'.batch = {})
    PROVE  JobStep
<1>1. \A m \in Merge : Job(m)' = Job(m)
  BY JobCases, JobCasesNext DEF JobIs
<1> QED
  BY <1>1, Stays DEF JobStep

LEMMA TakeJobs == ASSUME IInv, IInv', Take PROVE JobStep
<1>1. /\ worker.batch = {} /\ UNCHANGED <<told, lost, committed>>
      /\ worker'.batch = {} \/ worker'.pc = "sync"
  BY Idles DEF IInv, TypeOK, Take, WorkerOnly
<1>2. \A m \in Merge : JobIs(m) /\ JobIs(m)'
  BY JobCases, JobCasesNext
<1>3. \A m \in Merge : Job(m)' = Job(m)
  BY <1>1, <1>2 DEF JobIs
<1> QED
  BY <1>3, Stays DEF JobStep

LEMMA RecountJobs == ASSUME IInv, IInv', Recount PROVE JobStep
<1>1. /\ worker.pc = "count" /\ worker'.pc = "tell" /\ worker'.outcome = "done"
      /\ worker'.batch = worker.batch /\ UNCHANGED <<told, lost, committed>>
  BY ToTellTyped DEF IInv, Recount, WorkerOnly
<1>2. \A m \in Merge : JobIs(m) /\ JobIs(m)'
  BY JobCases, JobCasesNext
<1>3. \A m \in Merge : Job(m)' = Job(m)
  BY <1>1, <1>2 DEF JobIs
<1> QED
  BY <1>3, Stays DEF JobStep

LEMMA FailedJobs ==
    ASSUME IInv, IInv', worker' = ToTell("failed"), worker.pc \in {"sync", "wait", "count"},
           UNCHANGED <<told, lost, committed>>
    PROVE  JobStep
<1>1. /\ worker'.pc = "tell" /\ worker'.outcome = "failed" /\ worker'.batch = worker.batch
      /\ worker.batch \subseteq Merge /\ worker.batch # {}
  BY ToTellTyped, Typed DEF IInv, Placed
<1>2. \A m \in Merge : JobIs(m) /\ JobIs(m)'
  BY JobCases, JobCasesNext
<1>3. /\ \A m \in worker.batch : Job(m)' = "missed"
      /\ \A m \in Merge \ worker.batch : Job(m)' = Job(m)
  BY <1>1, <1>2 DEF JobIs
<1>4. Jobs!Move(worker.batch, "missed")
  BY <1>1, <1>3, Moves
<1>5. PICK from \in {"owed", "reading", "read"} : \A m \in worker.batch : Job(m) = from
  BY <1>1, <1>2 DEF JobIs
<1>6. worker.batch \in SUBSET Jobs!In({from})
  BY <1>1, <1>5, InState
<1>7. Jobs!Miss
  BY <1>1, <1>4, <1>6 DEF Jobs!Miss
<1> QED
  BY <1>7 DEF JobStep, Jobs!Next

LEMMA TellJobs == ASSUME IInv, IInv', NEW m \in Merge, Tell(m) PROVE JobStep
<1>1. /\ worker.pc = "tell" /\ m \in worker.batch /\ told' = [told EXCEPT ![m] = worker.outcome]
      /\ worker'.batch = worker.batch \ {m} /\ worker'.outcome = worker.outcome
      /\ worker'.pc = "tell" \/ worker'.batch = {}
      /\ UNCHANGED <<lost, committed>> /\ worker.outcome \in {"done", "failed"}
  <2>1. worker \in Worker
    BY Typed DEF IInv
  <2> QED
    BY <2>1 DEF Tell, WorkerOnly, Worker
<1>2. /\ told'[m] = worker.outcome /\ \A x \in Merge : x # m => told'[x] = told[x]
  BY <1>1, Typed DEF IInv
<1>3. \A x \in Merge : JobIs(x) /\ JobIs(x)'
  BY JobCases, JobCasesNext
<1>4. /\ Job(m) = IF worker.outcome = "done" THEN "read" ELSE "missed"
      /\ Job(m)' = worker.outcome
      /\ \A x \in Merge \ {m} : Job(x)' = Job(x)
  BY <1>1, <1>2, <1>3 DEF JobIs
<1>5. Jobs!Move({m}, worker.outcome)
  BY <1>4, Moves
<1>6. Jobs!Tell(m)
  BY <1>1, <1>4, <1>5 DEF Jobs!Tell
<1> QED
  BY <1>6 DEF JobStep, Jobs!Next

LEMMA SyncStartsJobs == ASSUME IInv, IInv', SyncStarts PROVE JobStep
<1>1. /\ worker.pc = "sync" /\ worker'.pc = "wait" /\ worker'.batch = worker.batch
      /\ worker.batch \subseteq Merge /\ worker.batch # {} /\ UNCHANGED <<told, lost, committed>>
  BY Typed DEF IInv, Placed, SyncStarts, EngineOnly, Worker
<1>2. \A m \in Merge : JobIs(m) /\ JobIs(m)'
  BY JobCases, JobCasesNext
<1>3. /\ \A m \in worker.batch : Job(m) = "owed" /\ Job(m)' = "reading"
      /\ \A m \in Merge \ worker.batch : Job(m)' = Job(m)
      /\ \A m \in Merge : Job(m) # "reading"
  BY <1>1, <1>2, Typed DEF JobIs, IInv
<1>4. Jobs!Move(worker.batch, "reading")
  BY <1>1, <1>3, Moves
<1>5. worker.batch \in SUBSET Jobs!In({"owed"}) /\ Jobs!In({"reading"}) = {}
  BY <1>1, <1>3, InState
<1>6. Jobs!Begin
  BY <1>1, <1>4, <1>5 DEF Jobs!Begin
<1> QED
  BY <1>6 DEF JobStep, Jobs!Next

LEMMA PassEndsJobs == ASSUME IInv, IInv', PassEnds, worker.pc = "wait" PROVE JobStep
<1>1. /\ worker'.pc = "count" /\ worker'.batch = worker.batch
      /\ worker.batch \subseteq Merge /\ worker.batch # {} /\ UNCHANGED <<told, lost, committed>>
  BY Typed DEF IInv, Placed, PassEnds, EngineOnly, Worker
<1>2. \A m \in Merge : JobIs(m) /\ JobIs(m)'
  BY JobCases, JobCasesNext
<1>3. /\ \A m \in worker.batch : Job(m) = "reading" /\ Job(m)' = "read"
      /\ \A m \in Merge \ worker.batch : Job(m)' = Job(m) /\ Job(m) # "reading"
  BY <1>1, <1>2, Typed DEF JobIs, IInv
<1>4. Jobs!Move(worker.batch, "read")
  BY <1>1, <1>3, Moves
<1>5. Jobs!In({"reading"}) = worker.batch
  BY <1>1, <1>3, InState
<1>6. Jobs!End
  BY <1>1, <1>4, <1>5 DEF Jobs!End
<1> QED
  BY <1>6 DEF JobStep, Jobs!Next

LEMMA WorkerDiesJobs == ASSUME IInv, IInv', WorkerDies PROVE JobStep
<1>1. /\ worker.pc \in {"sync", "wait", "count"} /\ worker'.batch = {}
      /\ lost' = lost \cup worker.batch /\ worker.batch \subseteq Merge
      /\ UNCHANGED <<told, committed>>
  BY Idles, Typed DEF IInv, WorkerDies
<1>2. \A m \in Merge : JobIs(m) /\ JobIs(m)'
  BY JobCases, JobCasesNext
<1>3. /\ \A m \in worker.batch : Job(m) \in {"owed", "reading", "read", "missed"} /\ Job(m)' = "lost"
      /\ \A m \in Merge \ worker.batch : Job(m)' = Job(m)
  BY <1>1, <1>2 DEF JobIs
<1>4. Jobs!Move(worker.batch, "lost")
  BY <1>1, <1>3, Moves
<1>5. worker.batch \in SUBSET Jobs!In({"owed", "reading", "read", "missed"})
  BY <1>1, <1>3, InState
<1>6. Jobs!Forget
  BY <1>4, <1>5 DEF Jobs!Forget
<1> QED
  BY <1>6 DEF JobStep, Jobs!Next

LEMMA DoorRestartsJobs == ASSUME IInv, IInv', DoorRestarts PROVE JobStep
<1> DEFINE S == {m \in committed : told[m] = "no" /\ m \notin lost}
<1>1. /\ worker'.batch = {} /\ lost' = lost \cup {m \in committed : told[m] = "no"}
      /\ committed \subseteq Merge /\ UNCHANGED <<told, committed>>
  BY Idles, Typed DEF IInv, DoorRestarts
<1>2. \A m \in Merge : JobIs(m) /\ JobIs(m)'
  BY JobCases, JobCasesNext
<1>3. /\ \A m \in S : Job(m) \in {"owed", "reading", "read", "missed"} /\ Job(m)' = "lost"
      /\ \A m \in Merge \ S : Job(m)' = Job(m)
      /\ S \subseteq Merge
  BY <1>1, <1>2 DEF JobIs
<1> HIDE DEF S
<1>4. Jobs!Move(S, "lost")
  BY <1>3, Moves
<1>5. S \in SUBSET Jobs!In({"owed", "reading", "read", "missed"})
  BY <1>3, InState
<1>6. Jobs!Forget
  BY <1>4, <1>5 DEF Jobs!Forget
<1> QED
  BY <1>6 DEF JobStep, Jobs!Next

LEMMA NextJobs == IInv /\ IInv' /\ [Next]_vars => JobStep
<1> SUFFICES ASSUME IInv, IInv', [Next]_vars PROVE JobStep
  OBVIOUS
<1>1. CASE \E m \in Merge : (\E s \in Subject : Post(m, s)) \/ RequestStep(m) \/ CommitFails(m)
  <2>1. CASE \E m \in Merge : Commit(m)
    BY <2>1, CommitJobs
  <2>2. CASE \E m \in Merge : (\E s \in Subject : Post(m, s)) \/ Find(m) \/ CommitFails(m)
    BY <2>2, UnheardJobs DEF Post, Find, CommitFails, Unheard
  <2>3. CASE \E m \in Merge : Enqueue(m)
    <3>1. /\ UNCHANGED <<told, lost, committed>>
          /\ UNCHANGED worker \/ (worker.batch = {} /\ worker'.batch = {})
      BY <2>3, Idles, Typed DEF IInv, TypeOK, Enqueue, Worker
    <3> QED
      BY <3>1, UnheardJobs
  <2> QED
    BY <1>1, <2>1, <2>2, <2>3 DEF RequestStep
<1>2. CASE WorkerStep
  BY <1>2, TakeJobs, RecountJobs, TellJobs DEF WorkerStep
<1>3. CASE SyncTimesOut \/ RecountFails \/ BatchRaises
  BY <1>3, FailedJobs DEF SyncTimesOut, RecountFails, BatchRaises, WorkerOnly
<1>4. CASE WorkerDies \/ DoorRestarts
  BY <1>4, WorkerDiesJobs, DoorRestartsJobs
<1>5. CASE EngineStep \/ SchedulerSyncs \/ SyncStarts \/ PassFails \/ \E e \in Stated : IngestFails(e)
  <2>1. CASE SyncStarts
    BY <2>1, SyncStartsJobs
  <2>2. CASE PassEnds \/ PassFails
    <3>1. CASE PassEnds /\ worker.pc = "wait"
      BY <3>1, PassEndsJobs
    <3>2. CASE PassFails /\ worker.pc = "wait"
      BY <3>2, FailedJobs DEF PassFails, EngineOnly
    <3>3. CASE worker.pc # "wait"
      BY <2>2, <3>3, UnheardJobs DEF PassEnds, PassFails, EngineOnly
    <3> QED
      BY <2>2, <3>1, <3>2, <3>3
  <2>3. CASE SchedulerSyncs \/ \E e \in Stated : Probe(e) \/ Insert(e) \/ IngestFails(e)
    BY <2>3, UnheardJobs DEF SchedulerSyncs, Probe, Insert, IngestFails, EngineOnly
  <2> QED
    BY <1>5, <2>1, <2>2, <2>3 DEF EngineStep
<1>6. CASE UNCHANGED vars
  BY <1>6, UnheardJobs DEF vars
<1> QED
  BY <1>1, <1>2, <1>3, <1>4, <1>5, <1>6 DEF Next

\* The door keeps what RereadJobs promises of a merge: a reread that begins after its
\* commit, and one answer that says how it went.
THEOREM DoorKeepsPromise == Spec => KeepsPromise
<1>1. Init => Jobs!Init
  BY Idles DEF Init, Jobs!Init, Job
<1>2. IInv /\ IInv' /\ [Next]_vars => [Jobs!Next]_[m \in Merge |-> Job(m)]
  BY NextJobs DEF JobStep, JobOf
<1>3. Spec => []IInv
  BY MergeInvariant
<1> QED
  BY <1>1, <1>2, <1>3, PTL DEF Spec, KeepsPromise, Jobs!Spec

=============================================================================
