------------------------- MODULE DistillQueueProofs -------------------------
(***************************************************************************)
(* Proofs about DistillQueue, for every set of sessions and workers and    *)
(* every value of the bounds.                                              *)
(***************************************************************************)
EXTENDS DistillQueue, FiniteSetTheorems, SequenceTheorems, TLAPS

Retries(ops) == \E i \in DOMAIN ops : ops[i] = "write_retry"

\* A retry marker is only written for a count below the limit.
TriesInv ==
    \A a \in Actor : Retries(task[a].todo) => task[a].tries < MaxAttempts

TypeInv == TypeOK /\ TriesInv

LEMMA SomeSessionTyped == SomeSession \in Session
  BY ConstantsAssumption DEF SomeSession

LEMMA HomeTyped == \A a \in Actor : Home(a) \in Session
  BY SomeSessionTyped DEF Home

LEMMA NoItemTyped == NoItem \in Item
  BY ConstantsAssumption DEF NoItem, Item, OptStamp, Stamp, Time, None

\* The operation lists are made of operations, and only mark_retry writes a
\* retry marker.
LEMMA ListsTyped ==
    \A ops \in {<<>>, <<"rm_item">>, mark_done, Append(mark_done_upto, "rm_item"), enqueue} :
        ops \in Seq(Op) /\ ~Retries(ops)
<1>1. <<>> \in Seq(Op) /\ ~Retries(<<>>)
  BY DEF Retries
<1>2. <<"rm_item">> \in Seq(Op) /\ ~Retries(<<"rm_item">>)
  BY DEF Retries, Op
<1>3. mark_done \in Seq(Op) /\ ~Retries(mark_done)
  BY DEF Retries, Op, mark_done
<1>4. /\ Append(mark_done_upto, "rm_item") \in Seq(Op)
      /\ ~Retries(Append(mark_done_upto, "rm_item"))
  BY DEF Retries, Op, mark_done, mark_done_upto
<1>5. enqueue \in Seq(Op) /\ ~Retries(enqueue)
  BY DEF Retries, Op, mark_pending, enqueue
<1> QED
  BY <1>1, <1>2, <1>3, <1>4, <1>5

LEMMA RetryTyped ==
  ASSUME NEW n \in 1 .. MaxAttempts
  PROVE  \A ops \in {mark_retry(n), Append(mark_retry(n), "rm_item_if_dead")} :
             ops \in Seq(Op) /\ (Retries(ops) => n < MaxAttempts)
<1>1. CASE n = MaxAttempts
  <2>1. mark_retry(n) = <<"write_dead", "rm_ts", "rm_pending", "rm_retry">>
    BY <1>1, ConstantsAssumption DEF mark_retry
  <2>2. mark_retry(n) \in Seq(Op) /\ ~Retries(mark_retry(n))
    BY <2>1 DEF Op, Retries
  <2>3. /\ Append(mark_retry(n), "rm_item_if_dead") \in Seq(Op)
        /\ ~Retries(Append(mark_retry(n), "rm_item_if_dead"))
    BY <2>1 DEF Op, Retries
  <2> QED  BY <2>2, <2>3
<1>2. CASE n # MaxAttempts
  <2>1. mark_retry(n) = <<"write_retry", "rm_ts", "rm_pending">>
    BY <1>2, ConstantsAssumption DEF mark_retry
  <2>2. mark_retry(n) \in Seq(Op)
    BY <2>1 DEF Op
  <2>3. Append(mark_retry(n), "rm_item_if_dead") \in Seq(Op)
    BY <2>2 DEF Op
  <2> QED  BY <1>2, <2>2, <2>3, ConstantsAssumption
<1> QED  BY <1>1, <1>2

-----------------------------------------------------------------------------
(* What one process holds.                                                 *)

Sound(t) == t \in Task /\ (Retries(t.todo) => t.tries < MaxAttempts)

LEMMA CallingSound ==
  ASSUME NEW pc \in HookPc \cup WorkerPc, NEW s \in Session, NEW item \in Item,
         NEW tries \in 0 .. MaxAttempts, NEW ops \in Seq(Op),
         Retries(ops) => tries < MaxAttempts
  PROVE  Sound(Calling(pc, s, item, tries, ops))
  BY DEF Sound, Calling, Task

LEMMA HoldingSound ==
  ASSUME NEW pc \in HookPc \cup WorkerPc, NEW s \in Session, NEW item \in Item
  PROVE  Sound(Holding(pc, s, item))
<1>1. <<>> \in Seq(Op) /\ ~Retries(<<>>) /\ 0 \in 0 .. MaxAttempts
  BY ConstantsAssumption DEF Retries
<1> QED
  BY <1>1, CallingSound DEF Holding

LEMMA IdleSound == \A s \in Session : Sound(Idle(s))
<1>1. "idle" \in HookPc \cup WorkerPc
  BY DEF HookPc
<1> QED
  BY <1>1, NoItemTyped, HoldingSound DEF Idle

\* A step that replaces one process's variables by sound ones keeps the
\* conjuncts of TypeInv about processes.
LEMMA GoesTyped ==
  ASSUME TypeInv, NEW a \in Actor, NEW t, Sound(t), Goes(a, t)
  PROVE  task' \in [Actor -> Task] /\ TriesInv'
  BY DEF TypeInv, TypeOK, TriesInv, Sound, Goes

-----------------------------------------------------------------------------
(* Typing, action by action.                                               *)

LEMMA TurnTyped ==
  ASSUME TypeInv, NEW s \in Session, Turn(s)
  PROVE  TypeInv'
<1> USE ConstantsAssumption
<1>1. now' \in Stamp /\ now + 1 \in Time
  BY DEF TypeInv, TypeOK, Turn, Stamp, Time
<1>2. turns' \in [Session -> SUBSET Time] /\ byUser' \in SUBSET Time
  BY <1>1 DEF TypeInv, TypeOK, Turn
<1>3. grew' \in [Session -> BOOLEAN] /\ fresh' \in SUBSET (FreshKind \X Session)
  BY DEF TypeInv, TypeOK, Turn, FreshKind
<1> QED
  BY <1>1, <1>2, <1>3 DEF TypeInv, TypeOK, TriesInv, Turn, disk, tick, ghosts

LEMMA ExpireTyped ==
  ASSUME TypeInv, NEW s \in Session, Expire(s)
  PROVE  TypeInv'
  BY DEF TypeInv, TypeOK, TriesInv, Expire, transcripts, disk, tick, ghosts

\* The types of what a hook reads.
LEMMA HookReads ==
  ASSUME TypeInv, NEW s \in Session
  PROVE  /\ s \in Actor /\ task[s] \in Task /\ task[s].item \in Item
         /\ ts[s] \in OptStamp /\ dead[s] \in OptStamp /\ now \in OptStamp
         /\ queue[s] \in Item /\ turns[s] \in SUBSET Time
         /\ retry[s] + 1 \in 1 .. MaxAttempts
<1>1. s \in Actor
  BY DEF Actor
<1>2. task[s] \in Task
  BY <1>1 DEF TypeInv, TypeOK
<1> QED
  BY <1>1, <1>2, ConstantsAssumption DEF TypeInv, TypeOK, Task, OptStamp

LEMMA HookStartTyped ==
  ASSUME TypeInv, NEW s \in Session, HookStart(s)
  PROVE  TypeInv'
<1> DEFINE t == Holding(IF s \in Codex THEN "extract" ELSE "resume", s,
                        [text |-> turns[s], since |-> None, at |-> None])
<1>1. [text |-> turns[s], since |-> None, at |-> None] \in Item
  BY HookReads DEF Item, OptStamp
<1>2. Sound(t)
  BY <1>1, HoldingSound DEF HookPc
<1>3. task' \in [Actor -> Task] /\ TriesInv'
  BY <1>2, GoesTyped, HookReads DEF HookStart
<1> QED
  BY <1>3 DEF TypeInv, TypeOK, HookStart, HookUnchanged, transcripts, disk, tick

LEMMA HookAutomatedTyped ==
  ASSUME TypeInv, NEW s \in Session, HookAutomated(s)
  PROVE  TypeInv'
<1>1. Sound(Idle(s)) /\ Sound(Calling("marking", s, NoItem, 0, mark_done))
  <2>1. 0 \in 0 .. MaxAttempts
    BY ConstantsAssumption
  <2> QED
    BY <2>1, IdleSound, NoItemTyped, ListsTyped, CallingSound DEF HookPc
<1>2. task' \in [Actor -> Task] /\ TriesInv'
  BY <1>1, GoesTyped, HookReads DEF HookAutomated
<1>3. waved' \in [Session -> SUBSET Time] /\ grew' \in [Session -> BOOLEAN]
  BY HookReads DEF TypeInv, TypeOK, HookAutomated, Item
<1> QED
  BY <1>2, <1>3 DEF TypeInv, TypeOK, HookAutomated, HookUnchanged, disk, tick

LEMMA HookResumeTyped ==
  ASSUME TypeInv, NEW s \in Session, HookResume(s)
  PROVE  TypeInv'
<1> DEFINE since == IF dead[s] # None THEN dead[s] ELSE queued_since(s)
           item == [task[s].item EXCEPT !.since = since]
           pc == IF dead[s] = None /\ ~is_queued(s) THEN "read_done" ELSE "extract"
<1>1. item \in Item
  BY HookReads DEF Item, queued_since
<1>2. Sound(Holding(pc, s, item))
  BY <1>1, HoldingSound DEF HookPc
<1>3. task' \in [Actor -> Task] /\ TriesInv'
  BY <1>2, GoesTyped, HookReads DEF HookResume
<1> QED
  BY <1>3 DEF TypeInv, TypeOK, HookResume, HookUnchanged, transcripts, disk, tick

LEMMA HookReadDoneTyped ==
  ASSUME TypeInv, NEW s \in Session, HookReadDone(s)
  PROVE  TypeInv'
<1>1. [task[s].item EXCEPT !.since = ts[s]] \in Item
  BY HookReads DEF Item
<1>2. Sound(Holding("extract", s, [task[s].item EXCEPT !.since = ts[s]]))
  BY <1>1, HoldingSound DEF HookPc
<1>3. task' \in [Actor -> Task] /\ TriesInv'
  BY <1>2, GoesTyped, HookReads DEF HookReadDone
<1> QED
  BY <1>3 DEF TypeInv, TypeOK, HookReadDone, HookUnchanged, transcripts, disk, tick

LEMMA HookExtractTyped ==
  ASSUME TypeInv, NEW s \in Session, HookExtract(s)
  PROVE  TypeInv'
<1> DEFINE since == task[s].item.since
           tail == IF since = None THEN {} ELSE After(turns[s], since)
           useTail == tail # {} /\ (dead[s] = None \/ tail \cap byUser # {})
           text == IF useTail THEN tail ELSE task[s].item.text
           item == [text |-> text, at |-> now,
                    since |-> IF useTail THEN since ELSE None]
           attempts == read_retry_count(s) + 1
<1>1. since \in OptStamp /\ text \in SUBSET Time /\ item \in Item
  BY HookReads DEF After, Item, OptStamp
<1>2. attempts \in 1 .. MaxAttempts /\ attempts \in 0 .. MaxAttempts /\ 0 \in 0 .. MaxAttempts
  BY HookReads, ConstantsAssumption DEF read_retry_count
<1>3. /\ Sound(Holding("enqueue", s, item))
      /\ Sound(Calling("marking", s, NoItem, 0, mark_done))
      /\ Sound(Idle(s))
      /\ Sound(Calling("marking", s, NoItem, attempts, mark_retry(attempts)))
  BY <1>1, <1>2, NoItemTyped, IdleSound, HoldingSound, ListsTyped, RetryTyped, CallingSound
     DEF HookPc
<1>4. task' \in [Actor -> Task] /\ TriesInv'
  <2>1. \/ Goes(s, Holding("enqueue", s, item))
        \/ Goes(s, Calling("marking", s, NoItem, 0, mark_done))
        \/ Goes(s, Idle(s))
        \/ Goes(s, Calling("marking", s, NoItem, attempts, mark_retry(attempts)))
    BY DEF HookExtract
  <2> QED
    BY <1>3, <2>1, GoesTyped, HookReads
<1>5. waved' \in [Session -> SUBSET Time] /\ grew' \in [Session -> BOOLEAN]
  <2>1. waved' = waved \/ waved' = [waved EXCEPT ![s] = @ \cup text]
    BY DEF HookExtract
  <2>2. grew' = [grew EXCEPT ![s] = FALSE]
    BY DEF HookExtract
  <2> HIDE DEF text
  <2> QED
    BY <1>1, <2>1, <2>2 DEF TypeInv, TypeOK
<1> QED
  BY <1>4, <1>5 DEF TypeInv, TypeOK, HookExtract, HookUnchanged, disk, tick

LEMMA HookEnqueueTyped ==
  ASSUME TypeInv, NEW s \in Session, HookEnqueue(s)
  PROVE  TypeInv'
<1>1. Sound(Idle(s)) /\ Sound(Calling("marking", s, task[s].item, 0, enqueue))
  <2>1. 0 \in 0 .. MaxAttempts
    BY ConstantsAssumption
  <2> QED
    BY <2>1, HookReads, IdleSound, ListsTyped, CallingSound DEF HookPc
<1>2. task' \in [Actor -> Task] /\ TriesInv'
  BY <1>1, GoesTyped, HookReads DEF HookEnqueue
<1> QED
  BY <1>2 DEF TypeInv, TypeOK, HookEnqueue, HookUnchanged, transcripts, disk, tick

\* One file operation: what is left of a sound list is sound.
LEMMA AfterStepSound ==
  ASSUME TypeInv, NEW a \in Actor, task[a].todo # <<>>
  PROVE  Sound(AfterStep(a, Tail(task[a].todo)))
<1> DEFINE ops == task[a].todo
<1>1. task[a] \in Task /\ ops \in Seq(Op)
  BY DEF TypeInv, TypeOK, Task
<1>2. Tail(ops) \in Seq(Op) /\ (Retries(Tail(ops)) => Retries(ops))
  <2>1. \A i \in DOMAIN Tail(ops) : i + 1 \in DOMAIN ops /\ Tail(ops)[i] = ops[i + 1]
    BY <1>1
  <2> QED
    BY <1>1, <2>1 DEF Retries
<1>3. Return(task[a].pc) \in HookPc \cup WorkerPc
  BY DEF Return, HookPc, WorkerPc
<1>4. CASE Tail(ops) = <<>>
  BY <1>3, <1>4, HomeTyped, NoItemTyped, HoldingSound DEF AfterStep
<1>5. CASE Tail(ops) # <<>>
  <2>1. Retries(Tail(ops)) => task[a].tries < MaxAttempts
    BY <1>2 DEF TypeInv, TriesInv
  <2> QED
    BY <1>1, <1>2, <1>5, <2>1, CallingSound DEF AfterStep, Task
<1> QED  BY <1>4, <1>5

LEMMA FileStepTyped ==
  ASSUME TypeInv, NEW a \in Actor, FileStep(a)
  PROVE  TypeInv'
<1> DEFINE s == task[a].sid
           op == Head(task[a].todo)
<1>1. /\ task[a] \in Task /\ s \in Session /\ op \in Op
      /\ task[a].item \in Item /\ task[a].item.at \in OptStamp
      /\ op = "write_retry" => task[a].tries \in 0 .. MaxAttempts - 1
  <2>1. task[a] \in Task
    BY DEF TypeInv, TypeOK
  <2>2. task[a].todo \in Seq(Op) /\ task[a].todo # <<>>
    BY <2>1 DEF FileStep, Task
  <2>3. op \in Op /\ op = task[a].todo[1] /\ 1 \in DOMAIN task[a].todo
    BY <2>2
  <2>4. op = "write_retry" => task[a].tries < MaxAttempts
    BY <2>3 DEF TypeInv, TriesInv, Retries
  <2> QED
    BY <2>1, <2>3, <2>4, ConstantsAssumption DEF Task, Item
<1>2. now \in OptStamp /\ None \in OptStamp /\ NoItem \in Item
  BY NoItemTyped DEF TypeInv, TypeOK, OptStamp
<1>3. ts' \in [Session -> OptStamp]
  BY <1>1, <1>2 DEF TypeInv, TypeOK, FileStep
<1>4. dead' \in [Session -> OptStamp]
  BY <1>1, <1>2 DEF TypeInv, TypeOK, FileStep
<1>5. pending' \in [Session -> BOOLEAN]
  BY <1>1 DEF TypeInv, TypeOK, FileStep
<1>6. retry' \in [Session -> 0 .. MaxAttempts - 1]
  BY <1>1, ConstantsAssumption DEF TypeInv, TypeOK, FileStep
<1>7. queue' \in [Session -> Item]
  BY <1>1, <1>2 DEF TypeInv, TypeOK, FileStep
<1>8. fresh' \in SUBSET (FreshKind \X Session)
  BY <1>1 DEF TypeInv, TypeOK, FileStep, FreshKind
<1>9. buried' \in [Session -> SUBSET Time]
  BY <1>1 DEF TypeInv, TypeOK, FileStep
<1>10. task' \in [Actor -> Task] /\ TriesInv'
  BY AfterStepSound, GoesTyped DEF FileStep
<1> QED
  BY <1>3, <1>4, <1>5, <1>6, <1>7, <1>8, <1>9, <1>10
     DEF TypeInv, TypeOK, FileStep, transcripts, tick

\* The types of what a worker reads.
LEMMA WorkerReads ==
  ASSUME TypeInv, NEW w \in Worker
  PROVE  /\ w \in Actor /\ Home(w) \in Session
         /\ task[w] \in Task /\ Sound(task[w])
         /\ task[w].sid \in Session /\ task[w].item \in Item
         /\ cands[w] \in SUBSET Session /\ batch[w] \in SUBSET Entry
<1>1. w \in Actor
  BY DEF Actor
<1>2. task[w] \in Task
  BY <1>1 DEF TypeInv, TypeOK
<1> QED
  BY <1>1, <1>2, HomeTyped DEF TypeInv, TypeOK, TriesInv, Sound, Task

LEMMA UtimeRaisesTyped ==
  ASSUME TypeInv, NEW w \in Worker, UtimeRaises(w)
  PROVE  TypeInv'
<1>1. task' \in [Actor -> Task] /\ TriesInv'
  BY WorkerReads, IdleSound, GoesTyped DEF UtimeRaises
<1> QED
  BY <1>1 DEF TypeInv, TypeOK, UtimeRaises, transcripts, disk, ghosts

LEMMA WorkerTickTyped ==
  ASSUME TypeInv, NEW w \in Worker, WorkerTick(w)
  PROVE  TypeInv'
<1>1. Sound(Holding("offer", Home(w), NoItem))
  BY WorkerReads, NoItemTyped, HoldingSound DEF WorkerPc
<1>2. task' \in [Actor -> Task] /\ TriesInv'
  BY <1>1, WorkerReads, GoesTyped DEF WorkerTick
<1>3. cands' \in [Worker -> SUBSET Session]
  BY DEF TypeInv, TypeOK, WorkerTick
<1>4. Room \in 0 .. QueuePerTick
  <2>1. Cardinality(Queued) \in Nat
    BY ConstantsAssumption, FS_Subset, FS_CardinalityType DEF Queued
  <2> QED
    BY <2>1, ConstantsAssumption DEF Room
<1> QED
  BY <1>2, <1>3, <1>4
     DEF TypeInv, TypeOK, WorkerTick, WorkerUnchanged, transcripts, disk

LEMMA WorkerDrainOnlyTyped ==
  ASSUME TypeInv, NEW w \in Worker, WorkerDrainOnly(w)
  PROVE  TypeInv'
<1>1. Sound(Holding("drain", Home(w), NoItem))
  BY WorkerReads, NoItemTyped, HoldingSound DEF WorkerPc
<1>2. task' \in [Actor -> Task] /\ TriesInv'
  BY <1>1, WorkerReads, GoesTyped DEF WorkerDrainOnly
<1> QED
  BY <1>2 DEF TypeInv, TypeOK, WorkerDrainOnly, WorkerUnchanged, transcripts, disk, tick

LEMMA WorkerOfferTyped ==
  ASSUME TypeInv, NEW w \in Worker, NEW s \in Session, WorkerOffer(w, s)
  PROVE  TypeInv'
<1> DEFINE item == [text |-> turns[s], since |-> None, at |-> now]
           t == IF TooShort(s, item.text) THEN Calling("offering", s, NoItem, 0, mark_done)
                ELSE IF dead[s] # None THEN task[w]
                ELSE Calling("offering", s, item, 0, enqueue)
<1>1. item \in Item
  BY HookReads DEF Item, OptStamp
<1>2. Sound(t)
  <2>1. 0 \in 0 .. MaxAttempts
    BY ConstantsAssumption
  <2> QED
    BY <1>1, <2>1, WorkerReads, NoItemTyped, ListsTyped, CallingSound DEF WorkerPc
<1>3. task' \in [Actor -> Task] /\ TriesInv'
  <2>1. Goes(w, t)
    BY DEF WorkerOffer
  <2> QED
    BY <1>2, <2>1, WorkerReads, GoesTyped
<1>4. cands' \in [Worker -> SUBSET Session] /\ grew' \in [Session -> BOOLEAN]
  BY DEF TypeInv, TypeOK, WorkerOffer
<1>5. room' \in [Worker -> 0 .. QueuePerTick]
  <2>1. room[w] > 0 /\ (room' = room \/ room' = [room EXCEPT ![w] = @ - 1])
    BY DEF WorkerOffer
  <2> QED
    BY <2>1, ConstantsAssumption DEF TypeInv, TypeOK
<1>6. waved' \in [Session -> SUBSET Time]
  <2>1. waved' = waved \/ waved' = [waved EXCEPT ![s] = @ \cup turns[s]]
    BY DEF WorkerOffer
  <2> QED
    BY <2>1, HookReads DEF TypeInv, TypeOK
<1> QED
  BY <1>3, <1>4, <1>5, <1>6 DEF TypeInv, TypeOK, WorkerOffer, disk

LEMMA WorkerOfferedTyped ==
  ASSUME TypeInv, NEW w \in Worker, WorkerOffered(w)
  PROVE  TypeInv'
<1>1. Sound(Holding("drain", Home(w), NoItem))
  BY WorkerReads, NoItemTyped, HoldingSound DEF WorkerPc
<1>2. task' \in [Actor -> Task] /\ TriesInv'
  BY <1>1, WorkerReads, GoesTyped DEF WorkerOffered
<1> QED
  BY <1>2, ConstantsAssumption
     DEF TypeInv, TypeOK, WorkerOffered, WorkerUnchanged, transcripts, disk

LEMMA WorkerDrainTyped ==
  ASSUME TypeInv, NEW w \in Worker, WorkerDrain(w)
  PROVE  TypeInv'
<1>1. Sound(Holding("next", Home(w), NoItem))
  BY WorkerReads, NoItemTyped, HoldingSound DEF WorkerPc
<1>2. task' \in [Actor -> Task] /\ TriesInv'
  BY <1>1, WorkerReads, GoesTyped DEF WorkerDrain
<1>3. batch' \in [Worker -> SUBSET Entry]
  <2>1. PICK chosen \in SUBSET Session :
           batch' = [batch EXCEPT ![w] = {[sid |-> s, item |-> queue[s]] : s \in chosen}]
    BY DEF WorkerDrain
  <2>2. {[sid |-> s, item |-> queue[s]] : s \in chosen} \in SUBSET Entry
    BY HookReads DEF Entry
  <2> QED
    BY <2>1, <2>2 DEF TypeInv, TypeOK
<1> QED
  BY <1>2, <1>3
     DEF TypeInv, TypeOK, WorkerDrain, WorkerUnchanged, transcripts, disk

LEMMA WorkerDeferTyped ==
  ASSUME TypeInv, NEW w \in Worker, WorkerDefer(w)
  PROVE  TypeInv'
<1>1. task' \in [Actor -> Task] /\ TriesInv'
  BY WorkerReads, IdleSound, GoesTyped DEF WorkerDefer
<1> QED
  BY <1>1 DEF TypeInv, TypeOK, WorkerDefer, WorkerUnchanged, transcripts, disk, tick

LEMMA WorkerDoneTyped ==
  ASSUME TypeInv, NEW w \in Worker, WorkerDone(w)
  PROVE  TypeInv'
<1>1. task' \in [Actor -> Task] /\ TriesInv'
  BY WorkerReads, IdleSound, GoesTyped DEF WorkerDone
<1> QED
  BY <1>1 DEF TypeInv, TypeOK, WorkerDone, WorkerUnchanged, transcripts, disk, tick

LEMMA WorkerNextTyped ==
  ASSUME TypeInv, NEW w \in Worker, WorkerNext(w)
  PROVE  TypeInv'
<1>1. PICK e \in batch[w] :
        /\ batch' = [batch EXCEPT ![w] = @ \ {e}]
        /\ Goes(w, IF ts[e.sid] # None
                   THEN Calling("settling", e.sid, e.item, 0, <<"rm_item">>)
                   ELSE Holding("distill", e.sid, e.item))
  BY DEF WorkerNext
<1>2. e.sid \in Session /\ e.item \in Item /\ 0 \in 0 .. MaxAttempts
  BY WorkerReads, ConstantsAssumption DEF Entry
<1>3. /\ Sound(Calling("settling", e.sid, e.item, 0, <<"rm_item">>))
      /\ Sound(Holding("distill", e.sid, e.item))
  BY <1>2, ListsTyped, CallingSound, HoldingSound DEF WorkerPc
<1>4. task' \in [Actor -> Task] /\ TriesInv'
  BY <1>1, <1>3, WorkerReads, GoesTyped
<1>5. batch' \in [Worker -> SUBSET Entry]
  BY <1>1 DEF TypeInv, TypeOK
<1> QED
  BY <1>4, <1>5 DEF TypeInv, TypeOK, WorkerNext, WorkerUnchanged, transcripts, disk

\* What the door makes of the notes of s is a set of notes again.
LEMMA RememberedTyped ==
  ASSUME TypeInv, NEW s \in Session, NEW item \in Item
  PROVE  Remembered(s, item) \subseteq SUBSET Note
<1> DEFINE new == [since |-> item.since, text |-> item.text, live |-> TRUE]
<1>1. new \in Note /\ notes[s] \in SUBSET Note /\ SameSession(s, item) \subseteq notes[s]
  BY DEF TypeInv, TypeOK, Note, Item, SameSession
<1>2. \A n \in SameSession(s, item) : [n EXCEPT !.live = FALSE] \in Note
  BY <1>1 DEF Note
<1>3. \A after \in Remembered(s, item) :
        \/ after = notes[s] \cup {new} \/ after = notes[s]
        \/ \E n \in SameSession(s, item) :
              after = (notes[s] \ {n}) \cup {[n EXCEPT !.live = FALSE], new}
  BY DEF Remembered
<1> HIDE DEF new
<1> QED
  BY <1>1, <1>2, <1>3

LEMMA WorkerRememberTyped ==
  ASSUME TypeInv, NEW w \in Worker, WorkerRemember(w)
  PROVE  TypeInv'
<1> DEFINE ops == Append(mark_done_upto, "rm_item")
<1>1. Sound(Calling("settling", task[w].sid, task[w].item, 0, ops))
  <2>1. 0 \in 0 .. MaxAttempts
    BY ConstantsAssumption
  <2> QED
    BY <2>1, WorkerReads, ListsTyped, CallingSound DEF WorkerPc
<1>2. task' \in [Actor -> Task] /\ TriesInv'
  BY <1>1, WorkerReads, GoesTyped DEF WorkerRemember, Settle
<1>3. notes' \in [Session -> SUBSET Note]
  BY WorkerReads, RememberedTyped DEF TypeInv, TypeOK, WorkerRemember
<1> QED
  BY <1>2, <1>3 DEF TypeInv, TypeOK, WorkerRemember, WorkerUnchanged, transcripts, disk, tick

LEMMA WorkerSkipTyped ==
  ASSUME TypeInv, NEW w \in Worker, WorkerSkip(w)
  PROVE  TypeInv'
<1> DEFINE ops == Append(mark_done_upto, "rm_item")
<1>1. Sound(Calling("settling", task[w].sid, task[w].item, 0, ops))
  <2>1. 0 \in 0 .. MaxAttempts
    BY ConstantsAssumption
  <2> QED
    BY <2>1, WorkerReads, ListsTyped, CallingSound DEF WorkerPc
<1>2. task' \in [Actor -> Task] /\ TriesInv'
  BY <1>1, WorkerReads, GoesTyped DEF WorkerSkip, Settle
<1>3. skipped' \in [Session -> SUBSET Time]
  BY WorkerReads DEF TypeInv, TypeOK, WorkerSkip, Item
<1> QED
  BY <1>2, <1>3 DEF TypeInv, TypeOK, WorkerSkip, WorkerUnchanged, transcripts, disk, tick

LEMMA WorkerFailTyped ==
  ASSUME TypeInv, NEW w \in Worker, WorkerFail(w)
  PROVE  TypeInv'
<1> DEFINE s == task[w].sid
           attempts == read_retry_count(s) + 1
           ops == Append(mark_retry(attempts), "rm_item_if_dead")
<1>1. attempts \in 1 .. MaxAttempts /\ attempts \in 0 .. MaxAttempts
  BY WorkerReads, HookReads, ConstantsAssumption DEF read_retry_count
<1>2. Sound(Calling("settling", s, task[w].item, attempts, ops))
  BY <1>1, WorkerReads, RetryTyped, CallingSound DEF WorkerPc
<1>3. task' \in [Actor -> Task] /\ TriesInv'
  BY <1>2, WorkerReads, GoesTyped DEF WorkerFail, Settle
<1>4. notes' \in [Session -> SUBSET Note]
  BY WorkerReads, RememberedTyped DEF TypeInv, TypeOK, WorkerFail
<1> QED
  BY <1>3, <1>4 DEF TypeInv, TypeOK, WorkerFail, WorkerUnchanged, transcripts, disk, tick

LEMMA CrashTyped ==
  ASSUME TypeInv, NEW a \in Actor, Crash(a)
  PROVE  TypeInv'
<1>1. task' \in [Actor -> Task] /\ TriesInv'
  BY HomeTyped, IdleSound, GoesTyped DEF Crash
<1>2. /\ cands' \in [Worker -> SUBSET Session]
      /\ room' \in [Worker -> 0 .. QueuePerTick]
      /\ batch' \in [Worker -> SUBSET Entry]
  BY ConstantsAssumption DEF TypeInv, TypeOK, Crash
<1>3. crashes' \in 0 .. MaxCrash
  BY ConstantsAssumption DEF TypeInv, TypeOK, Crash
<1> QED
  BY <1>1, <1>2, <1>3 DEF TypeInv, TypeOK, Crash, transcripts, disk, ghosts

LEMMA InitTyped == Init => TypeInv
<1> SUFFICES ASSUME Init PROVE TypeInv
  OBVIOUS
<1> USE ConstantsAssumption
<1>1. task \in [Actor -> Task] /\ \A a \in Actor : Sound(task[a])
  BY HomeTyped, IdleSound DEF Init, Sound
<1>2. None \in OptStamp /\ now \in Stamp
  BY DEF Init, OptStamp, Stamp
<1> QED
  BY <1>1, <1>2, NoItemTyped DEF Init, TypeInv, TypeOK, TriesInv, Sound

LEMMA NextTyped == TypeInv /\ [Next]_vars => TypeInv'
<1> SUFFICES ASSUME TypeInv, [Next]_vars PROVE TypeInv'
  OBVIOUS
<1>1. CASE UNCHANGED vars
  BY <1>1 DEF TypeInv, TypeOK, TriesInv, vars, transcripts, disk, tick, ghosts
<1>2. ASSUME NEW s \in Session, Turn(s) \/ Expire(s) \/ HookStart(s) \/ Hook(s)
      PROVE  TypeInv'
  BY <1>2, TurnTyped, ExpireTyped, HookStartTyped, HookAutomatedTyped, HookResumeTyped,
     HookReadDoneTyped, HookExtractTyped, HookEnqueueTyped DEF Hook
<1>3. ASSUME NEW w \in Worker,
             WorkerTick(w) \/ WorkerDrainOnly(w) \/ WorkerDrain(w) \/ WorkerDefer(w)
      PROVE  TypeInv'
  BY <1>3, WorkerTickTyped, WorkerDrainOnlyTyped, WorkerDrainTyped, WorkerDeferTyped
<1>4. ASSUME NEW w \in Worker, Work(w)
      PROVE  TypeInv'
  BY <1>4, WorkerOfferTyped, WorkerOfferedTyped, WorkerNextTyped, WorkerDoneTyped,
     WorkerRememberTyped, WorkerSkipTyped, WorkerFailTyped, UtimeRaisesTyped
     DEF Work, Distill
<1>5. ASSUME NEW a \in Actor, FileStep(a) \/ Crash(a)
      PROVE  TypeInv'
  BY <1>5, FileStepTyped, CrashTyped
<1> QED
  BY <1>1, <1>2, <1>3, <1>4, <1>5 DEF Next

\* Every process holds well-typed variables, the attempt counter never passes
\* the limit, and a retry file is only written below it (markers.mark_retry).
THEOREM TypeCorrect == Spec => []TypeOK
<1>1. TypeInv => TypeOK
  BY DEF TypeInv
<1> QED
  BY InitTyped, NextTyped, <1>1, PTL DEF Spec

-----------------------------------------------------------------------------
(* A waiting item stays reachable.  Hooks and workers interleave freely,   *)
(* so the argument is about what each process still has to do: the order   *)
(* of the file operations in every call promises that whoever makes an     *)
(* item unreachable, or an unreachable item, still has the step to come    *)
(* that takes the marker or the item away.                                 *)

Marking == {"marking", "offering", "settling"}
Reading == {"resume", "read_done", "extract", "enqueue"}

\* Every x in ops is followed by a y.
Follows(ops, x, y) ==
    \A i \in DOMAIN ops : ops[i] = x => \E j \in DOMAIN ops : j > i /\ ops[j] = y

\* The order of the operations of a call; on purpose says that the session was
\* waved through, and a marker may hide its item for good.
Ordered(ops, onPurpose) ==
    /\ onPurpose \/ Follows(ops, "write_ts", "rm_item")
    /\ onPurpose \/ Follows(ops, "write_dead", "rm_item_if_dead")
    /\ Follows(ops, "put_item", "rm_ts")
    /\ Follows(ops, "put_item", "rm_dead")
    /\ \A i \in DOMAIN ops : ops[i] = "utime_ts" =>
          \A j \in DOMAIN ops : j > i => ops[j] \notin {"rm_dead", "rm_item_if_dead"}

\* What process a holds when t are its variables.
Wellformed(a, t, left) ==
    /\ t.todo # <<>> => t.pc \in Marking
    /\ a \in Session => t.sid = a /\ (t.pc \in Reading => t.item.text # {})
    /\ Ordered(t.todo, left[t.sid] # {})

ProcInv == \A a \in Actor : Wellformed(a, task[a], waved)

CandsInv == \A w \in Worker : \A s \in cands[w] : turns[s] # {}

\* Some process in a call for s still has the operation x or y to make.
WillDo(s, x, y) ==
    \E a \in Actor : task[a].sid = s /\ \E i \in DOMAIN task[a].todo : task[a].todo[i] \in {x, y}

CoverInv ==
    crashes = 0 =>
        \A s \in Session : is_queued(s) /\ waved[s] = {} =>
            /\ ts[s] # None => WillDo(s, "rm_ts", "rm_item")
            /\ dead[s] # None => WillDo(s, "rm_dead", "rm_item_if_dead")

IInv == TypeInv /\ ProcInv /\ CandsInv /\ CoverInv

LEMMA ListsOrdered ==
    /\ \A b \in BOOLEAN : Ordered(<<>>, b) /\ Ordered(<<"rm_item">>, b)
    /\ \A b \in BOOLEAN : Ordered(enqueue, b) /\ Ordered(Append(mark_done_upto, "rm_item"), b)
    /\ Ordered(mark_done, TRUE)
<1>1. \A b \in BOOLEAN : Ordered(<<>>, b) /\ Ordered(<<"rm_item">>, b)
  BY DEF Ordered, Follows
<1>2. \A b \in BOOLEAN : Ordered(enqueue, b)
  <2>1. /\ DOMAIN enqueue = 1 .. 4 /\ enqueue[1] = "put_item" /\ enqueue[2] = "write_pending"
        /\ enqueue[3] = "rm_ts" /\ enqueue[4] = "rm_dead"
    BY DEF enqueue, mark_pending
  <2>3. Follows(enqueue, "put_item", "rm_ts") /\ Follows(enqueue, "put_item", "rm_dead")
    BY <2>1 DEF Follows
  <2> QED
    BY <2>1, <2>3 DEF Ordered, Follows
<1>3. \A b \in BOOLEAN : Ordered(Append(mark_done_upto, "rm_item"), b)
  <2> DEFINE ops == Append(mark_done_upto, "rm_item")
  <2>1. /\ DOMAIN ops = 1 .. 6 /\ ops[1] = "write_ts" /\ ops[2] = "rm_pending"
        /\ ops[3] = "rm_retry" /\ ops[4] = "rm_dead" /\ ops[5] = "utime_ts"
        /\ ops[6] = "rm_item"
    BY DEF mark_done_upto, mark_done
  <2> HIDE DEF ops
  <2>2. Follows(ops, "write_ts", "rm_item")
    BY <2>1 DEF Follows
  <2>3. Ordered(ops, FALSE) /\ Ordered(ops, TRUE)
    BY <2>1, <2>2 DEF Ordered, Follows
  <2> QED
    BY <2>3 DEF ops
<1>4. Ordered(mark_done, TRUE)
  BY DEF mark_done, Ordered, Follows
<1> QED
  BY <1>1, <1>2, <1>3, <1>4

LEMMA RetryOrdered ==
  ASSUME NEW n \in 1 .. MaxAttempts
  PROVE  /\ Ordered(mark_retry(n), TRUE)
         /\ \A b \in BOOLEAN : Ordered(Append(mark_retry(n), "rm_item_if_dead"), b)
<1>1. CASE n = MaxAttempts
  <2>1. mark_retry(n) = <<"write_dead", "rm_ts", "rm_pending", "rm_retry">>
    BY <1>1, ConstantsAssumption DEF mark_retry
  <2> DEFINE ops == Append(mark_retry(n), "rm_item_if_dead")
  <2>2. /\ DOMAIN ops = 1 .. 5 /\ ops[1] = "write_dead" /\ ops[2] = "rm_ts"
        /\ ops[3] = "rm_pending" /\ ops[4] = "rm_retry" /\ ops[5] = "rm_item_if_dead"
    BY <2>1
  <2>3. Ordered(mark_retry(n), TRUE)
    BY <2>1 DEF Ordered, Follows
  <2> HIDE DEF ops
  <2>4. Follows(ops, "write_dead", "rm_item_if_dead")
    BY <2>2 DEF Follows
  <2>5. Ordered(ops, FALSE) /\ Ordered(ops, TRUE)
    BY <2>2, <2>4 DEF Ordered, Follows
  <2> QED
    BY <2>3, <2>5 DEF ops
<1>2. CASE n # MaxAttempts
  <2>1. mark_retry(n) = <<"write_retry", "rm_ts", "rm_pending">>
    BY <1>2, ConstantsAssumption DEF mark_retry
  <2> DEFINE ops == Append(mark_retry(n), "rm_item_if_dead")
  <2>2. /\ DOMAIN ops = 1 .. 4 /\ ops[1] = "write_retry" /\ ops[2] = "rm_ts"
        /\ ops[3] = "rm_pending" /\ ops[4] = "rm_item_if_dead"
    BY <2>1
  <2>3. Ordered(mark_retry(n), TRUE)
    BY <2>1 DEF Ordered, Follows
  <2> HIDE DEF ops
  <2>4. Ordered(ops, FALSE) /\ Ordered(ops, TRUE)
    BY <2>2 DEF Ordered, Follows
  <2> QED
    BY <2>3, <2>4 DEF ops
<1> QED  BY <1>1, <1>2

\* The order of a call survives its first operation.
LEMMA TailOrdered ==
  ASSUME NEW ops \in Seq(Op), ops # <<>>, NEW b \in BOOLEAN, Ordered(ops, b)
  PROVE  Ordered(Tail(ops), b)
<1>1. \A i \in DOMAIN Tail(ops) : i + 1 \in DOMAIN ops /\ Tail(ops)[i] = ops[i + 1]
  OBVIOUS
<1>2. \A i, j \in DOMAIN ops : j > i /\ i > 1 =>
         /\ i - 1 \in DOMAIN Tail(ops) /\ j - 1 \in DOMAIN Tail(ops)
         /\ j - 1 > i - 1 /\ Tail(ops)[j - 1] = ops[j]
  OBVIOUS
<1>3. ASSUME NEW x, NEW y, Follows(ops, x, y) PROVE Follows(Tail(ops), x, y)
  <2> SUFFICES ASSUME NEW i \in DOMAIN Tail(ops), Tail(ops)[i] = x
               PROVE  \E j \in DOMAIN Tail(ops) : j > i /\ Tail(ops)[j] = y
    BY DEF Follows
  <2>1. i \in Nat /\ i >= 1 /\ i + 1 \in DOMAIN ops /\ ops[i + 1] = x
    BY <1>1
  <2>2. PICK j \in DOMAIN ops : j > i + 1 /\ ops[j] = y
    BY <1>3, <2>1 DEF Follows
  <2>3. j - 1 \in DOMAIN Tail(ops) /\ j - 1 > i /\ Tail(ops)[j - 1] = y
    BY <1>2, <2>1, <2>2
  <2> QED
    BY <2>3
<1>4. ASSUME NEW i \in DOMAIN Tail(ops), Tail(ops)[i] = "utime_ts",
             NEW j \in DOMAIN Tail(ops), j > i
      PROVE  Tail(ops)[j] \notin {"rm_dead", "rm_item_if_dead"}
  BY <1>1, <1>4 DEF Ordered
<1> QED
  BY <1>3, <1>4 DEF Ordered

\* Holding something, with no operation to come, is always well-formed for a
\* worker, and for a hook that keeps its session and its text.
LEMMA HoldingWell ==
  ASSUME NEW a \in Actor, NEW pc, NEW s \in Session, NEW item, NEW left,
         a \in Session => s = a /\ (pc \in Reading => item.text # {})
  PROVE  Wellformed(a, Holding(pc, s, item), left)
  BY ListsOrdered DEF Wellformed, Holding, Calling

LEMMA CallingWell ==
  ASSUME NEW a \in Actor, NEW pc \in Marking, NEW s \in Session, NEW item, NEW tries,
         NEW ops, NEW left, a \in Session => s = a, Ordered(ops, left[s] # {})
  PROVE  Wellformed(a, Calling(pc, s, item, tries, ops), left)
<1>1. pc \notin Reading
  BY DEF Marking, Reading
<1> QED
  BY <1>1 DEF Wellformed, Calling

LEMMA HomeWell ==
  ASSUME NEW a \in Actor, NEW pc, pc \notin Reading, NEW left
  PROVE  Wellformed(a, Holding(pc, Home(a), NoItem), left)
<1>1. a \in Session => Home(a) = a
  BY DEF Home
<1> QED
  BY <1>1, HomeTyped, HoldingWell

LEMMA ProcKept ==
  ASSUME TypeInv, ProcInv, NEW a \in Actor, NEW t, Goes(a, t), Wellformed(a, t, waved'),
         \A s \in Session : waved[s] # {} => waved'[s] # {}
  PROVE  ProcInv'
<1> SUFFICES ASSUME NEW b \in Actor PROVE Wellformed(b, task'[b], waved')
  BY DEF ProcInv
<1>1. task' = [task EXCEPT ![a] = t] /\ task \in [Actor -> Task]
  BY DEF TypeInv, TypeOK, Goes
<1>2. CASE b = a
  BY <1>1, <1>2
<1>3. CASE b # a
  <2>1. task'[b] = task[b] /\ task[b].sid \in Session
    BY <1>1, <1>3 DEF Task
  <2>2. Wellformed(b, task[b], waved)
    BY DEF ProcInv
  <2>3. Ordered(task[b].todo, waved'[task[b].sid] # {})
    BY <2>1, <2>2 DEF Wellformed, Ordered
  <2> QED
    BY <2>1, <2>2, <2>3 DEF Wellformed
<1> QED
  BY <1>2, <1>3

\* What the others still have to do does not depend on process a.
LEMMA WillDoKept ==
  ASSUME TypeInv, NEW a \in Actor, NEW t, Goes(a, t), NEW s \in Session, NEW x, NEW y,
         WillDo(s, x, y),
         task[a].sid = s =>
            \A i \in DOMAIN task[a].todo : task[a].todo[i] \notin {x, y}
  PROVE  WillDo(s, x, y)'
<1>1. PICK b \in Actor :
         task[b].sid = s /\ \E i \in DOMAIN task[b].todo : task[b].todo[i] \in {x, y}
  BY DEF WillDo
<1>2. b # a
  BY <1>1
<1>3. task'[b] = task[b]
  BY <1>2 DEF TypeInv, TypeOK, Goes
<1> QED
  BY <1>1, <1>3 DEF WillDo

\* A step of a process that is in no call, and leaves the directory alone.
LEMMA StepKept ==
  ASSUME IInv, TypeInv', CandsInv', NEW a \in Actor, NEW t, Goes(a, t),
         task[a].todo = <<>>, Wellformed(a, t, waved'),
         UNCHANGED <<ts, dead, queue, crashes>>,
         \A s \in Session : waved[s] # {} => waved'[s] # {}
  PROVE  IInv'
<1>1. ProcInv'
  BY ProcKept DEF IInv
<1>2. CoverInv'
  <2> SUFFICES ASSUME crashes = 0, NEW s \in Session, is_queued(s), waved[s] = {}
               PROVE  /\ ts[s] # None => WillDo(s, "rm_ts", "rm_item")'
                      /\ dead[s] # None => WillDo(s, "rm_dead", "rm_item_if_dead")'
    BY DEF CoverInv, is_queued
  <2> QED
    BY WillDoKept DEF IInv, CoverInv
<1> QED
  BY <1>1, <1>2 DEF IInv

\* What is still to come after the first operation was to come before it.
LEMMA WillDoAfterStep ==
  ASSUME IInv, NEW a \in Actor, FileStep(a), NEW s \in Session, NEW x, NEW y,
         WillDo(s, x, y), task[a].sid = s => Head(task[a].todo) \notin {x, y}
  PROVE  WillDo(s, x, y)'
<1> DEFINE ops == task[a].todo
<1>1. PICK b \in Actor :
         task[b].sid = s /\ \E i \in DOMAIN task[b].todo : task[b].todo[i] \in {x, y}
  BY DEF WillDo
<1>2. task' = [task EXCEPT ![a] = AfterStep(a, Tail(ops))] /\ task \in [Actor -> Task]
  BY DEF IInv, TypeInv, TypeOK, FileStep, Goes
<1>3. CASE b # a
  BY <1>1, <1>2, <1>3 DEF WillDo
<1>4. CASE b = a
  <2>1. ops \in Seq(Op) /\ ops # <<>>
    BY <1>2 DEF Task, FileStep
  <2>2. PICK i \in DOMAIN ops : ops[i] \in {x, y}
    BY <1>1, <1>4
  <2>3. i # 1
    BY <1>1, <1>4, <2>1, <2>2
  <2>4. i - 1 \in DOMAIN Tail(ops) /\ Tail(ops)[i - 1] = ops[i]
    BY <2>1, <2>2, <2>3
  <2>5. Tail(ops) # <<>>
    BY <2>1, <2>4
  <2>6. task'[a].sid = s /\ task'[a].todo = Tail(ops)
    BY <1>1, <1>2, <1>4, <2>5 DEF AfterStep, Calling
  <2> QED
    BY <2>2, <2>4, <2>6 DEF WillDo
<1> QED
  BY <1>3, <1>4

\* An operation that its call promises to follow is still to come.
LEMMA WillDoByOrder ==
  ASSUME IInv, NEW a \in Actor, FileStep(a), NEW s \in Session, s = task[a].sid, NEW x, NEW y,
         NEW z \in {x, y}, Follows(task[a].todo, Head(task[a].todo), z)
  PROVE  WillDo(s, x, y)'
<1> DEFINE ops == task[a].todo
<1>1. task' = [task EXCEPT ![a] = AfterStep(a, Tail(ops))] /\ task \in [Actor -> Task]
  BY DEF IInv, TypeInv, TypeOK, FileStep, Goes
<1>2. ops \in Seq(Op) /\ ops # <<>>
  BY <1>1 DEF Task, FileStep
<1>3. PICK j \in DOMAIN ops : j > 1 /\ ops[j] = z
  <2>1. 1 \in DOMAIN ops /\ ops[1] = Head(ops)
    BY <1>2
  <2> QED
    BY <2>1 DEF Follows
<1>4. j - 1 \in DOMAIN Tail(ops) /\ Tail(ops)[j - 1] = z
  <2>1. j # 1 /\ j \in 1 .. Len(ops)
    BY <1>2, <1>3
  <2> QED
    BY <1>2, <1>3, <2>1
<1>5. Tail(ops) # <<>>
  BY <1>2, <1>4
<1>6. task'[a].sid = s /\ task'[a].todo = Tail(ops)
  BY <1>1, <1>5 DEF AfterStep, Calling
<1> QED
  BY <1>4, <1>6 DEF WillDo

LEMMA FileStepProc ==
  ASSUME IInv, NEW a \in Actor, FileStep(a)
  PROVE  ProcInv'
<1> DEFINE ops == task[a].todo
           t == AfterStep(a, Tail(ops))
<1>1. task[a] \in Task /\ ops \in Seq(Op) /\ ops # <<>> /\ waved' = waved
  BY DEF IInv, TypeInv, TypeOK, Task, FileStep
<1>2. Wellformed(a, task[a], waved)
  BY DEF IInv, ProcInv
<1>3. Wellformed(a, t, waved')
  <2>1. CASE Tail(ops) = <<>>
    <3>1. Return(task[a].pc) \notin Reading
      BY DEF Return, Reading
    <3> QED
      BY <2>1, <3>1, HomeWell DEF AfterStep
  <2>2. CASE Tail(ops) # <<>>
    <3>1. t = Calling(task[a].pc, task[a].sid, task[a].item, task[a].tries, Tail(ops))
      BY <2>2 DEF AfterStep
    <3>2. /\ task[a].pc \in Marking /\ task[a].sid \in Session
          /\ a \in Session => task[a].sid = a
      BY <1>1, <1>2 DEF Wellformed, Task
    <3>3. Ordered(Tail(ops), waved'[task[a].sid] # {})
      BY <1>1, <1>2, TailOrdered DEF Wellformed
    <3> QED
      BY <3>1, <3>2, <3>3, CallingWell
  <2> QED
    BY <2>1, <2>2
<1> QED
  BY <1>1, <1>3, ProcKept DEF IInv, FileStep

LEMMA FileStepCover ==
  ASSUME IInv, NEW a \in Actor, FileStep(a)
  PROVE  CoverInv'
<1> DEFINE r == task[a].sid
           op == Head(task[a].todo)
<1> SUFFICES ASSUME crashes = 0, NEW s \in Session, is_queued(s)', waved[s] = {}
             PROVE  /\ ts'[s] # None => WillDo(s, "rm_ts", "rm_item")'
                    /\ dead'[s] # None => WillDo(s, "rm_dead", "rm_item_if_dead")'
  BY DEF CoverInv, is_queued, FileStep
<1>0. /\ r \in Session /\ Ordered(task[a].todo, waved[r] # {})
      /\ ts \in [Session -> OptStamp] /\ dead \in [Session -> OptStamp]
      /\ queue \in [Session -> Item]
  BY DEF IInv, TypeInv, TypeOK, Task, ProcInv, Wellformed
<1>1. CASE s # r
  <2>1. ts'[s] = ts[s] /\ dead'[s] = dead[s] /\ queue'[s] = queue[s]
    BY <1>0, <1>1 DEF FileStep
  <2>2. /\ ts[s] # None => WillDo(s, "rm_ts", "rm_item")
        /\ dead[s] # None => WillDo(s, "rm_dead", "rm_item_if_dead")
    BY <2>1 DEF IInv, CoverInv, is_queued
  <2> QED
    BY <1>1, <2>1, <2>2, WillDoAfterStep
<1>2. CASE s = r
  <2>1. ASSUME ts'[s] # None PROVE WillDo(s, "rm_ts", "rm_item")'
    <3>1. CASE op \in {"put_item", "write_ts"}
      <4>1. Follows(task[a].todo, op, "rm_ts") \/ Follows(task[a].todo, op, "rm_item")
        BY <1>0, <1>2, <3>1 DEF Ordered
      <4> QED
        BY <1>2, <4>1, WillDoByOrder
    <3>2. CASE op \notin {"put_item", "write_ts"}
      <4>1. op # "rm_ts" /\ op # "rm_item"
        BY <1>0, <1>2, <2>1 DEF FileStep, is_queued
      <4>2. ts[s] # None
        BY <1>0, <1>2, <2>1, <3>2 DEF FileStep, UtimeFails
      <4>3. is_queued(s)
        BY <1>0, <1>2, <3>2 DEF FileStep, is_queued
      <4>4. WillDo(s, "rm_ts", "rm_item")
        BY <4>2, <4>3 DEF IInv, CoverInv
      <4> QED
        BY <4>1, <4>4, WillDoAfterStep
    <3> QED
      BY <3>1, <3>2
  <2>2. ASSUME dead'[s] # None PROVE WillDo(s, "rm_dead", "rm_item_if_dead")'
    <3>1. CASE op \in {"put_item", "write_dead"}
      <4>1. \/ Follows(task[a].todo, op, "rm_dead")
            \/ Follows(task[a].todo, op, "rm_item_if_dead")
        BY <1>0, <1>2, <3>1 DEF Ordered
      <4> QED
        BY <1>2, <4>1, WillDoByOrder
    <3>2. CASE op \notin {"put_item", "write_dead"}
      <4>1. dead[s] # None /\ op # "rm_dead"
        BY <1>0, <1>2, <2>2, <3>2 DEF FileStep
      <4>2. op # "rm_item_if_dead"
        BY <1>0, <1>2, <4>1 DEF FileStep, is_queued
      <4>3. is_queued(s)
        BY <1>0, <1>2, <3>2 DEF FileStep, is_queued
      <4>4. WillDo(s, "rm_dead", "rm_item_if_dead")
        BY <4>1, <4>3 DEF IInv, CoverInv
      <4> QED
        BY <4>1, <4>2, <4>4, WillDoAfterStep
    <3> QED
      BY <3>1, <3>2
  <2> QED
    BY <2>1, <2>2
<1> QED
  BY <1>1, <1>2

LEMMA FileStepKept ==
  ASSUME IInv, NEW a \in Actor, FileStep(a)
  PROVE  IInv'
<1>1. CandsInv'
  BY DEF IInv, CandsInv, FileStep, transcripts, tick
<1> QED
  BY <1>1, FileStepTyped, FileStepProc, FileStepCover DEF IInv

\* A killed process forgets what it had to do: from then on the promise is off.
LEMMA CrashKept ==
  ASSUME IInv, NEW a \in Actor, Crash(a)
  PROVE  IInv'
<1>1. TypeInv'
  BY CrashTyped DEF IInv
<1>2. ProcInv'
  <2>1. "idle" \notin Reading
    BY DEF Reading
  <2> QED
    BY <2>1, HomeWell, ProcKept DEF IInv, Crash, Idle, ghosts
<1>3. CandsInv'
  BY DEF IInv, CandsInv, Crash, transcripts
<1>4. CoverInv'
  <2>1. crashes' # 0
    BY DEF IInv, TypeInv, TypeOK, Crash
  <2> QED
    BY <2>1 DEF CoverInv
<1> QED
  BY <1>1, <1>2, <1>3, <1>4 DEF IInv

\* os.utime raises only when the done marker is gone, and then the item needs
\* nothing of the call that is abandoned: it comes after the dead marker's removal.
LEMMA UtimeRaisesKept ==
  ASSUME IInv, NEW w \in Worker, UtimeRaises(w)
  PROVE  IInv'
<1> DEFINE ops == task[w].todo
<1>1. TypeInv'
  BY UtimeRaisesTyped DEF IInv
<1>2. w \in Actor /\ task[w] \in Task
  BY WorkerReads DEF IInv
<1>3. ProcInv'
  <2>1. "idle" \notin Reading
    BY DEF Reading
  <2> QED
    BY <1>2, <2>1, HomeWell, ProcKept DEF IInv, UtimeRaises, Idle, ghosts
<1>4. CandsInv'
  BY DEF IInv, CandsInv, UtimeRaises, transcripts
<1>5. CoverInv'
  <2> SUFFICES ASSUME crashes = 0, NEW s \in Session, is_queued(s), waved[s] = {}
               PROVE  /\ ts[s] # None => WillDo(s, "rm_ts", "rm_item")'
                      /\ dead[s] # None => WillDo(s, "rm_dead", "rm_item_if_dead")'
    BY DEF CoverInv, is_queued, UtimeRaises, disk, ghosts
  <2>1. /\ ts[s] # None => WillDo(s, "rm_ts", "rm_item")
        /\ dead[s] # None => WillDo(s, "rm_dead", "rm_item_if_dead")
    BY DEF IInv, CoverInv
  <2>2. task[w].sid = s => ts[s] = None
    BY DEF UtimeRaises, UtimeFails
  <2>3. \A i \in DOMAIN ops : ops[i] \notin {"rm_dead", "rm_item_if_dead"}
    <3>1. ops \in Seq(Op) /\ ops # <<>> /\ ops[1] = "utime_ts"
      BY <1>2 DEF Task, UtimeRaises, UtimeFails
    <3>2. \A i \in DOMAIN ops : i = 1 \/ i > 1
      BY <3>1
    <3>3. Ordered(ops, waved[task[w].sid] # {})
      BY <1>2 DEF IInv, ProcInv, Wellformed
    <3>4. 1 \in DOMAIN ops
      BY <3>1
    <3> QED
      BY <3>1, <3>2, <3>3, <3>4 DEF Ordered
  <2> QED
    BY <1>2, <2>1, <2>2, <2>3, WillDoKept DEF IInv, UtimeRaises
<1> QED
  BY <1>1, <1>3, <1>4, <1>5 DEF IInv

LEMMA TurnKept ==
  ASSUME IInv, NEW s \in Session, Turn(s)
  PROVE  IInv'
<1>1. TypeInv'
  BY TurnTyped DEF IInv
<1>2. CandsInv'
  BY DEF IInv, TypeInv, TypeOK, CandsInv, Turn, tick
<1> QED
  BY <1>1, <1>2
     DEF IInv, ProcInv, CoverInv, WillDo, is_queued, Turn, disk, ghosts

LEMMA ExpireKept ==
  ASSUME IInv, NEW s \in Session, Expire(s)
  PROVE  IInv'
<1>1. TypeInv'
  BY ExpireTyped DEF IInv
<1> QED
  BY <1>1
     DEF IInv, ProcInv, CandsInv, CoverInv, WillDo, is_queued, Expire,
         transcripts, disk, tick, ghosts

\* A process whose pc is not in a call has no operation to come.
LEMMA NotMarking ==
  ASSUME IInv, NEW a \in Actor, task[a].pc \notin Marking
  PROVE  task[a].todo = <<>>
  BY DEF IInv, ProcInv, Wellformed

LEMMA HookKept ==
  ASSUME IInv, NEW s \in Session, HookStart(s) \/ Hook(s)
  PROVE  IInv'
<1>0. s \in Actor /\ TypeInv
  BY DEF Actor, IInv
<1>1. TypeInv'
  BY <1>0, HookStartTyped, HookAutomatedTyped, HookResumeTyped, HookReadDoneTyped,
     HookExtractTyped, HookEnqueueTyped DEF Hook
<1>2. CandsInv'
  BY DEF IInv, CandsInv, Hook, HookStart, HookAutomated, HookResume, HookReadDone, HookExtract,
         HookEnqueue, HookUnchanged, transcripts, tick
<1>3. UNCHANGED <<ts, dead, queue, crashes>>
  BY DEF Hook, HookStart, HookAutomated, HookResume, HookReadDone, HookExtract,
         HookEnqueue, HookUnchanged, disk
<1>4. task[s].todo = <<>>
  BY <1>0, NotMarking DEF Hook, HookStart, HookAutomated, HookResume, HookReadDone, HookExtract,
         HookEnqueue, Marking
<1>5. task[s].pc \in Reading => task[s].item.text # {}
  BY <1>0 DEF IInv, ProcInv, Wellformed
<1>6. Ordered(mark_done, TRUE) /\ \A b \in BOOLEAN : Ordered(enqueue, b)
  BY ListsOrdered
<1>7. CASE HookStart(s)
  BY <1>0, <1>1, <1>2, <1>3, <1>4, <1>7, HoldingWell, StepKept DEF HookStart
<1>8. CASE HookAutomated(s)
  <2>1. CASE Goes(s, Idle(s)) /\ UNCHANGED waved
    <3>1. Wellformed(s, Idle(s), waved')
      BY <1>0, HoldingWell DEF Idle, Reading
    <3> QED
      BY <1>0, <1>1, <1>2, <1>3, <1>4, <2>1, <3>1, StepKept
  <2>2. CASE /\ Goes(s, Calling("marking", s, NoItem, 0, mark_done))
             /\ waved' = [waved EXCEPT ![s] = @ \cup task[s].item.text]
    <3>1. /\ waved'[s] # {}
          /\ \A r \in Session : waved[r] # {} => waved'[r] # {}
      BY <1>0, <1>5, <1>8, <2>2 DEF HookAutomated, Reading, TypeInv, TypeOK
    <3>2. Wellformed(s, Calling("marking", s, NoItem, 0, mark_done), waved')
      BY <1>0, <1>6, <3>1, CallingWell DEF Marking
    <3> QED
      BY <1>0, <1>1, <1>2, <1>3, <1>4, <2>2, <3>1, <3>2, StepKept
  <2> QED
    BY <1>8, <2>1, <2>2 DEF HookAutomated
<1>9. CASE HookResume(s)
  <2> DEFINE since == IF dead[s] # None THEN dead[s] ELSE queued_since(s)
             item == [task[s].item EXCEPT !.since = since]
             pc == IF dead[s] = None /\ ~is_queued(s) THEN "read_done" ELSE "extract"
  <2>1. item.text # {}
    BY <1>0, <1>5, <1>9, HookReads DEF HookResume, Reading, Item
  <2>2. Wellformed(s, Holding(pc, s, item), waved')
    BY <1>0, <2>1, HoldingWell
  <2>3. Goes(s, Holding(pc, s, item)) /\ UNCHANGED waved
    BY <1>9 DEF HookResume
  <2> QED
    BY <1>0, <1>1, <1>2, <1>3, <1>4, <2>2, <2>3, StepKept
<1>10. CASE HookReadDone(s)
  <2> DEFINE item == [task[s].item EXCEPT !.since = ts[s]]
  <2>1. item.text # {}
    BY <1>0, <1>5, <1>10, HookReads DEF HookReadDone, Reading, Item
  <2>2. Wellformed(s, Holding("extract", s, item), waved')
    BY <1>0, <2>1, HoldingWell
  <2>3. Goes(s, Holding("extract", s, item)) /\ UNCHANGED waved
    BY <1>10 DEF HookReadDone
  <2> QED
    BY <1>0, <1>1, <1>2, <1>3, <1>4, <2>2, <2>3, StepKept
<1>11. CASE HookEnqueue(s)
  <2>1. Wellformed(s, Idle(s), waved')
    BY <1>0, HoldingWell DEF Idle, Reading
  <2>2. Wellformed(s, Calling("marking", s, task[s].item, 0, enqueue), waved')
    BY <1>0, <1>6, CallingWell DEF Marking
  <2>3. /\ Goes(s, Idle(s)) \/ Goes(s, Calling("marking", s, task[s].item, 0, enqueue))
        /\ UNCHANGED waved
    BY <1>11 DEF HookEnqueue
  <2> QED
    BY <1>0, <1>1, <1>2, <1>3, <1>4, <2>1, <2>2, <2>3, StepKept
<1>12. CASE HookExtract(s)
  <2> DEFINE since == task[s].item.since
             tail == IF since = None THEN {} ELSE After(turns[s], since)
             useTail == tail # {} /\ (dead[s] = None \/ tail \cap byUser # {})
             text == IF useTail THEN tail ELSE task[s].item.text
             item == [text |-> text, at |-> now,
                      since |-> IF useTail THEN since ELSE None]
             attempts == read_retry_count(s) + 1
  <2>1. text # {} /\ attempts \in 1 .. MaxAttempts
    BY <1>0, <1>5, <1>12, HookReads DEF HookExtract, Reading, read_retry_count
  <2>2. CASE UNCHANGED waved /\ (Goes(s, Holding("enqueue", s, item)) \/ Goes(s, Idle(s)))
    <3>1. Wellformed(s, Idle(s), waved')
      BY <1>0, HoldingWell DEF Idle, Reading
    <3>2. Wellformed(s, Holding("enqueue", s, item), waved')
      BY <1>0, <2>1, HoldingWell
    <3> QED
      BY <1>0, <1>1, <1>2, <1>3, <1>4, <2>2, <3>1, <3>2, StepKept
  <2>3. CASE /\ waved' = [waved EXCEPT ![s] = @ \cup text]
             /\ \/ Goes(s, Calling("marking", s, NoItem, 0, mark_done))
                \/ Goes(s, Calling("marking", s, NoItem, attempts, mark_retry(attempts)))
    <3>1. /\ waved'[s] # {}
          /\ \A r \in Session : waved[r] # {} => waved'[r] # {}
      <4> HIDE DEF text
      <4> QED
        BY <1>0, <2>1, <2>3 DEF TypeInv, TypeOK
    <3>2. Wellformed(s, Calling("marking", s, NoItem, 0, mark_done), waved')
      BY <1>0, <1>6, <3>1, CallingWell DEF Marking
    <3>3. Wellformed(s, Calling("marking", s, NoItem, attempts, mark_retry(attempts)), waved')
      <4>1. Ordered(mark_retry(attempts), TRUE)
        BY <2>1, RetryOrdered
      <4> QED
        BY <1>0, <3>1, <4>1, CallingWell DEF Marking
    <3> QED
      BY <1>0, <1>1, <1>2, <1>3, <1>4, <2>3, <3>1, <3>2, <3>3, StepKept
  <2> QED
    BY <1>12, <2>2, <2>3 DEF HookExtract
<1> QED
  BY <1>7, <1>8, <1>9, <1>10, <1>11, <1>12 DEF Hook

LEMMA WorkerOfferKept ==
  ASSUME IInv, NEW w \in Worker, NEW s \in Session, WorkerOffer(w, s)
  PROVE  IInv'
<1> DEFINE item == [text |-> turns[s], since |-> None, at |-> now]
<1>0. w \in Actor /\ w \notin Session /\ TypeInv /\ task[w].todo = <<>>
  <2>1. w \in Actor /\ w \notin Session
    BY ConstantsAssumption DEF Actor
  <2> QED
    BY <2>1, NotMarking DEF IInv, WorkerOffer, Marking
<1>1. TypeInv' /\ UNCHANGED <<ts, dead, queue, crashes>>
  BY <1>0, WorkerOfferTyped DEF WorkerOffer, disk
<1>2. CandsInv'
  BY <1>0 DEF IInv, TypeInv, TypeOK, CandsInv, WorkerOffer
<1>3. CASE TooShort(s, item.text)
  <2>1. waved' = [waved EXCEPT ![s] = @ \cup turns[s]] /\ turns[s] # {}
    BY <1>3 DEF IInv, CandsInv, WorkerOffer
  <2>2. waved'[s] # {} /\ \A r \in Session : waved[r] # {} => waved'[r] # {}
    BY <1>0, <2>1 DEF TypeInv, TypeOK
  <2>3. Wellformed(w, Calling("offering", s, NoItem, 0, mark_done), waved')
    BY <1>0, <2>2, ListsOrdered, CallingWell DEF Marking
  <2>4. Goes(w, Calling("offering", s, NoItem, 0, mark_done))
    BY <1>3 DEF WorkerOffer
  <2> QED
    BY <1>0, <1>1, <1>2, <2>2, <2>3, <2>4, StepKept
<1>4. CASE ~TooShort(s, item.text)
  <2>1. Wellformed(w, Calling("offering", s, item, 0, enqueue), waved')
    BY <1>0, ListsOrdered, CallingWell DEF Marking
  <2>2. UNCHANGED waved
    BY <1>4 DEF WorkerOffer
  <2>3. Wellformed(w, task[w], waved')
    BY <1>0, <2>2 DEF IInv, ProcInv
  <2>4. Goes(w, task[w]) \/ Goes(w, Calling("offering", s, item, 0, enqueue))
    BY <1>4 DEF WorkerOffer
  <2> QED
    BY <1>0, <1>1, <1>2, <2>1, <2>2, <2>3, <2>4, StepKept
<1> QED
  BY <1>3, <1>4

\* The ticks that move a worker on without a call.
LEMMA WorkerMovesKept ==
  ASSUME IInv, NEW w \in Worker,
         \/ WorkerTick(w) \/ WorkerDrainOnly(w) \/ WorkerOffered(w)
         \/ WorkerDrain(w) \/ WorkerDefer(w) \/ WorkerDone(w)
  PROVE  IInv'
<1>0. w \in Actor /\ w \notin Session /\ TypeInv
  BY ConstantsAssumption DEF Actor, IInv
<1>1. TypeInv'
  BY <1>0, WorkerTickTyped, WorkerDrainOnlyTyped, WorkerOfferedTyped, WorkerDrainTyped,
     WorkerDeferTyped, WorkerDoneTyped
<1>2. CandsInv'
  <2>1. /\ turns' = turns
        /\ cands' = cands \/ \E S \in SUBSET Session :
              cands' = [cands EXCEPT ![w] = S] /\ \A s \in S : turns[s] # {}
    <3>1. CASE WorkerTick(w)
      BY <3>1 DEF WorkerTick, WorkerUnchanged, transcripts, _eligible
    <3>2. CASE WorkerOffered(w)
      BY <3>2 DEF WorkerOffered, WorkerUnchanged, transcripts
    <3>3. CASE WorkerDrainOnly(w) \/ WorkerDrain(w) \/ WorkerDefer(w) \/ WorkerDone(w)
      BY <3>3 DEF WorkerDrainOnly, WorkerDrain, WorkerDefer, WorkerDone, WorkerUnchanged,
                  transcripts, tick
    <3> QED
      BY <3>1, <3>2, <3>3
  <2> QED
    BY <1>0, <2>1 DEF IInv, TypeInv, TypeOK, CandsInv
<1>3. UNCHANGED <<ts, dead, queue, crashes, waved>>
  BY DEF WorkerTick, WorkerDrainOnly, WorkerOffered, WorkerDrain, WorkerDefer, WorkerDone,
         WorkerUnchanged, disk
<1>4. task[w].todo = <<>>
  BY <1>0, NotMarking DEF WorkerTick, WorkerDrainOnly, WorkerOffered, WorkerDrain, WorkerDefer,
         WorkerDone, Marking
<1>5. \E pc \in {"offer", "drain", "next", "idle"} : Goes(w, Holding(pc, Home(w), NoItem))
  BY DEF WorkerTick, WorkerDrainOnly, WorkerOffered, WorkerDrain, WorkerDefer, WorkerDone, Idle
<1>6. \A pc \in {"offer", "drain", "next", "idle"} :
         Wellformed(w, Holding(pc, Home(w), NoItem), waved')
  BY <1>0, HomeWell DEF Reading
<1> QED
  BY <1>0, <1>1, <1>2, <1>3, <1>4, <1>5, <1>6, StepKept

LEMMA WorkerNextKept ==
  ASSUME IInv, NEW w \in Worker, WorkerNext(w)
  PROVE  IInv'
<1>0. w \in Actor /\ w \notin Session /\ TypeInv
  BY ConstantsAssumption DEF Actor, IInv
<1>1. TypeInv' /\ UNCHANGED <<ts, dead, queue, crashes, waved>>
  BY <1>0, WorkerNextTyped DEF WorkerNext, WorkerUnchanged, disk
<1>2. CandsInv'
  BY DEF IInv, CandsInv, WorkerNext, WorkerUnchanged, transcripts
<1>3. task[w].todo = <<>>
  BY <1>0, NotMarking DEF WorkerNext, Marking
<1>4. PICK e \in batch[w] :
        Goes(w, IF ts[e.sid] # None
                THEN Calling("settling", e.sid, e.item, 0, <<"rm_item">>)
                ELSE Holding("distill", e.sid, e.item))
  BY DEF WorkerNext
<1>5. e.sid \in Session
  BY <1>0, WorkerReads DEF Entry
<1>6. /\ Wellformed(w, Calling("settling", e.sid, e.item, 0, <<"rm_item">>), waved')
      /\ Wellformed(w, Holding("distill", e.sid, e.item), waved')
  BY <1>0, <1>5, ListsOrdered, CallingWell, HoldingWell DEF Marking
<1> QED
  BY <1>0, <1>1, <1>2, <1>3, <1>4, <1>6, StepKept

LEMMA DistillKept ==
  ASSUME IInv, NEW w \in Worker, Distill(w)
  PROVE  IInv'
<1> DEFINE s == task[w].sid
           attempts == read_retry_count(s) + 1
<1>0. w \in Actor /\ w \notin Session /\ TypeInv
  BY ConstantsAssumption DEF Actor, IInv
<1>1. TypeInv' /\ UNCHANGED <<ts, dead, queue, crashes, waved>>
  BY <1>0, WorkerRememberTyped, WorkerSkipTyped, WorkerFailTyped
     DEF Distill, WorkerRemember, WorkerSkip, WorkerFail, WorkerUnchanged, disk
<1>2. CandsInv'
  BY DEF IInv, CandsInv, Distill, WorkerRemember, WorkerSkip, WorkerFail, WorkerUnchanged,
         transcripts, tick
<1>3. task[w].todo = <<>>
  BY <1>0, NotMarking DEF Distill, WorkerRemember, WorkerSkip, WorkerFail, Marking
<1>4. s \in Session /\ attempts \in 1 .. MaxAttempts
  BY <1>0, WorkerReads, HookReads DEF read_retry_count
<1>5. \/ Goes(w, Calling("settling", s, task[w].item, 0, Append(mark_done_upto, "rm_item")))
      \/ Goes(w, Calling("settling", s, task[w].item, attempts,
                         Append(mark_retry(attempts), "rm_item_if_dead")))
  BY DEF Distill, WorkerRemember, WorkerSkip, WorkerFail, Settle
<1>6. Wellformed(w, Calling("settling", s, task[w].item, 0, Append(mark_done_upto, "rm_item")),
                 waved')
  BY <1>0, <1>4, ListsOrdered, CallingWell DEF Marking
<1>7. Wellformed(w, Calling("settling", s, task[w].item, attempts,
                            Append(mark_retry(attempts), "rm_item_if_dead")), waved')
  BY <1>0, <1>4, RetryOrdered, CallingWell DEF Marking
<1> QED
  BY <1>0, <1>1, <1>2, <1>3, <1>5, <1>6, <1>7, StepKept

LEMMA InitIInv == Init => IInv
<1> SUFFICES ASSUME Init PROVE IInv
  OBVIOUS
<1>1. \A a \in Actor : task[a] = Holding("idle", Home(a), NoItem)
  BY DEF Init, Idle
<1>2. ProcInv
  BY <1>1, HomeWell DEF ProcInv, Reading
<1> QED
  BY <1>2, InitTyped DEF Init, IInv, CandsInv, CoverInv, is_queued

LEMMA NextIInv == IInv /\ [Next]_vars => IInv'
<1> SUFFICES ASSUME IInv, [Next]_vars PROVE IInv'
  OBVIOUS
<1>1. CASE UNCHANGED vars
  <2>1. TypeInv'
    BY <1>1, NextTyped DEF IInv
  <2> QED
    BY <1>1, <2>1 DEF IInv, ProcInv, CandsInv, CoverInv, WillDo, is_queued, vars,
                      transcripts, disk, tick, ghosts
<1>2. ASSUME NEW s \in Session, Turn(s) \/ Expire(s) \/ HookStart(s) \/ Hook(s)
      PROVE  IInv'
  BY <1>2, TurnKept, ExpireKept, HookKept
<1>3. ASSUME NEW w \in Worker,
             WorkerTick(w) \/ WorkerDrainOnly(w) \/ WorkerDrain(w) \/ WorkerDefer(w) \/ Work(w)
      PROVE  IInv'
  BY <1>3, WorkerMovesKept, WorkerOfferKept, WorkerNextKept, DistillKept, UtimeRaisesKept
     DEF Work
<1>4. ASSUME NEW a \in Actor, FileStep(a) \/ Crash(a)
      PROVE  IInv'
  BY <1>4, FileStepKept, CrashKept
<1> QED
  BY <1>1, <1>2, <1>3, <1>4 DEF Next

\* Whatever hooks and workers do at the same time, as long as none is killed, an
\* item at rest in the queue is hidden by neither marker: the order of the file
\* operations in markers.py and distill_queue.py is enough, no lock is needed.
THEOREM Reachable == Spec => []QueuedIsReachable
<1>1. IInv => QueuedIsReachable
  <2> SUFFICES ASSUME IInv, crashes = 0, NEW s \in Session,
                      Quiet(s), is_queued(s), waved[s] = {}
               PROVE  ts[s] = None /\ dead[s] = None
    BY DEF QueuedIsReachable
  <2>1. ASSUME NEW a \in Actor, task[a].sid = s PROVE task[a].todo = <<>>
    <3>1. task[a].pc = "idle"
      <4>1. CASE a \in Session
        BY <2>1, <4>1 DEF IInv, ProcInv, Wellformed, Quiet
      <4>2. CASE a \in Worker
        BY <2>1, <4>2 DEF Quiet, WorkersOn
      <4> QED
        BY <4>1, <4>2 DEF Actor
    <3> QED
      BY <3>1, NotMarking DEF Marking
  <2>2. \A x, y : ~WillDo(s, x, y)
    BY <2>1 DEF WillDo
  <2> QED
    BY <2>2 DEF IInv, CoverInv
<1> QED
  BY InitIInv, NextIInv, <1>1, PTL DEF Spec
-----------------------------------------------------------------------------
(* One worker, and sessions that keep off it, as in a deployment where the *)
(* tick of hermes cron is the only one: what the queue promises then.      *)

Serial ==
    /\ Faults = {} /\ MaxCrash = 0 /\ Automated = {}
    /\ \A v, w \in Worker : v = w

\* A Codex session of short turns is waved through with its whole text, again
\* and again; all others are followed here.
Ours == Session \ (Codex \cap Terse)

\* Everything of s up to time r is settled: nothing buried is later, the turns
\* are accounted for, and every note starts before it.
Behind(s, r) ==
    /\ \A b \in buried[s] : b <= r
    /\ s \notin Codex => /\ \A t \in turns[s] : t <= r => t \in Accounted(s)
                         /\ \A n \in notes[s] : n.since < r

\* The item holds the turns after since up to the time it was made.
Window(s, i) ==
    /\ i.since < i.at /\ i.at <= now
    /\ i.text = {t \in turns[s] : i.since < t /\ t <= i.at}
    /\ i.text # {} /\ ~TooShort(s, i.text)

\* The session has gone on after time r, or has nothing new.
GrewAfter(s, r) == grew[s] => \E t \in turns[s] : t > r
Unburied(s) == s \in Codex => buried[s] = {}

\* No call is in the middle of the files of s.
AtRest(s) ==
    /\ Behind(s, resume_since(s))
    /\ is_queued(s) <=> (pending[s] \/ retry[s] > 0)
    /\ is_queued(s) => ts[s] = None /\ dead[s] = None /\ Window(s, queue[s])
    /\ dead[s] = None =>
          /\ GrewAfter(s, IF is_queued(s) THEN queue[s].at ELSE ts[s])
          /\ Unburied(s)

-----------------------------------------------------------------------------
(* The calls, by the operations still to come.                             *)

enqueue_todo == {enqueue, <<"write_pending", "rm_ts", "rm_dead">>, <<"rm_ts", "rm_dead">>,
                 <<"rm_dead">>}
done_todo == {mark_done, <<"rm_pending", "rm_retry", "rm_dead">>, <<"rm_retry", "rm_dead">>,
              <<"rm_dead">>}
landing == Append(mark_done_upto, "rm_item")
landing_todo == {landing, <<"rm_pending", "rm_retry", "rm_dead", "utime_ts", "rm_item">>,
                 <<"rm_retry", "rm_dead", "utime_ts", "rm_item">>,
                 <<"rm_dead", "utime_ts", "rm_item">>, <<"utime_ts", "rm_item">>, <<"rm_item">>}
burying == <<"write_dead", "rm_ts", "rm_pending", "rm_retry", "rm_item_if_dead">>
burying_todo == {burying, <<"rm_ts", "rm_pending", "rm_retry", "rm_item_if_dead">>,
                 <<"rm_pending", "rm_retry", "rm_item_if_dead">>,
                 <<"rm_retry", "rm_item_if_dead">>, <<"rm_item_if_dead">>}
retrying == <<"write_retry", "rm_ts", "rm_pending", "rm_item_if_dead">>
retrying_todo == {retrying, <<"rm_ts", "rm_pending", "rm_item_if_dead">>,
                  <<"rm_pending", "rm_item_if_dead">>, <<"rm_item_if_dead">>}

\* enqueue, by the hook or the worker's offer: the session cannot go on meanwhile.
Enqueuing(s, t) ==
    /\ t.pc \in {"marking", "offering"} /\ t.todo \in enqueue_todo
    /\ ~grew[s] /\ Behind(s, t.item.since) /\ Window(s, t.item) /\ Unburied(s)
    /\ t.todo # enqueue => queue[s] = t.item
    /\ t.todo \in {<<"rm_ts", "rm_dead">>, <<"rm_dead">>} => pending[s]
    /\ t.todo = <<"rm_dead">> => ts[s] = None

\* mark_done for a text that is too short.
Waving(s, t) ==
    /\ t.pc \in {"marking", "offering"} /\ t.todo \in done_todo
    /\ ~grew[s] /\ ~is_queued(s) /\ s \notin Codex
    /\ turns[s] \subseteq Accounted(s)
    /\ Behind(s, IF t.todo = mark_done THEN now ELSE ts[s])
    /\ t.todo \in {<<"rm_retry", "rm_dead">>, <<"rm_dead">>} => ~pending[s]
    /\ t.todo = <<"rm_dead">> => retry[s] = 0

\* The worker settles an item that is in memory, or was skipped.
Landing(s, t) ==
    /\ t.pc = "settling" /\ t.todo \in landing_todo
    /\ queue[s] = t.item /\ Window(s, t.item) /\ dead[s] = None
    /\ Behind(s, t.item.at) /\ GrewAfter(s, t.item.at) /\ Unburied(s)
    /\ t.todo # landing => ts[s] # None
    /\ t.todo \notin {landing, <<"rm_pending", "rm_retry", "rm_dead", "utime_ts", "rm_item">>} =>
          ~pending[s]
    /\ t.todo \in {<<"rm_dead", "utime_ts", "rm_item">>, <<"utime_ts", "rm_item">>, <<"rm_item">>} =>
          retry[s] = 0
    /\ t.todo = <<"rm_item">> => ts[s] = t.item.at

\* The last try failed.
Burying(s, t) ==
    /\ t.pc = "settling" /\ t.todo \in burying_todo
    /\ queue[s] = t.item /\ Window(s, t.item) /\ ts[s] = None
    /\ IF t.todo = burying THEN Behind(s, t.item.since)
       ELSE dead[s] # None /\ Behind(s, dead[s])
    /\ t.todo \in {<<"rm_retry", "rm_item_if_dead">>, <<"rm_item_if_dead">>} => ~pending[s]
    /\ t.todo = <<"rm_item_if_dead">> => retry[s] = 0

\* A try failed, and there is another one.
Retrying(s, t) ==
    /\ t.pc = "settling" /\ t.todo \in retrying_todo /\ t.tries > 0
    /\ queue[s] = t.item /\ Window(s, t.item) /\ ts[s] = None /\ dead[s] = None
    /\ Behind(s, t.item.since) /\ GrewAfter(s, t.item.at) /\ Unburied(s)
    /\ t.todo # retrying => retry[s] > 0

Call(s, t) ==
    Enqueuing(s, t) \/ Waving(s, t) \/ Landing(s, t) \/ Burying(s, t) \/ Retrying(s, t)

-----------------------------------------------------------------------------
(* What hook and worker hold of s.                                         *)

Reads(s) ==
    LET t == task[s] IN
    /\ t.pc \in {"resume", "read_done", "extract"} => t.item.text = turns[s] /\ grew[s]
    /\ t.pc \in {"resume", "read_done"} => s \notin Codex
    /\ t.pc = "read_done" => dead[s] = None /\ ~is_queued(s)
    /\ t.pc = "extract" => t.item.since = IF s \in Codex THEN None ELSE resume_since(s)
    /\ t.pc = "enqueue" =>
          /\ ~grew[s] /\ Window(s, t.item)
          /\ s \in Codex => t.item.since = None
          /\ dead[s] = None \/ t.item.since # None => Behind(s, t.item.since)

InCall(a, s) == task[a].sid = s /\ task[a].todo # <<>>
Engaged(w, s) == task[w].sid = s /\ (task[w].todo # <<>> \/ task[w].pc = "distill")
InBatch(w, s) == \E e \in batch[w] : e.sid = s
Holds(w, s) == Engaged(w, s) \/ s \in cands[w] \/ InBatch(w, s)

WorkerHas(w, s) ==
    /\ Holds(w, s) => task[s].pc = "idle"
    /\ Engaged(w, s) => s \notin cands[w] /\ ~InBatch(w, s)
    /\ s \in cands[w] => ~is_queued(s) /\ ts[s] = None /\ dead[s] = None /\ turns[s] # {}
    /\ \A e \in batch[w] : e.sid = s => is_queued(s) /\ e.item = queue[s]
    /\ task[w].pc = "distill" /\ task[w].sid = s => is_queued(s) /\ task[w].item = queue[s]

SessionInv(s) ==
    /\ ts[s] <= now /\ dead[s] <= now /\ \A t \in turns[s] : t <= now
    /\ (\A a \in Actor : ~InCall(a, s)) => AtRest(s)
    /\ \A a \in Actor : InCall(a, s) => Call(s, task[a])
    /\ Reads(s)
    /\ \A w \in Worker : WorkerHas(w, s)

SerialInv == \A s \in Ours : SessionInv(s)

-----------------------------------------------------------------------------
(* The lists, and the types of what is compared.                           *)

LEMMA ListsAre ==
    /\ enqueue = <<"put_item", "write_pending", "rm_ts", "rm_dead">>
    /\ mark_done = <<"write_ts", "rm_pending", "rm_retry", "rm_dead">>
    /\ landing = <<"write_ts", "rm_pending", "rm_retry", "rm_dead", "utime_ts", "rm_item">>
<1>1. enqueue = <<"put_item", "write_pending", "rm_ts", "rm_dead">>
  <2> DEFINE t == <<"put_item", "write_pending", "rm_ts", "rm_dead">>
  <2>1. enqueue \in Seq(Op) /\ t \in Seq(Op) /\ Len(enqueue) = 4 /\ Len(t) = 4
    BY DEF enqueue, mark_pending, Op
  <2>2. /\ enqueue[1] = t[1] /\ enqueue[2] = t[2] /\ enqueue[3] = t[3] /\ enqueue[4] = t[4]
    BY DEF enqueue, mark_pending
  <2> HIDE DEF t
  <2>3. \A i \in 1 .. Len(enqueue) : enqueue[i] = t[i]
    BY <2>1, <2>2
  <2>4. enqueue = t
    BY <2>1, <2>3, SeqEqual
  <2> QED BY <2>4 DEF t
<1>2. landing = <<"write_ts", "rm_pending", "rm_retry", "rm_dead", "utime_ts", "rm_item">>
  <2> DEFINE t == <<"write_ts", "rm_pending", "rm_retry", "rm_dead", "utime_ts", "rm_item">>
  <2>1. landing \in Seq(Op) /\ t \in Seq(Op) /\ Len(landing) = 6 /\ Len(t) = 6
    BY DEF landing, mark_done_upto, mark_done, Op
  <2>2. /\ landing[1] = t[1] /\ landing[2] = t[2] /\ landing[3] = t[3]
        /\ landing[4] = t[4] /\ landing[5] = t[5] /\ landing[6] = t[6]
    BY DEF landing, mark_done_upto, mark_done
  <2> HIDE DEF t
  <2>3. \A i \in 1 .. Len(landing) : landing[i] = t[i]
    BY <2>1, <2>2
  <2>4. landing = t
    BY <2>1, <2>3, SeqEqual
  <2> QED BY <2>4 DEF t
<1> QED BY <1>1, <1>2 DEF mark_done

LEMMA RetryIs ==
    ASSUME NEW n \in 1 .. MaxAttempts
    PROVE  Append(mark_retry(n), "rm_item_if_dead") = IF n = MaxAttempts THEN burying ELSE retrying
<1> DEFINE ops == Append(mark_retry(n), "rm_item_if_dead")
<1>1. CASE n = MaxAttempts
  <2>1. mark_retry(n) = <<"write_dead", "rm_ts", "rm_pending", "rm_retry">>
    BY <1>1, ConstantsAssumption DEF mark_retry
  <2>2. ops \in Seq(Op) /\ burying \in Seq(Op) /\ Len(ops) = 5 /\ Len(burying) = 5
    BY <2>1 DEF burying, Op
  <2>3. /\ ops[1] = burying[1] /\ ops[2] = burying[2] /\ ops[3] = burying[3]
        /\ ops[4] = burying[4] /\ ops[5] = burying[5]
    BY <2>1 DEF burying
  <2> HIDE DEF ops
  <2>4. \A i \in 1 .. Len(ops) : ops[i] = burying[i]
    BY <2>2, <2>3
  <2>5. ops = burying
    BY <2>2, <2>4, SeqEqual
  <2> QED BY <1>1, <2>5 DEF ops
<1>2. CASE n # MaxAttempts
  <2>1. mark_retry(n) = <<"write_retry", "rm_ts", "rm_pending">>
    BY <1>2, ConstantsAssumption DEF mark_retry
  <2>2. ops \in Seq(Op) /\ retrying \in Seq(Op) /\ Len(ops) = 4 /\ Len(retrying) = 4
    BY <2>1 DEF retrying, Op
  <2>3. /\ ops[1] = retrying[1] /\ ops[2] = retrying[2] /\ ops[3] = retrying[3]
        /\ ops[4] = retrying[4]
    BY <2>1 DEF retrying
  <2> HIDE DEF ops
  <2>4. \A i \in 1 .. Len(ops) : ops[i] = retrying[i]
    BY <2>2, <2>3
  <2>5. ops = retrying
    BY <2>2, <2>4, SeqEqual
  <2> QED BY <1>2, <2>5 DEF ops
<1> QED BY <1>1, <1>2

LEMMA Typed ==
    ASSUME TypeInv, NEW s \in Session
    PROVE  /\ s \in Actor /\ task[s] \in Task
           /\ now \in Nat /\ ts[s] \in Int /\ dead[s] \in Int /\ retry[s] \in Nat
           /\ ts[s] >= None /\ dead[s] >= None
           /\ pending[s] \in BOOLEAN /\ grew[s] \in BOOLEAN
           /\ queue[s] \in Item /\ queue[s].since \in Int /\ queue[s].at \in Int
           /\ queue[s].since >= None
           /\ \A t \in turns[s] : t \in Nat /\ t > 0
           /\ \A b \in buried[s] : b \in Nat /\ b > 0
           /\ \A n \in notes[s] : n.since \in Int /\ n.since >= None
<1>1. s \in Actor /\ task[s] \in Task
  BY DEF Actor, TypeInv, TypeOK
<1>2. \A x \in OptStamp : x \in Int /\ x >= None
  BY ConstantsAssumption DEF OptStamp, Stamp, None
<1>3. now \in Nat /\ retry[s] \in Nat /\ pending[s] \in BOOLEAN /\ grew[s] \in BOOLEAN
  BY ConstantsAssumption DEF TypeInv, TypeOK, Stamp
<1>4. ts[s] \in OptStamp /\ dead[s] \in OptStamp
  BY DEF TypeInv, TypeOK
<1>5. queue[s] \in Item /\ queue[s].since \in OptStamp /\ queue[s].at \in OptStamp
  BY DEF TypeInv, TypeOK, Item
<1>6. \A t \in turns[s] : t \in Nat /\ t > 0
  BY ConstantsAssumption DEF TypeInv, TypeOK, Time
<1>7. \A b \in buried[s] : b \in Nat /\ b > 0
  BY ConstantsAssumption DEF TypeInv, TypeOK, Time
<1>8. \A n \in notes[s] : n.since \in OptStamp
  BY DEF TypeInv, TypeOK, Note
<1> QED
  BY <1>1, <1>2, <1>3, <1>4, <1>5, <1>6, <1>7, <1>8

LEMMA TaskTyped ==
    ASSUME TypeInv, NEW a \in Actor
    PROVE  /\ task[a] \in Task /\ task[a].item \in Item /\ task[a].sid \in Session
           /\ task[a].todo \in Seq(Op) /\ task[a].tries \in Nat
           /\ task[a].item.since \in Int /\ task[a].item.at \in Int
           /\ task[a].item.since >= None
<1>1. \A x \in OptStamp : x \in Int /\ x >= None
  BY ConstantsAssumption DEF OptStamp, Stamp, None
<1>2. task[a] \in Task
  BY DEF TypeInv, TypeOK
<1>3. task[a].item.since \in OptStamp /\ task[a].item.at \in OptStamp
  BY <1>2 DEF Task, Item
<1> QED
  BY <1>1, <1>2, <1>3 DEF Task

-----------------------------------------------------------------------------
(* What others do leaves a session as it is.                               *)

\* The session's transcript, files and notes; time may go on.
Same(s) ==
    /\ now <= now'
    /\ turns'[s] = turns[s] /\ grew'[s] = grew[s]
    /\ ts'[s] = ts[s] /\ pending'[s] = pending[s] /\ retry'[s] = retry[s]
    /\ dead'[s] = dead[s] /\ queue'[s] = queue[s]
    /\ notes'[s] = notes[s] /\ waved'[s] = waved[s] /\ skipped'[s] = skipped[s]
    /\ buried'[s] = buried[s]

\* Who works on it.
Untouched(s) ==
    /\ Same(s) /\ task'[s] = task[s]
    /\ \A w \in Worker : task'[w] = task[w] \/ (~Engaged(w, s) /\ ~Engaged(w, s)')
    /\ \A w \in Worker : /\ s \in cands'[w] => s \in cands[w]
                         /\ \A e \in batch'[w] : e.sid = s => e \in batch[w]

LEMMA SameData ==
    ASSUME TypeInv, TypeInv', NEW s \in Session, Same(s)
    PROVE  /\ \A r : Behind(s, r) <=> Behind(s, r)'
           /\ \A i \in Item : Window(s, i) => Window(s, i)'
           /\ \A r : GrewAfter(s, r) <=> GrewAfter(s, r)'
           /\ Unburied(s) <=> Unburied(s)'
           /\ Accounted(s)' = Accounted(s)
<1>1. Accounted(s)' = Accounted(s)
  BY DEF Same, Accounted, Remembered_turns
<1>2. now \in Int /\ now' \in Int
  BY ConstantsAssumption DEF TypeInv, TypeOK, Stamp
<1>3. \A r : Behind(s, r) <=> Behind(s, r)'
  BY <1>1 DEF Same, Behind
<1>4. \A i \in Item : i.at \in Int
  BY ConstantsAssumption DEF Item, OptStamp, Stamp, None
<1>5. \A i \in Item : Window(s, i) => Window(s, i)'
  BY <1>2, <1>4 DEF Same, Window, TooShort
<1> QED
  BY <1>1, <1>3, <1>5 DEF Same, GrewAfter, Unburied

LEMMA SameRest ==
    ASSUME TypeInv, TypeInv', NEW s \in Session, Same(s), AtRest(s)
    PROVE  AtRest(s)'
<1>1. queue[s] \in Item
  BY Typed
<1>2. /\ resume_since(s)' = resume_since(s) /\ is_queued(s)' = is_queued(s)
      /\ queue'[s] = queue[s] /\ ts'[s] = ts[s] /\ dead'[s] = dead[s]
      /\ pending'[s] = pending[s] /\ retry'[s] = retry[s]
  BY DEF Same, resume_since, is_queued
<1> DEFINE reach == IF is_queued(s) THEN queue[s].at ELSE ts[s]
<1>3. Behind(s, resume_since(s))'
  <2>1. PICK r : r = resume_since(s)
    OBVIOUS
  <2>2. Behind(s, r)' /\ resume_since(s)' = r
    BY <1>2, <2>1, SameData DEF AtRest
  <2> QED
    BY <2>2 DEF Behind
<1>4. is_queued(s) => Window(s, queue[s])'
  <2>1. PICK i \in Item : i = queue[s] /\ queue'[s] = i
    BY <1>1, <1>2
  <2>2. is_queued(s) => Window(s, i)'
    BY <2>1, SameData DEF AtRest
  <2> QED
    BY <2>1, <2>2 DEF Window
<1>5. dead[s] = None =>
         GrewAfter(s, IF is_queued(s) THEN queue[s].at ELSE ts[s])' /\ Unburied(s)'
  <2>1. PICK r : r = IF is_queued(s) THEN queue[s].at ELSE ts[s]
    OBVIOUS
  <2>2. dead[s] = None => GrewAfter(s, r)' /\ Unburied(s)'
    BY <2>1, SameData DEF AtRest
  <2>3. (IF is_queued(s) THEN queue[s].at ELSE ts[s])' = r
    BY <1>2, <2>1
  <2> QED
    BY <2>2, <2>3 DEF GrewAfter
<1> QED
  BY <1>2, <1>3, <1>4, <1>5 DEF AtRest

LEMMA SameCall ==
    ASSUME TypeInv, TypeInv', NEW s \in Session, Same(s), NEW t \in Task, Call(s, t),
           \A x \in turns[s] : x <= now, ts[s] <= now, dead[s] <= now
    PROVE  Call(s, t)'
<1>1. t.item \in Item
  BY DEF Task
<1>2. /\ ts'[s] = ts[s] /\ dead'[s] = dead[s] /\ pending'[s] = pending[s]
      /\ retry'[s] = retry[s] /\ queue'[s] = queue[s] /\ turns'[s] = turns[s]
      /\ grew'[s] = grew[s]
  BY DEF Same
<1>3. /\ \A r : Behind(s, r) => Behind(s, r)'
      /\ Window(s, t.item) => Window(s, t.item)'
      /\ \A r : GrewAfter(s, r) => GrewAfter(s, r)'
      /\ Unburied(s) => Unburied(s)'
      /\ Accounted(s)' = Accounted(s)
  BY <1>1, SameData
<1>4. Behind(s, t.item.since) => Behind(s, t.item.since)'
  BY <1>3 DEF Behind
<1>5. Behind(s, t.item.at) => Behind(s, t.item.at)'
  BY <1>3 DEF Behind
<1>6. Behind(s, ts[s]) => Behind(s, ts[s])'
  <2>1. PICK r : r = ts[s] /\ ts'[s] = r
    BY <1>2
  <2>2. Behind(s, r) => Behind(s, r)'
    BY <1>3
  <2> QED BY <2>1, <2>2 DEF Behind
<1>7. Behind(s, dead[s]) => Behind(s, dead[s])'
  <2>1. PICK r : r = dead[s] /\ dead'[s] = r
    BY <1>2
  <2>2. Behind(s, r) => Behind(s, r)'
    BY <1>3
  <2> QED BY <2>1, <2>2 DEF Behind
<1>8. Behind(s, now) => Behind(s, now)'
  <2>1. PICK r \in Nat : r = now
    BY Typed
  <2>2. now' \in Nat /\ r <= now'
    BY <2>1, ConstantsAssumption DEF TypeInv, TypeOK, Stamp, Same
  <2>3. \A x \in turns'[s] : x <= r
    BY <1>2, <2>1
  <2>4. /\ \A b \in buried'[s] : b \in Nat
        /\ \A n \in notes'[s] : n.since \in Int
    BY ConstantsAssumption DEF TypeInv, TypeOK, Note, OptStamp, Stamp, Time, None
  <2>5. Behind(s, r) => Behind(s, r)'
    BY <1>3
  <2> QED BY <2>1, <2>2, <2>3, <2>4, <2>5 DEF Behind
<1>9. GrewAfter(s, t.item.at) => GrewAfter(s, t.item.at)'
  BY <1>3 DEF GrewAfter
<1>10. is_queued(s)' = is_queued(s)
  BY <1>2 DEF is_queued
<1>11. Enqueuing(s, t) => Enqueuing(s, t)'
  BY <1>2, <1>3, <1>4 DEF Enqueuing
<1>12. Waving(s, t) => Waving(s, t)'
  BY <1>2, <1>3, <1>6, <1>8, <1>10 DEF Waving
<1>13. Landing(s, t) => Landing(s, t)'
  BY <1>2, <1>3, <1>5, <1>9 DEF Landing
<1>14. Burying(s, t) => Burying(s, t)'
  BY <1>2, <1>3, <1>4, <1>7 DEF Burying
<1>15. Retrying(s, t) => Retrying(s, t)'
  BY <1>2, <1>3, <1>4, <1>9 DEF Retrying
<1> QED BY <1>11, <1>12, <1>13, <1>14, <1>15 DEF Call

LEMMA Frame ==
    ASSUME IInv, IInv', NEW s \in Session, Untouched(s), SessionInv(s)
    PROVE  SessionInv(s)'
<1>0. TypeInv /\ TypeInv' /\ Same(s) /\ s \in Actor /\ task'[s] = task[s]
  BY DEF IInv, Untouched, Actor
<1>1. /\ ts'[s] = ts[s] /\ dead'[s] = dead[s] /\ queue'[s] = queue[s]
      /\ turns'[s] = turns[s] /\ grew'[s] = grew[s] /\ now <= now'
      /\ is_queued(s)' = is_queued(s)
  BY <1>0 DEF Same, is_queued
<1>2. ts'[s] <= now' /\ dead'[s] <= now' /\ \A x \in turns'[s] : x <= now'
  <2>1. now' \in Nat
    BY <1>0, ConstantsAssumption DEF TypeInv, TypeOK, Stamp
  <2> QED BY <1>0, <1>1, <2>1, Typed DEF SessionInv
<1>3. \A a \in Actor : InCall(a, s) \/ InCall(a, s)' => task'[a] = task[a]
  <2> TAKE a \in Actor
  <2>1. CASE a \in Worker
    BY <2>1 DEF Untouched, Engaged, InCall
  <2>2. CASE a \in Session
    <3>1. task[a].sid = a /\ task'[a].sid = a
      BY <2>2 DEF IInv, ProcInv, Wellformed
    <3> QED BY <1>0, <3>1 DEF InCall
  <2> QED BY <2>1, <2>2 DEF Actor
<1>4. \A a \in Actor : InCall(a, s)' <=> InCall(a, s)
  BY <1>3 DEF InCall
<1>5. (\A a \in Actor : ~InCall(a, s)') => AtRest(s)'
  BY <1>0, <1>4, SameRest DEF SessionInv
<1>6. ASSUME NEW a \in Actor, InCall(a, s)' PROVE Call(s, task[a])'
  <2>1. PICK t \in Task : t = task[a] /\ t = task'[a]
    BY <1>0, <1>3, <1>6, TaskTyped
  <2>2. Call(s, t)'
    BY <1>0, <1>4, <1>6, <2>1, SameCall DEF SessionInv
  <2> QED BY <2>1, <2>2
<1>7. Reads(s)'
  <2>1. PICK t \in Task : t = task[s] /\ t = task'[s]
    BY <1>0, TaskTyped
  <2>2. t.item \in Item
    BY <2>1 DEF Task
  <2>3. resume_since(s)' = resume_since(s)
    BY <1>1 DEF resume_since
  <2>4. /\ Window(s, t.item) => Window(s, t.item)'
        /\ \A r : Behind(s, r) => Behind(s, r)'
    BY <1>0, <2>2, SameData
  <2>5. Behind(s, t.item.since) => Behind(s, t.item.since)'
    BY <2>4 DEF Behind
  <2> QED BY <1>1, <2>1, <2>3, <2>4, <2>5 DEF SessionInv, Reads
<1>8. ASSUME NEW w \in Worker PROVE WorkerHas(w, s)'
  <2>1. \/ task'[w] = task[w]
        \/ ~Engaged(w, s) /\ ~Engaged(w, s)'
    BY DEF Untouched
  <2>2. s \in cands'[w] => s \in cands[w]
    BY DEF Untouched
  <2>3. \A e \in batch'[w] : e.sid = s => e \in batch[w]
    BY DEF Untouched
  <2>4. Engaged(w, s)' => Engaged(w, s) /\ task'[w] = task[w]
    BY <2>1 DEF Engaged
  <2>5. task'[w].pc = "distill" /\ task'[w].sid = s => task'[w] = task[w]
    BY <2>4 DEF Engaged
  <2> QED BY <1>0, <1>1, <2>2, <2>3, <2>4, <2>5 DEF SessionInv, WorkerHas, Holds, InBatch
<1> QED BY <1>2, <1>5, <1>6, <1>7, <1>8 DEF SessionInv

-----------------------------------------------------------------------------
(* The steps that leave a session as it is, and its own turns.             *)

\* In a serial deployment one process at most works on the files of a session.
LEMMA OneInCall ==
    ASSUME Serial, IInv, NEW s \in Session, SessionInv(s), NEW a \in Actor, InCall(a, s)
    PROVE  /\ \A b \in Actor : InCall(b, s) => b = a
           /\ a \in Worker => task[s].pc = "idle"
           /\ a \in Session => a = s /\ \A w \in Worker : ~Holds(w, s)
<1>1. \A b \in Actor : InCall(b, s) => b = s \/ (b \in Worker /\ Holds(b, s))
  BY DEF IInv, ProcInv, Wellformed, InCall, Holds, Engaged, Actor
<1>2. \A w \in Worker : Holds(w, s) => task[s].pc = "idle"
  BY DEF SessionInv, WorkerHas
<1>3. InCall(s, s) => task[s].pc # "idle"
  <2>1. s \in Actor
    BY DEF Actor
  <2> QED BY <2>1, NotMarking DEF Marking, InCall, IInv
<1>4. a \in Session => a = s
  BY DEF IInv, ProcInv, Wellformed, InCall
<1>5. s \notin Worker
  BY ConstantsAssumption
<1> QED BY <1>1, <1>2, <1>3, <1>4, <1>5 DEF Serial

LEMMA NobodyInCall ==
    ASSUME IInv, NEW s \in Session, SessionInv(s), task[s].todo = <<>>,
           \A w \in Worker : task[w].todo = <<>> \/ task[w].sid # s
    PROVE  AtRest(s)
<1>1. \A a \in Actor : ~InCall(a, s)
  BY DEF IInv, ProcInv, Wellformed, InCall, Actor
<1> QED BY <1>1 DEF SessionInv

LEMMA TurnData ==
    ASSUME TypeInv, TypeInv', NEW s \in Session, Turn(s), \A x \in turns[s] : x <= now
    PROVE  /\ now' \in Nat /\ now <= now' /\ \A x \in turns'[s] : x <= now'
           /\ \A r \in Int : r <= now => (Behind(s, r) => Behind(s, r)')
           /\ \A i \in Item : Window(s, i) => Window(s, i)'
           /\ \A r \in Int : r <= now => GrewAfter(s, r)'
           /\ Unburied(s) => Unburied(s)'
<1>1. /\ now' = now + 1 /\ turns'[s] = turns[s] \cup {now + 1} /\ grew'[s] = TRUE
      /\ notes' = notes /\ waved' = waved /\ skipped' = skipped /\ buried' = buried
  BY DEF Turn, TypeInv, TypeOK, ghosts
<1>2. now \in Nat /\ \A x \in turns[s] : x \in Nat
  BY Typed
<1>3. Accounted(s)' = Accounted(s)
  BY <1>1 DEF Accounted, Remembered_turns
<1>4. ASSUME NEW r \in Int, r <= now, Behind(s, r) PROVE Behind(s, r)'
  <2>1. \A t \in turns'[s] : t <= r => t \in turns[s]
    BY <1>1, <1>2, <1>4
  <2> QED BY <1>1, <1>3, <1>4, <2>1 DEF Behind
<1>5. ASSUME NEW i \in Item, Window(s, i) PROVE Window(s, i)'
  <2>1. i.at \in Int /\ i.since \in Int
    BY ConstantsAssumption DEF Item, OptStamp, Stamp, None
  <2>2. i.at <= now /\ i.at <= now + 1 /\ ~(now + 1 <= i.at)
    BY <1>2, <1>5, <2>1 DEF Window
  <2>3. {t \in turns'[s] : i.since < t /\ t <= i.at} = {t \in turns[s] : i.since < t /\ t <= i.at}
    BY <1>1, <2>2
  <2> QED BY <1>1, <1>5, <2>2, <2>3 DEF Window, TooShort
<1>6. ASSUME NEW r \in Int, r <= now PROVE GrewAfter(s, r)'
  BY <1>1, <1>2, <1>6 DEF GrewAfter
<1> QED BY <1>1, <1>2, <1>4, <1>5, <1>6 DEF Unburied

\* The session goes on: nothing the queue or a process has settled so far changes.
LEMMA TurnOwn ==
    ASSUME Serial, IInv, IInv', NEW s \in Session, SessionInv(s), Turn(s)
    PROVE  SessionInv(s)'
<1>0. TypeInv /\ TypeInv' /\ s \in Actor
  BY DEF IInv, Actor
<1>1. /\ UNCHANGED <<ts, dead, pending, retry, queue, task, cands, batch>>
      /\ ~TextInHand(s) /\ turns[s] \subseteq turns'[s]
  <2>1. "overlap" \notin Faults
    BY DEF Serial
  <2> QED BY <1>0, <2>1 DEF Turn, disk, tick, TypeInv, TypeOK
<1>2. /\ ts[s] <= now /\ dead[s] <= now /\ \A x \in turns[s] : x <= now
      /\ ts[s] \in Int /\ dead[s] \in Int /\ now \in Nat
      /\ queue[s] \in Item /\ queue[s].since \in Int /\ queue[s].at \in Int
  BY <1>0, Typed DEF SessionInv
<1>3. /\ now' \in Nat /\ now <= now' /\ \A x \in turns'[s] : x <= now'
      /\ \A r \in Int : r <= now => (Behind(s, r) => Behind(s, r)')
      /\ \A i \in Item : Window(s, i) => Window(s, i)'
      /\ \A r \in Int : r <= now => GrewAfter(s, r)'
      /\ Unburied(s) => Unburied(s)'
  BY <1>0, <1>2, TurnData
<1>4. \A a \in Actor : InCall(a, s)' <=> InCall(a, s)
  BY <1>1 DEF InCall
<1>5. ASSUME AtRest(s) PROVE AtRest(s)'
  <2>1. is_queued(s)' = is_queued(s) /\ resume_since(s)' = resume_since(s)
    BY <1>1 DEF is_queued, resume_since
  <2>2. Behind(s, resume_since(s))'
    <3>1. PICK r \in Int : r = resume_since(s) /\ r <= now
      BY <1>2, <1>5 DEF resume_since, AtRest, Window
    <3>2. Behind(s, r)'
      BY <1>3, <1>5, <3>1 DEF AtRest
    <3> QED BY <2>1, <3>1, <3>2 DEF Behind
  <2>3. is_queued(s) => Window(s, queue[s])'
    <3>1. PICK i \in Item : i = queue[s] /\ i = queue'[s]
      BY <1>1, <1>2
    <3> QED BY <1>3, <1>5, <3>1 DEF AtRest, Window
  <2>4. GrewAfter(s, IF is_queued(s) THEN queue[s].at ELSE ts[s])'
    <3>1. PICK r \in Int : r <= now /\ r = IF is_queued(s) THEN queue[s].at ELSE ts[s]
      BY <1>2, <1>5 DEF AtRest, Window
    <3>2. r = (IF is_queued(s) THEN queue[s].at ELSE ts[s])'
      BY <1>1, <2>1, <3>1
    <3> QED BY <1>3, <3>1, <3>2 DEF GrewAfter
  <2> QED BY <1>1, <1>3, <1>5, <2>1, <2>2, <2>3, <2>4 DEF AtRest
<1>6. ASSUME NEW a \in Actor, InCall(a, s) PROVE Call(s, task[a])'
  <2>1. PICK t \in Task : t = task[a] /\ t = task'[a]
    BY <1>0, <1>1, TaskTyped
  <2>2. Call(s, t) /\ t.item \in Item /\ t.item.since \in Int /\ t.item.at \in Int
    BY <1>0, <1>6, <2>1, TaskTyped DEF SessionInv
  <2>3. t.pc \notin {"marking", "offering"}
    BY <1>1, <1>6, <2>1 DEF TextInHand, InCall, HookPc
  <2>4. Landing(s, t) \/ Burying(s, t) \/ Retrying(s, t)
    BY <2>2, <2>3 DEF Call, Enqueuing, Waving
  <2>5. Window(s, t.item) /\ Window(s, t.item)'
    BY <1>3, <2>2, <2>4 DEF Landing, Burying, Retrying
  <2>6. t.item.at <= now /\ t.item.since <= now
    BY <1>2, <2>2, <2>5 DEF Window
  <2>7. /\ Behind(s, t.item.at) => Behind(s, t.item.at)'
        /\ Behind(s, t.item.since) => Behind(s, t.item.since)'
        /\ GrewAfter(s, t.item.at)'
    BY <1>3, <2>2, <2>6
  <2>8. Behind(s, dead[s]) => Behind(s, dead[s])'
    <3>1. PICK r \in Int : r = dead[s] /\ r = dead'[s] /\ r <= now
      BY <1>1, <1>2
    <3> QED BY <1>3, <3>1 DEF Behind
  <2>9. Landing(s, t) => Landing(s, t)'
    BY <1>1, <1>3, <2>5, <2>7 DEF Landing
  <2>10. Burying(s, t) => Burying(s, t)'
    BY <1>1, <1>3, <2>5, <2>7, <2>8 DEF Burying
  <2>11. Retrying(s, t) => Retrying(s, t)'
    BY <1>1, <1>3, <2>5, <2>7 DEF Retrying
  <2>12. Call(s, t)'
    BY <2>4, <2>9, <2>10, <2>11 DEF Call
  <2> QED BY <2>1, <2>12
<1>7. Reads(s)'
  <2>1. task'[s] = task[s] /\ task[s].sid = s
    BY <1>0, <1>1 DEF IInv, ProcInv, Wellformed
  <2>2. task'[s].pc \notin {"resume", "read_done", "extract", "enqueue"}
    BY <1>0, <1>1, <2>1 DEF TextInHand, HookPc
  <2> QED BY <2>2 DEF Reads
<1>8. ASSUME NEW w \in Worker PROVE WorkerHas(w, s)'
  <2>1. WorkerHas(w, s)
    BY DEF SessionInv
  <2>2. task'[w] = task[w] /\ task'[s] = task[s] /\ cands'[w] = cands[w] /\ batch'[w] = batch[w]
    BY <1>1
  <2> QED BY <1>1, <2>1, <2>2 DEF WorkerHas, Holds, Engaged, InBatch, is_queued
<1>9. (\A a \in Actor : ~InCall(a, s)') => AtRest(s)'
  BY <1>4, <1>5 DEF SessionInv
<1>10. ts'[s] <= now' /\ dead'[s] <= now'
  BY <1>1, <1>2, <1>3
<1> QED BY <1>3, <1>4, <1>6, <1>7, <1>8, <1>9, <1>10 DEF SessionInv

LEMMA OtherTurn ==
    ASSUME IInv, IInv', NEW s \in Session, SessionInv(s), NEW r \in Session, r # s,
           Turn(r) \/ Expire(r)
    PROVE  SessionInv(s)'
<1>1. now <= now'
  <2>1. now \in Nat
    BY Typed DEF IInv
  <2>2. CASE Turn(r)
    BY <2>1, <2>2 DEF Turn
  <2>3. CASE Expire(r)
    BY <2>1, <2>3 DEF Expire, transcripts
  <2> QED BY <2>2, <2>3
<1>2. UNCHANGED <<disk, task, tick, notes, ghosts>>
  BY DEF Turn, Expire
<1>3. turns'[s] = turns[s] /\ grew'[s] = grew[s]
  BY DEF Turn, Expire, transcripts, IInv, TypeInv, TypeOK
<1> QED BY <1>1, <1>2, <1>3, Frame DEF Untouched, Same, disk, tick, ghosts

LEMMA ExpireOwn ==
    ASSUME IInv, IInv', NEW s \in Session, SessionInv(s), NEW r \in Session, Expire(r)
    PROVE  SessionInv(s)'
<1>1. now <= now'
  BY Typed DEF Expire, transcripts, IInv
<1>2. UNCHANGED <<disk, task, tick, notes, ghosts, transcripts>>
  BY DEF Expire
<1> QED BY <1>1, <1>2, Frame DEF Untouched, Same, disk, tick, ghosts, transcripts

\* Another session's hook.
LEMMA OtherHook ==
    ASSUME IInv, IInv', NEW s \in Session, SessionInv(s), NEW r \in Session, r # s,
           HookStart(r) \/ Hook(r)
    PROVE  SessionInv(s)'
<1>1. /\ now' = now /\ turns'[s] = turns[s] /\ grew'[s] = grew[s] /\ waved'[s] = waved[s]
  BY DEF HookStart, Hook, HookAutomated, HookResume, HookReadDone, HookExtract, HookEnqueue,
         transcripts, IInv, TypeInv, TypeOK
<1>2. HookUnchanged
  BY DEF HookStart, Hook, HookAutomated, HookResume, HookReadDone, HookExtract, HookEnqueue
<1>3. \E t : Goes(r, t)
  BY DEF HookStart, Hook, HookAutomated, HookResume, HookReadDone, HookExtract, HookEnqueue
<1>4. task'[s] = task[s] /\ \A w \in Worker : task'[w] = task[w]
  BY <1>3, ConstantsAssumption DEF Goes, IInv, TypeInv, TypeOK, Actor
<1>5. now <= now'
  BY <1>1, Typed DEF IInv
<1> QED BY <1>1, <1>2, <1>4, <1>5, Frame
        DEF Untouched, Same, HookUnchanged, disk, tick

-----------------------------------------------------------------------------
(* The hook of the session.                                                *)

\* A step of the hook that leaves the files: what it has to show.
LEMMA HookMoves ==
    ASSUME IInv, IInv', NEW s \in Session, SessionInv(s), NEW t, Goes(s, t),
           UNCHANGED <<now, disk, cands, batch>>, turns'[s] = turns[s],
           \A w \in Worker : ~Holds(w, s),
           t.todo = <<>> => AtRest(s)', t.todo # <<>> => Call(s, t)', Reads(s)'
    PROVE  SessionInv(s)'
<1>0. TypeInv /\ TypeInv' /\ s \in Actor /\ s \notin Worker
  BY ConstantsAssumption DEF IInv, Actor
<1>1. task'[s] = t /\ \A a \in Actor : a # s => task'[a] = task[a]
  BY <1>0 DEF Goes, TypeInv, TypeOK
<1>2. t.sid = s
  BY <1>0, <1>1 DEF IInv, ProcInv, Wellformed
<1>3. \A a \in Actor : a # s => ~InCall(a, s)'
  <2> TAKE a \in Actor
  <2>1. CASE a \in Worker
    BY <1>1, <1>0, <2>1 DEF InCall, Holds, Engaged
  <2>2. CASE a \in Session
    BY <2>2 DEF IInv, ProcInv, Wellformed, InCall
  <2> QED BY <2>1, <2>2 DEF Actor
<1>4. InCall(s, s)' <=> t.todo # <<>>
  BY <1>1, <1>2 DEF InCall
<1>5. (\A a \in Actor : ~InCall(a, s)') => AtRest(s)'
  BY <1>0, <1>4
<1>6. \A a \in Actor : InCall(a, s)' => Call(s, task[a])'
  BY <1>1, <1>3, <1>4
<1>7. \A w \in Worker : WorkerHas(w, s)'
  <2> TAKE w \in Worker
  <2>1. task'[w] = task[w] /\ cands'[w] = cands[w] /\ batch'[w] = batch[w]
    BY <1>0, <1>1 DEF Actor
  <2>2. ~Holds(w, s)'
    BY <2>1 DEF Holds, Engaged, InBatch
  <2> QED BY <2>2 DEF WorkerHas, Holds, Engaged, InBatch
<1>8. ts'[s] <= now' /\ dead'[s] <= now' /\ \A x \in turns'[s] : x <= now'
  BY DEF SessionInv, disk
<1> QED BY <1>5, <1>6, <1>7, <1>8 DEF SessionInv

\* While the hook runs, no worker has its session.
LEMMA HookAlone ==
    ASSUME NEW s \in Session, SessionInv(s), task[s].pc # "idle"
    PROVE  \A w \in Worker : ~Holds(w, s)
BY DEF SessionInv, WorkerHas

LEMMA HookBetweenCalls ==
    ASSUME IInv, NEW s \in Session, SessionInv(s), task[s].pc \in Reading
    PROVE  /\ AtRest(s) /\ \A w \in Worker : ~Holds(w, s)
           /\ task[s].item.text # {} /\ s \in Actor /\ TypeInv
<1>1. s \in Actor /\ TypeInv
  BY DEF Actor, IInv
<1>2. task[s].todo = <<>>
  BY <1>1, NotMarking DEF Marking, Reading, IInv
<1>3. \A w \in Worker : ~Holds(w, s)
  BY HookAlone DEF Reading
<1>4. AtRest(s)
  BY <1>2, <1>3, NobodyInCall DEF Holds, Engaged
<1> QED BY <1>1, <1>3, <1>4 DEF IInv, ProcInv, Wellformed

LEMMA StartOwn ==
    ASSUME Serial, IInv, IInv', NEW s \in Session, SessionInv(s), HookStart(s)
    PROVE  SessionInv(s)'
<1> DEFINE item == [text |-> turns[s], since |-> None, at |-> None]
           pc == IF s \in Codex THEN "extract" ELSE "resume"
<1>1. PICK t : t = Holding(pc, s, item)
  OBVIOUS
<1>2. /\ Goes(s, t) /\ UNCHANGED <<transcripts, disk, tick, notes, ghosts>> /\ grew[s]
      /\ task[s].pc = "idle" /\ WorkersOn(s) = {}
  BY <1>1 DEF HookStart, HookUnchanged, Serial, ghosts
<1>3. s \in Actor /\ TypeInv /\ TypeInv'
  BY DEF Actor, IInv
<1>4. \A w \in Worker : ~Holds(w, s)
  <2> TAKE w \in Worker
  <2>1. w \in Actor
    BY DEF Actor
  <2>2. task[w].todo # <<>> => task[w].pc # "idle"
    BY <2>1, NotMarking DEF Marking, IInv
  <2> QED BY <1>2, <2>2 DEF WorkersOn, Holds, Engaged, InBatch
<1>5. AtRest(s)'
  <2>1. task[s].todo = <<>>
    BY <1>2, <1>3, NotMarking DEF Marking, IInv
  <2>2. AtRest(s)
    BY <1>4, <2>1, NobodyInCall DEF Holds, Engaged
  <2>3. Same(s)
    <3>1. now <= now
      BY <1>3, Typed
    <3> QED BY <1>2, <3>1 DEF Same, transcripts, disk, ghosts
  <2> QED BY <1>3, <2>2, <2>3, SameRest
<1>6. Reads(s)'
  <2>1. task'[s] = t /\ t.pc = pc /\ t.item = item
    BY <1>1, <1>2, <1>3 DEF Goes, TypeInv, TypeOK, Holding, Calling
  <2> QED BY <1>2, <2>1 DEF Reads, transcripts
<1>7. t.todo = <<>>
  BY <1>1 DEF Holding, Calling
<1> QED BY <1>2, <1>4, <1>5, <1>6, <1>7, HookMoves DEF transcripts, tick

LEMMA ResumeOwn ==
    ASSUME IInv, IInv', NEW s \in Session, SessionInv(s), HookResume(s) \/ HookReadDone(s)
    PROVE  SessionInv(s)'
<1> DEFINE since == IF HookResume(s) THEN (IF dead[s] # None THEN dead[s] ELSE queue[s].since)
                    ELSE ts[s]
           pc == IF HookResume(s) /\ dead[s] = None /\ ~is_queued(s) THEN "read_done" ELSE "extract"
           item == [task[s].item EXCEPT !.since = since]
<1>1. PICK t : t = Holding(pc, s, item)
  OBVIOUS
<1>2. Goes(s, t)
  <2>1. CASE HookResume(s)
    BY <1>1, <2>1 DEF HookResume, queued_since
  <2>2. CASE ~HookResume(s)
    BY <1>1, <2>2 DEF HookReadDone
  <2> QED BY <2>1, <2>2
<1>3. /\ UNCHANGED <<transcripts, disk, tick, notes, ghosts>>
      /\ task[s].pc \in {"resume", "read_done"} /\ task[s].pc \in Reading
      /\ HookResume(s) \/ task[s].pc = "read_done"
  BY DEF HookResume, HookReadDone, HookUnchanged, ghosts, Reading
<1>4. /\ AtRest(s) /\ \A w \in Worker : ~Holds(w, s)
      /\ s \in Actor /\ TypeInv /\ TypeInv'
  BY <1>3, HookBetweenCalls DEF IInv
<1>5. AtRest(s)'
  <2>1. Same(s)
    <3>1. now <= now
      BY <1>4, Typed
    <3> QED BY <1>3, <3>1 DEF Same, transcripts, disk, ghosts
  <2> QED BY <1>4, <2>1, SameRest
<1>6. /\ task'[s] = t /\ t.pc = pc /\ t.item.text = task[s].item.text /\ t.item.since = since
      /\ t.todo = <<>>
  <2>1. task[s].item \in Item
    BY <1>4, TaskTyped
  <2> QED BY <1>1, <1>2, <1>4, <2>1 DEF Goes, TypeInv, TypeOK, Holding, Calling, Item
<1>7. s \notin Codex /\ task[s].item.text = turns[s] /\ grew[s]
  BY <1>3 DEF SessionInv, Reads
<1>8. pc = "extract" => since = resume_since(s)
  <2>1. CASE HookResume(s)
    BY <2>1 DEF resume_since
  <2>2. CASE ~HookResume(s)
    BY <1>3, <2>2 DEF SessionInv, Reads, resume_since
  <2> QED BY <2>1, <2>2
<1>9. Reads(s)'
  <2>1. resume_since(s)' = resume_since(s) /\ is_queued(s)' = is_queued(s) /\ dead'[s] = dead[s]
    BY <1>3 DEF resume_since, is_queued, disk
  <2>2. turns'[s] = turns[s] /\ grew'[s] = grew[s]
    BY <1>3 DEF transcripts
  <2>3. pc = "read_done" => dead[s] = None /\ ~is_queued(s)
    OBVIOUS
  <2>4. pc \in {"read_done", "extract"}
    OBVIOUS
  <2> HIDE DEF pc, since
  <2> QED BY <1>6, <1>7, <1>8, <2>1, <2>2, <2>3, <2>4 DEF Reads
<1> QED BY <1>2, <1>3, <1>4, <1>5, <1>6, <1>9, HookMoves DEF transcripts, tick

LEMMA TurnsFinite ==
    ASSUME TypeInv, NEW s \in Session, NEW S \in SUBSET Time
    PROVE  /\ IsFiniteSet(S) /\ Cardinality(S) \in Nat
           /\ \A T \in SUBSET S : Cardinality(T) <= Cardinality(S)
<1>1. IsFiniteSet(Time)
  BY FS_Interval, ConstantsAssumption DEF Time
<1>2. IsFiniteSet(S) /\ Cardinality(S) \in Nat
  BY <1>1, FS_Subset, FS_CardinalityType
<1> QED BY <1>2, FS_Subset

\* A text that holds a queued one is no shorter.
LEMMA QueuedIsLong ==
    ASSUME TypeInv, NEW s \in Session, is_queued(s), AtRest(s),
           NEW text \in SUBSET Time, queue[s].text \subseteq text
    PROVE  ~TooShort(s, text)
<1>1. ~TooShort(s, queue[s].text)
  BY DEF AtRest, Window
<1>2. queue[s].text \in SUBSET Time
  BY Typed DEF Item
<1>3. /\ Cardinality(queue[s].text) \in Nat /\ Cardinality(text) \in Nat
      /\ Cardinality(queue[s].text) <= Cardinality(text)
  BY <1>2, TurnsFinite
<1> QED BY <1>1, <1>3 DEF TooShort

\* What the hook sends: the turns after the point where memory ends, or all of them.
LEMMA ExtractOwn ==
    ASSUME IInv, IInv', NEW s \in Ours, SessionInv(s), HookExtract(s)
    PROVE  SessionInv(s)'
<1>0. s \in Session /\ TypeInv /\ TypeInv' /\ s \in Actor
  BY DEF Ours, IInv, Actor
<1>1. PICK since : since = task[s].item.since
  OBVIOUS
<1>2. PICK tail : tail = IF since = None THEN {} ELSE After(turns[s], since)
  OBVIOUS
<1>3. PICK useTail : useTail = (tail # {} /\ (dead[s] = None \/ tail \cap byUser # {}))
  OBVIOUS
<1>4. PICK text : text = IF useTail THEN tail ELSE task[s].item.text
  OBVIOUS
<1>5. PICK item : item = [text |-> text, at |-> now, since |-> IF useTail THEN since ELSE None]
  OBVIOUS
<1>6. /\ task[s].pc = "extract" /\ grew' = [grew EXCEPT ![s] = FALSE]
      /\ \/ ~TooShort(s, text) /\ Goes(s, Holding("enqueue", s, item)) /\ UNCHANGED waved
         \/ /\ TooShort(s, text) /\ Goes(s, Calling("marking", s, NoItem, 0, mark_done))
            /\ waved' = [waved EXCEPT ![s] = @ \cup text]
         \/ TooShort(s, text) /\ Goes(s, Idle(s)) /\ UNCHANGED waved
         \/ /\ TooShort(s, text) /\ s \in Codex
            /\ waved' = [waved EXCEPT ![s] = @ \cup text]
      /\ UNCHANGED <<now, turns, byUser>> /\ HookUnchanged
  BY <1>1, <1>2, <1>3, <1>4, <1>5 DEF HookExtract
<1>7. /\ AtRest(s) /\ \A w \in Worker : ~Holds(w, s)
      /\ task[s].item.text # {}
  <2>1. task[s].pc \in Reading
    BY <1>6 DEF Reading
  <2> QED BY <1>0, <2>1, HookBetweenCalls
<1>8. /\ task[s].item.text = turns[s] /\ grew[s]
      /\ since = IF s \in Codex THEN None ELSE resume_since(s)
  BY <1>1, <1>6 DEF SessionInv, Reads
<1>9. /\ since \in Int /\ since >= None /\ now \in Nat
      /\ \A x \in turns[s] : x \in Nat /\ x > 0 /\ x <= now
      /\ ts[s] \in Int /\ dead[s] \in Int /\ ts[s] <= now /\ dead[s] <= now
      /\ queue[s].since \in Int /\ queue[s].at \in Int
  BY <1>0, <1>1, Typed, TaskTyped DEF SessionInv
<1>10. turns[s] \in SUBSET Time /\ text \in SUBSET Time /\ text \subseteq turns[s] /\ text # {}
  <2>1. turns[s] \in SUBSET Time
    BY <1>0 DEF TypeInv, TypeOK
  <2>2. tail \subseteq turns[s]
    BY <1>2 DEF After
  <2> QED BY <1>3, <1>4, <1>7, <1>8, <2>1, <2>2
<1>11. /\ UNCHANGED <<now, turns, disk, cands, batch, notes, skipped, buried>>
       /\ grew'[s] = FALSE
  BY <1>0, <1>6 DEF HookUnchanged, tick, TypeInv, TypeOK
<1>12. AtRest(s)'
  <2>1. Accounted(s) \subseteq Accounted(s)'
    <3>1. waved[s] \subseteq waved'[s]
      BY <1>0, <1>6 DEF TypeInv, TypeOK
    <3> QED BY <1>11, <3>1 DEF Accounted, Remembered_turns, TypeInv, TypeOK
  <2>2. /\ resume_since(s)' = resume_since(s) /\ is_queued(s)' = is_queued(s)
        /\ ts'[s] = ts[s] /\ dead'[s] = dead[s] /\ pending'[s] = pending[s]
        /\ retry'[s] = retry[s] /\ queue'[s] = queue[s]
    BY <1>11 DEF resume_since, is_queued, disk
  <2>3. Behind(s, resume_since(s))'
    BY <1>7, <1>11, <2>1, <2>2 DEF AtRest, Behind
  <2>4. is_queued(s) => Window(s, queue[s])'
    BY <1>7, <1>11, <2>2 DEF AtRest, Window, TooShort
  <2>5. GrewAfter(s, IF is_queued(s) THEN queue[s].at ELSE ts[s])'
    BY <1>11 DEF GrewAfter
  <2>6. Unburied(s) => Unburied(s)'
    BY <1>11 DEF Unburied
  <2> QED BY <1>7, <2>2, <2>3, <2>4, <2>5, <2>6 DEF AtRest
<1>13. ASSUME NEW t, Goes(s, t), t.todo = <<>>, Reads(s)' PROVE SessionInv(s)'
  BY <1>0, <1>7, <1>11, <1>12, <1>13, HookMoves
<1>14. CASE ~TooShort(s, text) /\ Goes(s, Holding("enqueue", s, item))
  <2>1. PICK t : t = Holding("enqueue", s, item)
    OBVIOUS
  <2>2. t.todo = <<>> /\ t.pc = "enqueue" /\ t.item = item /\ Goes(s, t)
    BY <1>14, <2>1 DEF Holding, Calling
  <2>3. task'[s] = t
    BY <1>0, <2>2 DEF Goes, TypeInv, TypeOK
  <2>4. item.text = text /\ item.at = now /\ item.since = IF useTail THEN since ELSE None
    BY <1>5
  <2>5. Window(s, item)'
    <3>1. item.since < now
      <4>1. CASE useTail
        <5>1. PICK x \in turns[s] : x > since
          BY <1>2, <1>3, <4>1 DEF After
        <5> QED BY <1>9, <2>4, <4>1, <5>1
      <4>2. CASE ~useTail
        BY <1>9, <2>4, <4>2 DEF None
      <4> QED BY <4>1, <4>2
    <3>2. text = {x \in turns[s] : item.since < x /\ x <= now}
      <4>1. CASE useTail
        <5>1. text = After(turns[s], since)
          BY <1>2, <1>3, <1>4, <4>1
        <5> QED BY <1>9, <2>4, <4>1, <5>1 DEF After
      <4>2. CASE ~useTail
        BY <1>4, <1>8, <1>9, <2>4, <4>2 DEF None
      <4> QED BY <4>1, <4>2
    <3> QED BY <1>9, <1>10, <1>11, <1>14, <2>4, <3>1, <3>2 DEF Window, TooShort
  <2>6. s \in Codex => item.since = None
    BY <1>2, <1>3, <1>8, <2>4
  <2>7. dead[s] = None \/ item.since # None => Behind(s, item.since)
    <3>1. CASE useTail
      <4>1. s \notin Codex
        BY <1>2, <1>3, <1>8, <3>1
      <4> QED BY <1>7, <1>8, <2>4, <3>1, <4>1 DEF AtRest, Behind
    <3>2. CASE ~useTail
      <4> SUFFICES ASSUME dead[s] = None PROVE Behind(s, None)
        BY <2>4, <3>2
      <4>1. CASE s \in Codex
        BY <1>7, <4>1 DEF AtRest, Unburied, Behind
      <4>2. CASE s \notin Codex
        <5>1. PICK x \in turns[s] : x > IF is_queued(s) THEN queue[s].at ELSE ts[s]
          BY <1>7, <1>8 DEF AtRest, GrewAfter
        <5>2. x > since
          <6>1. CASE is_queued(s)
            <7>1. queue[s].since < queue[s].at /\ since = queue[s].since
              BY <1>7, <1>8, <4>2, <6>1 DEF AtRest, Window, resume_since
            <7> QED BY <1>9, <5>1, <6>1, <7>1
          <6>2. CASE ~is_queued(s)
            BY <1>8, <4>2, <5>1, <6>2 DEF resume_since
          <6> QED BY <6>1, <6>2
        <5>3. since = None
          BY <1>2, <1>3, <3>2, <5>2 DEF After
        <5> QED BY <1>7, <1>8, <4>2, <5>3 DEF AtRest
      <4> QED BY <4>1, <4>2
    <3> QED BY <3>1, <3>2
  <2>8. dead'[s] = None \/ item.since # None => Behind(s, item.since)'
    <3>1. Accounted(s)' = Accounted(s) /\ dead'[s] = dead[s]
      <4>1. waved' = waved
        BY <1>6, <1>14
      <4> QED BY <1>11, <4>1 DEF Accounted, Remembered_turns, disk
    <3>2. Behind(s, item.since) => Behind(s, item.since)'
      BY <1>11, <3>1 DEF Behind
    <3> QED BY <2>7, <3>1, <3>2
  <2>9. Reads(s)'
    BY <1>11, <2>2, <2>3, <2>5, <2>6, <2>8 DEF Reads
  <2> QED BY <1>13, <2>2, <2>9
<1>15. CASE TooShort(s, text) /\ Goes(s, Idle(s))
  <2>1. PICK t : t = Idle(s)
    OBVIOUS
  <2>2. t.todo = <<>> /\ t.pc = "idle" /\ Goes(s, t)
    BY <1>15, <2>1 DEF Idle, Holding, Calling
  <2>3. task'[s] = t
    BY <1>0, <2>2 DEF Goes, TypeInv, TypeOK
  <2> QED BY <1>13, <2>2, <2>3 DEF Reads
<1>16. CASE /\ TooShort(s, text) /\ Goes(s, Calling("marking", s, NoItem, 0, mark_done))
            /\ waved' = [waved EXCEPT ![s] = @ \cup text]
  <2>1. PICK t : t = Calling("marking", s, NoItem, 0, mark_done)
    OBVIOUS
  <2>2. t.todo = mark_done /\ t.pc = "marking" /\ Goes(s, t) /\ mark_done # <<>>
    BY <1>16, <2>1, ListsAre DEF Calling
  <2>3. task'[s] = t
    BY <1>0, <2>2 DEF Goes, TypeInv, TypeOK
  <2>4. s \notin Codex
    BY <1>16 DEF TooShort, Ours
  <2>5. ~is_queued(s)
    <3> SUFFICES ASSUME is_queued(s) PROVE FALSE
      OBVIOUS
    <3>1. dead[s] = None /\ since = queue[s].since
      BY <1>7, <1>8, <2>4 DEF AtRest, resume_since
    <3>2. queue[s].text \subseteq text
      <4>1. queue[s].text \subseteq turns[s] /\ \A x \in queue[s].text : x > since
        BY <1>7, <1>9, <3>1 DEF AtRest, Window
      <4> QED BY <1>2, <1>3, <1>4, <1>8, <3>1, <4>1 DEF After
    <3> QED BY <1>0, <1>7, <1>10, <1>16, <3>2, QueuedIsLong
  <2>6. Behind(s, since)
    BY <1>7, <1>8, <2>4 DEF AtRest
  <2>7. turns[s] \subseteq Accounted(s)'
    <3>1. Accounted(s) \cup text \subseteq Accounted(s)'
      BY <1>0, <1>11, <1>16 DEF Accounted, Remembered_turns, TypeInv, TypeOK
    <3>2. CASE useTail
      <4>1. \A x \in turns[s] : x \in text \/ x <= since
        <5>1. text = After(turns[s], since)
          BY <1>2, <1>3, <1>4, <3>2
        <5> QED BY <1>9, <5>1 DEF After
      <4> QED BY <2>4, <2>6, <3>1, <4>1 DEF Behind
    <3>3. CASE ~useTail
      BY <1>4, <1>8, <3>1, <3>3
    <3> QED BY <3>2, <3>3
  <2>8. Behind(s, now)'
    <3>1. since <= now
      <4>1. is_queued(s) => queue[s].since < queue[s].at /\ queue[s].at <= now
        BY <1>7 DEF AtRest, Window
      <4> QED BY <1>8, <1>9, <2>4, <4>1 DEF resume_since
    <3>2. /\ \A b \in buried[s] : b <= now
          /\ \A n \in notes[s] : n.since < now
      <4>1. (\A b \in buried[s] : b \in Nat) /\ \A n \in notes[s] : n.since \in Int
        BY <1>0, Typed
      <4> QED BY <1>9, <2>4, <2>6, <3>1, <4>1 DEF Behind
    <3> QED BY <1>11, <2>7, <3>2 DEF Behind
  <2>9. is_queued(s)' = is_queued(s)
    BY <1>11 DEF is_queued, disk
  <2>10. Waving(s, t)'
    <3>1. mark_done \in done_todo /\ mark_done \notin {<<"rm_retry", "rm_dead">>, <<"rm_dead">>}
      BY ListsAre DEF done_todo
    <3> QED BY <1>11, <2>2, <2>4, <2>5, <2>7, <2>8, <2>9, <3>1 DEF Waving
  <2>11. Reads(s)'
    BY <2>2, <2>3 DEF Reads
  <2> QED BY <1>0, <1>7, <1>11, <2>2, <2>10, <2>11, HookMoves DEF Call
<1>17. ~(TooShort(s, text) /\ s \in Codex)
  BY DEF TooShort, Ours
<1> QED BY <1>6, <1>14, <1>15, <1>16, <1>17

LEMMA EnqueueOwn ==
    ASSUME IInv, IInv', NEW s \in Session, SessionInv(s), HookEnqueue(s)
    PROVE  SessionInv(s)'
<1>0. TypeInv /\ TypeInv' /\ s \in Actor
  BY DEF IInv, Actor
<1>1. /\ UNCHANGED <<transcripts, disk, tick, notes, ghosts>> /\ task[s].pc = "enqueue"
  BY DEF HookEnqueue, HookUnchanged, ghosts
<1>2. AtRest(s) /\ \A w \in Worker : ~Holds(w, s)
  <2>1. task[s].pc \in Reading
    BY <1>1 DEF Reading
  <2> QED BY <2>1, HookBetweenCalls
<1>3. Same(s)
  <2>1. now <= now
    BY <1>0, Typed
  <2> QED BY <1>1, <2>1 DEF Same, transcripts, disk, ghosts
<1>4. PICK i \in Item : i = task[s].item
  BY <1>0, TaskTyped
<1>5. /\ ~grew[s] /\ Window(s, i)
      /\ s \in Codex => i.since = None
      /\ dead[s] = None \/ i.since # None => Behind(s, i.since)
  BY <1>1, <1>4 DEF SessionInv, Reads
<1>6. CASE dead[s] # None /\ i.since = None
  <2>1. PICK t : t = Idle(s)
    OBVIOUS
  <2>2. t.todo = <<>> /\ t.pc = "idle" /\ Goes(s, t)
    BY <1>4, <1>6, <2>1 DEF Idle, Holding, Calling, HookEnqueue
  <2>3. task'[s] = t
    BY <1>0, <2>2 DEF Goes, TypeInv, TypeOK
  <2>4. AtRest(s)'
    BY <1>0, <1>2, <1>3, SameRest
  <2>5. Reads(s)'
    BY <2>2, <2>3 DEF Reads
  <2> QED BY <1>1, <1>2, <2>2, <2>4, <2>5, HookMoves DEF transcripts, tick
<1>7. CASE ~(dead[s] # None /\ i.since = None)
  <2>1. PICK t : t = Calling("marking", s, i, 0, enqueue)
    OBVIOUS
  <2>2. /\ t.todo = enqueue /\ t.pc = "marking" /\ t.item = i /\ enqueue # <<>>
        /\ Goes(s, t)
    BY <1>4, <1>7, <2>1, ListsAre DEF Calling, HookEnqueue
  <2>3. task'[s] = t
    BY <1>0, <2>2 DEF Goes, TypeInv, TypeOK
  <2>4. Enqueuing(s, t)
    <3>1. Unburied(s)
      BY <1>2, <1>5, <1>7 DEF AtRest, Unburied
    <3>2. /\ enqueue \in enqueue_todo
          /\ enqueue \notin {<<"rm_ts", "rm_dead">>, <<"rm_dead">>} /\ enqueue # <<"rm_dead">>
      BY ListsAre DEF enqueue_todo
    <3> QED BY <1>5, <1>7, <2>2, <3>1, <3>2 DEF Enqueuing
  <2>5. t \in Task
    BY <1>0, <2>3, TaskTyped DEF TypeInv, TypeOK
  <2>6. Call(s, t)'
    BY <1>0, <1>3, <2>4, <2>5, SameCall DEF Call, SessionInv
  <2>7. Reads(s)'
    BY <2>2, <2>3 DEF Reads
  <2> QED BY <1>1, <1>2, <2>2, <2>6, <2>7, HookMoves DEF transcripts, tick
<1> QED BY <1>6, <1>7

LEMMA HookOwn ==
    ASSUME Serial, IInv, IInv', NEW s \in Ours, SessionInv(s), HookStart(s) \/ Hook(s)
    PROVE  SessionInv(s)'
<1>1. s \in Session /\ ~HookAutomated(s)
  BY DEF Ours, HookAutomated, Serial
<1> QED BY <1>1, StartOwn, ResumeOwn, ExtractOwn, EnqueueOwn DEF Hook

-----------------------------------------------------------------------------
(* The worker.                                                             *)

\* The session's part of a step of worker w that changes its variables to t.
Aside(w, s, t) ==
    /\ Same(s) /\ Goes(w, t) /\ ~Engaged(w, s)
    /\ t.sid # s \/ (t.todo = <<>> /\ t.pc # "distill")
    /\ s \in cands'[w] => s \in cands[w]
    /\ \A e \in batch'[w] : e.sid = s => e \in batch[w]
    /\ \A v \in Worker : v # w => cands'[v] = cands[v] /\ batch'[v] = batch[v]

LEMMA WorkerAside ==
    ASSUME IInv, IInv', NEW s \in Session, SessionInv(s), NEW w \in Worker, NEW t,
           Aside(w, s, t)
    PROVE  SessionInv(s)'
<1>1. w \in Actor /\ w # s
  BY ConstantsAssumption DEF Actor
<1>2. task'[w] = t /\ \A a \in Actor : a # w => task'[a] = task[a]
  BY <1>1 DEF Aside, Goes, IInv, TypeInv, TypeOK
<1>3. ~Engaged(w, s)'
  BY <1>2 DEF Aside, Engaged
<1>4. \A v \in Worker : task'[v] = task[v] \/ (~Engaged(v, s) /\ ~Engaged(v, s)')
  BY <1>2, <1>3 DEF Aside, Actor
<1>5. task'[s] = task[s]
  BY <1>1, <1>2 DEF Actor
<1> QED BY <1>4, <1>5, Frame DEF Untouched, Aside

\* A step of the worker on the session itself: what it has to show.
LEMMA WorkerMoves ==
    ASSUME Serial, IInv, IInv', NEW s \in Session, SessionInv(s), NEW w \in Worker, NEW t,
           Goes(w, t), task[s].pc = "idle", UNCHANGED <<now, turns, disk>>,
           t.todo # <<>> => t.sid = s,
           t.todo = <<>> => AtRest(s)', t.todo # <<>> => Call(s, t)', WorkerHas(w, s)'
    PROVE  SessionInv(s)'
<1>0. w \in Actor /\ w # s /\ s \in Actor /\ TypeInv /\ TypeInv'
  BY ConstantsAssumption DEF Actor, IInv
<1>1. task'[w] = t /\ \A a \in Actor : a # w => task'[a] = task[a]
  BY <1>0 DEF Goes, TypeInv, TypeOK
<1>2. \A a \in Actor : a # w => ~InCall(a, s)'
  <2> SUFFICES ASSUME NEW a \in Actor, a # w, InCall(a, s)' PROVE FALSE
    OBVIOUS
  <2>1. a = s
    BY DEF Serial, Actor, IInv, ProcInv, Wellformed, InCall
  <2>2. task[s].todo = <<>>
    BY <1>0, NotMarking DEF Marking, IInv
  <2> QED BY <1>0, <1>1, <2>1, <2>2 DEF InCall
<1>3. InCall(w, s)' <=> t.todo # <<>>
  BY <1>1 DEF InCall
<1>4. (\A a \in Actor : ~InCall(a, s)') => AtRest(s)'
  BY <1>0, <1>3
<1>5. \A a \in Actor : InCall(a, s)' => Call(s, task[a])'
  BY <1>1, <1>2, <1>3
<1>6. Reads(s)'
  BY <1>0, <1>1 DEF Reads
<1>7. \A v \in Worker : WorkerHas(v, s)'
  BY DEF Serial
<1>8. ts'[s] <= now' /\ dead'[s] <= now' /\ \A x \in turns'[s] : x <= now'
  BY DEF SessionInv, disk
<1> QED BY <1>4, <1>5, <1>6, <1>7, <1>8 DEF SessionInv

\* Between two calls of the worker, a session whose hook does not run is at rest.
LEMMA WorkerBetweenCalls ==
    ASSUME Serial, IInv, NEW s \in Session, SessionInv(s), NEW w \in Worker,
           task[w].pc \notin Marking, task[s].pc = "idle"
    PROVE  AtRest(s) /\ task[w].todo = <<>>
<1>1. task[w].todo = <<>> /\ task[s].todo = <<>>
  BY NotMarking DEF Marking, IInv, Actor
<1>2. \A v \in Worker : task[v].todo = <<>>
  BY <1>1 DEF Serial
<1> QED BY <1>1, <1>2, NobodyInCall

LEMMA SameWhen ==
    ASSUME TypeInv, NEW s \in Session, UNCHANGED <<now, turns, ts, pending, retry, dead, queue,
                                                  buried>>,
           grew'[s] = grew[s], notes'[s] = notes[s], waved'[s] = waved[s],
           skipped'[s] = skipped[s]
    PROVE  Same(s)
<1>1. now <= now
  BY Typed
<1> QED BY <1>1 DEF Same

\* The moves of a tick that take nothing up.
LEMMA IdleMovesOwn ==
    ASSUME IInv, IInv', NEW s \in Session, SessionInv(s), NEW w \in Worker,
           WorkerDrainOnly(w) \/ WorkerOffered(w) \/ WorkerDefer(w) \/ WorkerDone(w)
    PROVE  SessionInv(s)'
<1>0. TypeInv /\ w \in Actor
  BY DEF IInv, Actor
<1>1. /\ UNCHANGED <<transcripts, disk, notes, ghosts, batch>>
      /\ \A v \in Worker : cands'[v] = cands[v] \/ (v = w /\ cands'[v] = {})
      /\ task[w].pc \in {"idle", "offer", "drain", "next"}
  BY <1>0 DEF WorkerDrainOnly, WorkerOffered, WorkerDefer, WorkerDone, WorkerUnchanged, tick,
     ghosts, TypeInv, TypeOK
<1>2. PICK t : Goes(w, t) /\ t.todo = <<>> /\ t.pc # "distill"
  BY DEF WorkerDrainOnly, WorkerOffered, WorkerDefer, WorkerDone, Idle, Holding, Calling
<1>3. ~Engaged(w, s)
  BY <1>0, <1>1, NotMarking DEF Marking, Engaged, IInv
<1>4. Same(s)
  BY <1>0, <1>1, SameWhen DEF transcripts, disk, ghosts
<1> QED BY <1>1, <1>2, <1>3, <1>4, WorkerAside DEF Aside

\* The scan: only sessions that nobody works on become candidates.
LEMMA TickOwn ==
    ASSUME Serial, IInv, IInv', NEW s \in Session, SessionInv(s), NEW w \in Worker, WorkerTick(w)
    PROVE  SessionInv(s)'
<1>0. TypeInv /\ TypeInv' /\ w \in Actor
  BY DEF IInv, Actor
<1>1. PICK t : t = Holding("offer", Home(w), NoItem)
  OBVIOUS
<1>2. /\ Goes(w, t) /\ t.todo = <<>> /\ t.pc = "offer"
      /\ UNCHANGED <<transcripts, disk, notes, ghosts, batch>>
      /\ cands' = [cands EXCEPT ![w] = {r \in Session : _eligible(r)}]
      /\ task[w].pc = "idle" /\ task[s].pc = "idle"
  BY <1>1 DEF WorkerTick, WorkerUnchanged, ghosts, Holding, Calling, HooksKeepOff, Serial
<1>3. AtRest(s) /\ task[w].todo = <<>>
  BY <1>2, WorkerBetweenCalls DEF Marking
<1>4. Same(s)
  BY <1>0, <1>2, SameWhen DEF transcripts, disk, ghosts
<1>5. AtRest(s)'
  BY <1>0, <1>3, <1>4, SameRest
<1>6. WorkerHas(w, s)'
  <2>1. task'[w] = t /\ task'[s] = task[s]
    <3>1. s \in Actor /\ s # w
      BY ConstantsAssumption DEF Actor
    <3> QED BY <1>0, <1>2, <3>1 DEF Goes, TypeInv, TypeOK
  <2>2. cands'[w] = {r \in Session : _eligible(r)}
    BY <1>0, <1>2 DEF TypeInv, TypeOK
  <2>3. s \in cands'[w] => ~is_queued(s) /\ ts[s] = None /\ dead[s] = None /\ turns[s] # {}
    BY <2>2 DEF _eligible
  <2>4. WorkerHas(w, s)
    BY DEF SessionInv
  <2>5. ~Engaged(w, s)'
    BY <1>2, <2>1 DEF Engaged
  <2>6. is_queued(s)' = is_queued(s) /\ ts'[s] = ts[s] /\ dead'[s] = dead[s]
        /\ turns'[s] = turns[s] /\ queue'[s] = queue[s] /\ batch' = batch
    BY <1>2 DEF is_queued, disk, transcripts
  <2> QED BY <1>2, <2>1, <2>3, <2>4, <2>5, <2>6 DEF WorkerHas
<1> QED BY <1>2, <1>3, <1>5, <1>6, WorkerMoves DEF transcripts

\* The drain takes items as they are in the queue, while no hook runs.
LEMMA DrainOwn ==
    ASSUME Serial, IInv, IInv', NEW s \in Session, SessionInv(s), NEW w \in Worker, WorkerDrain(w)
    PROVE  SessionInv(s)'
<1>0. TypeInv /\ TypeInv' /\ w \in Actor
  BY DEF IInv, Actor
<1>1. PICK t : t = Holding("next", Home(w), NoItem)
  OBVIOUS
<1>2. PICK chosen \in SUBSET Session :
         /\ IsDrain(chosen)
         /\ batch' = [batch EXCEPT ![w] = {[sid |-> r, item |-> queue[r]] : r \in chosen}]
  BY DEF WorkerDrain
<1>3. /\ Goes(w, t) /\ t.todo = <<>> /\ t.pc = "next"
      /\ UNCHANGED <<transcripts, disk, notes, ghosts, cands>>
      /\ task[w].pc = "drain" /\ task[s].pc = "idle"
  BY <1>1 DEF WorkerDrain, WorkerUnchanged, ghosts, Holding, Calling, HooksKeepOff, Serial
<1>4. AtRest(s) /\ task[w].todo = <<>>
  BY <1>3, WorkerBetweenCalls DEF Marking
<1>5. Same(s)
  BY <1>0, <1>3, SameWhen DEF transcripts, disk, ghosts
<1>6. AtRest(s)'
  BY <1>0, <1>4, <1>5, SameRest
<1>7. WorkerHas(w, s)'
  <2>1. task'[w] = t /\ task'[s] = task[s]
    <3>1. s \in Actor /\ s # w
      BY ConstantsAssumption DEF Actor
    <3> QED BY <1>0, <1>3, <3>1 DEF Goes, TypeInv, TypeOK
  <2>2. batch'[w] = {[sid |-> r, item |-> queue[r]] : r \in chosen}
    BY <1>0, <1>2 DEF TypeInv, TypeOK
  <2>3. \A e \in batch'[w] : e.sid = s => is_queued(s) /\ e.item = queue[s]
    BY <1>2, <2>2 DEF IsDrain, Queued
  <2>4. WorkerHas(w, s)
    BY DEF SessionInv
  <2>5. ~Engaged(w, s)'
    BY <1>3, <2>1 DEF Engaged
  <2>6. is_queued(s)' = is_queued(s) /\ ts'[s] = ts[s] /\ dead'[s] = dead[s]
        /\ turns'[s] = turns[s] /\ queue'[s] = queue[s] /\ cands' = cands
    BY <1>3 DEF is_queued, disk, transcripts
  <2> QED BY <1>3, <2>1, <2>3, <2>4, <2>5, <2>6 DEF WorkerHas
<1> QED BY <1>3, <1>4, <1>6, <1>7, WorkerMoves DEF transcripts

\* The offer of a session takes its whole text, which nobody has queued yet.
LEMMA OfferOwn ==
    ASSUME Serial, IInv, IInv', NEW s \in Ours, SessionInv(s), NEW w \in Worker, WorkerOffer(w, s)
    PROVE  SessionInv(s)'
<1>0. TypeInv /\ TypeInv' /\ w \in Actor /\ s \in Session /\ s \in Actor /\ s # w
  BY ConstantsAssumption DEF IInv, Actor, Ours
<1>1. /\ task[w].pc = "offer" /\ s \in cands[w] /\ cands' = [cands EXCEPT ![w] = @ \ {s}]
      /\ grew' = [grew EXCEPT ![s] = FALSE]
      /\ UNCHANGED <<now, turns, disk, batch, notes, skipped, buried>>
  BY DEF WorkerOffer
<1>2. /\ ~is_queued(s) /\ ts[s] = None /\ dead[s] = None /\ turns[s] # {}
      /\ task[s].pc = "idle" /\ ~InBatch(w, s)
  BY <1>0, <1>1 DEF SessionInv, WorkerHas, Holds, InBatch
<1>3. AtRest(s)
  BY <1>0, <1>1, <1>2, WorkerBetweenCalls DEF Marking
<1>4. Behind(s, None) /\ Unburied(s)
  BY <1>2, <1>3 DEF AtRest, resume_since
<1>5. PICK item : item = [text |-> turns[s], since |-> None, at |-> now]
  OBVIOUS
<1>6. grew'[s] = FALSE /\ cands'[w] = cands[w] \ {s} /\ is_queued(s)' = is_queued(s)
  BY <1>0, <1>1 DEF TypeInv, TypeOK, is_queued, disk
<1>7. now \in Nat /\ \A x \in turns[s] : x \in Nat /\ x > 0 /\ x <= now
  BY <1>0, Typed DEF SessionInv
<1>8. ASSUME NEW t, Goes(w, t), t.sid = s, t.todo # <<>>, t.pc = "offering", Call(s, t)'
      PROVE  SessionInv(s)'
  <2>1. task'[w] = t /\ task'[s] = task[s]
    BY <1>0, <1>8 DEF Goes, TypeInv, TypeOK
  <2>2. Engaged(w, s)' /\ s \notin cands'[w] /\ ~InBatch(w, s)'
    BY <1>1, <1>2, <1>6, <1>8, <2>1 DEF Engaged, InBatch
  <2>3. WorkerHas(w, s)'
    BY <1>2, <1>8, <2>1, <2>2 DEF WorkerHas, InBatch
  <2> QED BY <1>0, <1>1, <1>2, <1>8, <2>3, WorkerMoves
<1>9. CASE TooShort(s, item.text)
  <2>1. PICK t : t = Calling("offering", s, NoItem, 0, mark_done)
    OBVIOUS
  <2>2. /\ Goes(w, t) /\ t.sid = s /\ t.todo = mark_done /\ t.pc = "offering" /\ mark_done # <<>>
        /\ waved' = [waved EXCEPT ![s] = @ \cup turns[s]]
    BY <1>5, <1>9, <2>1, ListsAre DEF WorkerOffer, Calling
  <2>3. s \notin Codex
    BY <1>9 DEF TooShort, Ours
  <2>4. turns[s] \subseteq Accounted(s)'
    BY <1>0, <2>2 DEF Accounted, TypeInv, TypeOK
  <2>5. Behind(s, now)'
    <3>1. (\A b \in buried[s] : b \in Nat) /\ \A n \in notes[s] : n.since \in Int
      BY <1>0, Typed
    <3>2. (\A b \in buried[s] : b <= now) /\ \A n \in notes[s] : n.since < now
      BY <1>4, <1>7, <2>3, <3>1 DEF Behind, None
    <3> QED BY <1>1, <2>4, <3>2 DEF Behind
  <2>6. Waving(s, t)'
    <3>1. mark_done \in done_todo /\ mark_done \notin {<<"rm_retry", "rm_dead">>, <<"rm_dead">>}
      BY ListsAre DEF done_todo
    <3> QED BY <1>1, <1>2, <1>6, <2>2, <2>3, <2>4, <2>5, <3>1 DEF Waving
  <2> QED BY <1>8, <2>2, <2>6 DEF Call
<1>10. CASE ~TooShort(s, item.text)
  <2>1. PICK t : t = Calling("offering", s, item, 0, enqueue)
    OBVIOUS
  <2>2. /\ Goes(w, t) /\ t.sid = s /\ t.todo = enqueue /\ t.pc = "offering" /\ t.item = item
        /\ enqueue # <<>> /\ waved' = waved
    BY <1>2, <1>5, <1>10, <2>1, ListsAre DEF WorkerOffer, Calling
  <2>3. Window(s, item)'
    <3>1. item.text = turns[s] /\ item.since = None /\ item.at = now
      BY <1>5
    <3>2. turns[s] = {x \in turns[s] : None < x /\ x <= now}
      BY <1>7 DEF None
    <3>3. None < now /\ now <= now
      BY <1>7 DEF None
    <3> QED BY <1>1, <1>2, <1>10, <3>1, <3>2, <3>3 DEF Window, TooShort
  <2>4. Behind(s, item.since)' /\ Unburied(s)'
    <3>1. Accounted(s)' = Accounted(s)
      BY <1>1, <2>2 DEF Accounted, Remembered_turns
    <3>2. item.since = None
      BY <1>5
    <3> QED BY <1>1, <1>4, <3>1, <3>2 DEF Behind, Unburied
  <2>5. Enqueuing(s, t)'
    <3>1. /\ enqueue \in enqueue_todo
          /\ enqueue \notin {<<"rm_ts", "rm_dead">>, <<"rm_dead">>} /\ enqueue # <<"rm_dead">>
      BY ListsAre DEF enqueue_todo
    <3> QED BY <1>6, <2>2, <2>3, <2>4, <3>1 DEF Enqueuing
  <2> QED BY <1>8, <2>2, <2>5 DEF Call
<1> QED BY <1>9, <1>10

LEMMA OtherOffer ==
    ASSUME IInv, IInv', NEW s \in Session, SessionInv(s), NEW w \in Worker,
           NEW r \in Session, r # s, WorkerOffer(w, r)
    PROVE  SessionInv(s)'
<1>0. TypeInv /\ w \in Actor
  BY DEF IInv, Actor
<1>1. /\ task[w].pc = "offer" /\ cands' = [cands EXCEPT ![w] = @ \ {r}]
      /\ grew' = [grew EXCEPT ![r] = FALSE]
      /\ UNCHANGED <<now, turns, disk, batch, notes, skipped, buried>>
      /\ waved' = waved \/ \E x : waved' = [waved EXCEPT ![r] = x]
  BY DEF WorkerOffer
<1>2. ~Engaged(w, s) /\ task[w].todo = <<>>
  BY <1>0, <1>1, NotMarking DEF Marking, Engaged, IInv
<1>3. Same(s)
  <2>1. grew'[s] = grew[s] /\ waved'[s] = waved[s]
    BY <1>0, <1>1 DEF TypeInv, TypeOK
  <2> QED BY <1>0, <1>1, <2>1, SameWhen DEF disk
<1>4. PICK t : Goes(w, t) /\ (t.sid # s \/ (t.todo = <<>> /\ t.pc # "distill"))
  <2>1. CASE TooShort(r, turns[r])
    BY <2>1 DEF WorkerOffer, Calling
  <2>2. CASE ~TooShort(r, turns[r]) /\ dead[r] # None
    BY <1>1, <1>2, <2>2 DEF WorkerOffer
  <2>3. CASE ~TooShort(r, turns[r]) /\ dead[r] = None
    BY <2>3 DEF WorkerOffer, Calling
  <2> QED BY <2>1, <2>2, <2>3
<1>5. \A v \in Worker : cands'[v] \subseteq cands[v] /\ (v # w => cands'[v] = cands[v])
  BY <1>0, <1>1 DEF TypeInv, TypeOK
<1> QED BY <1>1, <1>2, <1>3, <1>4, <1>5, WorkerAside DEF Aside

\* The next item of the batch is still the one in the queue, and its session is
\* not done: it goes to the distiller.
LEMMA NextOwn ==
    ASSUME Serial, IInv, IInv', NEW s \in Session, SessionInv(s), NEW w \in Worker, WorkerNext(w)
    PROVE  SessionInv(s)'
<1>0. TypeInv /\ TypeInv' /\ w \in Actor /\ s \in Actor /\ s # w
  BY ConstantsAssumption DEF IInv, Actor
<1>1. PICK e \in batch[w] :
         /\ batch' = [batch EXCEPT ![w] = @ \ {e}]
         /\ Goes(w, IF ts[e.sid] # None
                    THEN Calling("settling", e.sid, e.item, 0, <<"rm_item">>)
                    ELSE Holding("distill", e.sid, e.item))
  BY DEF WorkerNext
<1>2. /\ UNCHANGED <<transcripts, disk, notes, ghosts, cands>> /\ task[w].pc = "next"
  BY DEF WorkerNext, WorkerUnchanged, ghosts
<1>3. batch'[w] = batch[w] \ {e} /\ \A v \in Worker : v # w => batch'[v] = batch[v]
  BY <1>0, <1>1 DEF TypeInv, TypeOK
<1>4. Same(s)
  BY <1>0, <1>2, SameWhen DEF transcripts, disk, ghosts
<1>5. task[w].todo = <<>> /\ ~Engaged(w, s)
  BY <1>0, <1>2, NotMarking DEF Marking, Engaged, IInv
<1>6. CASE e.sid # s
  <2>1. PICK t : Goes(w, t) /\ t.sid = e.sid
    BY <1>1 DEF Calling, Holding
  <2> QED BY <1>2, <1>3, <1>4, <1>5, <1>6, <2>1, WorkerAside DEF Aside
<1>7. CASE e.sid = s
  <2>1. /\ is_queued(s) /\ e.item = queue[s] /\ task[s].pc = "idle" /\ s \notin cands[w]
        /\ \A o \in batch[w] : o.sid = s => o.item = queue[s]
    BY <1>7 DEF SessionInv, WorkerHas, Holds, InBatch
  <2>2. AtRest(s)
    BY <1>2, <2>1, WorkerBetweenCalls DEF Marking
  <2>3. ts[s] = None
    BY <2>1, <2>2 DEF AtRest
  <2>4. PICK t : t = Holding("distill", s, e.item)
    OBVIOUS
  <2>5. Goes(w, t) /\ t.todo = <<>> /\ t.sid = s /\ t.pc = "distill" /\ t.item = e.item
    BY <1>1, <1>7, <2>3, <2>4 DEF Holding, Calling
  <2>6. task'[w] = t /\ task'[s] = task[s]
    BY <1>0, <2>5 DEF Goes, TypeInv, TypeOK
  <2>7. ~InBatch(w, s)'
    <3>1. \A o \in batch[w] : o \in Entry
      BY <1>0 DEF TypeInv, TypeOK
    <3>2. \A o \in batch[w] : o.sid = s => o = e
      BY <1>7, <2>1, <3>1 DEF Entry
    <3> QED BY <1>3, <3>2 DEF InBatch
  <2>8. is_queued(s)' = is_queued(s) /\ queue'[s] = queue[s] /\ cands'[w] = cands[w]
    BY <1>2 DEF is_queued, disk
  <2>9. WorkerHas(w, s)'
    BY <2>1, <2>5, <2>6, <2>7, <2>8 DEF WorkerHas, InBatch
  <2>10. AtRest(s)'
    BY <1>0, <1>4, <2>2, SameRest
  <2> QED BY <1>2, <2>1, <2>5, <2>9, <2>10, WorkerMoves DEF transcripts
<1> QED BY <1>6, <1>7

\* What the worker has at hand when the try at an item ends.
LEMMA WorkerAtHand ==
    ASSUME Serial, IInv, NEW s \in Session, SessionInv(s), NEW w \in Worker,
           task[w].pc = "distill", task[w].sid = s
    PROVE  /\ AtRest(s) /\ is_queued(s) /\ task[w].item = queue[s] /\ task[s].pc = "idle"
           /\ s \notin cands[w] /\ ~InBatch(w, s)
           /\ ts[s] = None /\ dead[s] = None /\ Window(s, queue[s]) /\ Unburied(s)
           /\ Behind(s, queue[s].since) /\ GrewAfter(s, queue[s].at)
<1>1. Engaged(w, s) /\ Holds(w, s)
  BY DEF Engaged, Holds
<1>2. /\ is_queued(s) /\ task[w].item = queue[s] /\ task[s].pc = "idle"
      /\ s \notin cands[w] /\ ~InBatch(w, s)
  BY <1>1 DEF SessionInv, WorkerHas
<1>3. AtRest(s)
  BY <1>2, WorkerBetweenCalls DEF Marking
<1> QED BY <1>2, <1>3 DEF AtRest, resume_since

\* The end of a try: the call that settles the item is what has to be shown.
LEMMA SettleMoves ==
    ASSUME Serial, IInv, IInv', NEW s \in Session, SessionInv(s), NEW w \in Worker, NEW t,
           task[w].pc = "distill", task[w].sid = s, Goes(w, t), t.sid = s,
           t.todo # <<>>, t.pc = "settling", UNCHANGED <<transcripts, disk, tick>>, Call(s, t)'
    PROVE  SessionInv(s)'
<1>0. TypeInv /\ w \in Actor /\ s \in Actor /\ s # w
  BY ConstantsAssumption DEF IInv, Actor
<1>1. task'[w] = t /\ task'[s] = task[s]
  BY <1>0 DEF Goes, TypeInv, TypeOK
<1>2. task[s].pc = "idle" /\ s \notin cands[w] /\ ~InBatch(w, s)
  BY WorkerAtHand
<1>3. s \notin cands'[w] /\ ~InBatch(w, s)'
  BY <1>2 DEF tick, InBatch
<1>4. WorkerHas(w, s)'
  BY <1>1, <1>2, <1>3 DEF WorkerHas, InBatch
<1> QED BY <1>2, <1>4, WorkerMoves DEF transcripts

\* A remembered or skipped text is accounted for up to the end of its window.
LEMMA LandOwn ==
    ASSUME Serial, IInv, IInv', NEW s \in Ours, SessionInv(s), NEW w \in Worker,
           WorkerRemember(w) \/ WorkerSkip(w), task[w].sid = s
    PROVE  SessionInv(s)'
<1>0. TypeInv /\ TypeInv' /\ w \in Actor /\ s \in Session
  BY DEF IInv, Actor, Ours
<1>1. PICK t : t = Calling("settling", s, task[w].item, 0, landing)
  OBVIOUS
<1>2. /\ Goes(w, t) /\ task[w].pc = "distill" /\ t.sid = s /\ t.item = task[w].item
      /\ t.todo = landing /\ landing # <<>> /\ t.pc = "settling"
      /\ UNCHANGED <<transcripts, disk, tick, buried, waved>>
  <2>1. Goes(w, t) /\ task[w].pc = "distill"
    BY <1>1 DEF WorkerRemember, WorkerSkip, Settle, landing
  <2>2. /\ t.sid = s /\ t.item = task[w].item /\ t.todo = landing /\ t.pc = "settling"
        /\ landing # <<>>
    BY <1>1, ListsAre DEF Calling
  <2>3. UNCHANGED <<transcripts, disk, tick, buried, waved>>
    BY DEF WorkerRemember, WorkerSkip, WorkerUnchanged
  <2> QED BY <2>1, <2>2, <2>3
<1>3. PICK i \in Item : i = queue[s]
  BY <1>0, Typed
<1>4. /\ i = task[w].item /\ ts[s] = None /\ dead[s] = None /\ Window(s, i) /\ Unburied(s)
      /\ Behind(s, i.since) /\ GrewAfter(s, i.at)
  BY <1>0, <1>2, <1>3, WorkerAtHand
<1>5. /\ i.since \in Int /\ i.at \in Int /\ i.since < i.at
      /\ \A x \in turns[s] : x \in Nat
      /\ \A b \in buried[s] : b \in Nat
      /\ \A n \in notes[s] : n.since \in Int
  BY <1>0, <1>3, <1>4, Typed DEF Window
<1>6. s \notin Codex => /\ Accounted(s) \cup i.text \subseteq Accounted(s)'
                        /\ \A n \in notes'[s] : n.since \in Int /\ n.since < i.at
  <2> SUFFICES ASSUME s \notin Codex
               PROVE  /\ Accounted(s) \cup i.text \subseteq Accounted(s)'
                      /\ \A n \in notes'[s] : n.since \in Int /\ n.since < i.at
    OBVIOUS
  <2>1. \A n \in notes[s] : n.since \in Int /\ n.since < i.since
    BY <1>4, <1>5 DEF Behind
  <2>2. CASE WorkerRemember(w)
    <3> DEFINE new == [since |-> i.since, text |-> i.text, live |-> TRUE]
    <3>1. SameSession(s, i) = {}
      BY <1>5, <2>1 DEF SameSession
    <3>2. PICK after \in Remembered(s, i) : notes' = [notes EXCEPT ![s] = after]
      BY <1>4, <2>2 DEF WorkerRemember
    <3>3. after = notes[s] \cup {new}
      BY <3>1, <3>2 DEF Remembered
    <3>4. notes'[s] = notes[s] \cup {new} /\ skipped' = skipped
      BY <1>0, <2>2, <3>2, <3>3 DEF WorkerRemember, TypeInv, TypeOK
    <3>5. new.since = i.since /\ new.text = i.text /\ new.live
      OBVIOUS
    <3> HIDE DEF new
    <3>6. Remembered_turns(s) \cup i.text \subseteq Remembered_turns(s)'
      BY <3>4, <3>5 DEF Remembered_turns
    <3>7. Accounted(s) \cup i.text \subseteq Accounted(s)'
      BY <1>2, <3>4, <3>6 DEF Accounted
    <3>8. \A n \in notes'[s] : n.since \in Int /\ n.since < i.at
      BY <1>5, <2>1, <3>4, <3>5
    <3> QED BY <3>7, <3>8
  <2>3. CASE WorkerSkip(w)
    <3>1. skipped'[s] = skipped[s] \cup i.text /\ notes' = notes
      BY <1>0, <1>4, <2>3 DEF WorkerSkip, TypeInv, TypeOK
    <3>2. Accounted(s) \cup i.text \subseteq Accounted(s)'
      BY <1>2, <3>1 DEF Accounted, Remembered_turns
    <3> QED BY <1>5, <2>1, <3>1, <3>2
  <2> QED BY <2>2, <2>3
<1>7. Behind(s, i.at)'
  <2>1. \A b \in buried[s] : b <= i.at
    BY <1>4, <1>5 DEF Behind
  <2>2. s \notin Codex => \A x \in turns[s] : x <= i.at => x \in Accounted(s)'
    <3> SUFFICES ASSUME s \notin Codex, NEW x \in turns[s], x <= i.at PROVE x \in Accounted(s)'
      OBVIOUS
    <3>1. CASE x <= i.since
      BY <1>4, <1>6, <3>1 DEF Behind
    <3>2. CASE i.since < x
      BY <1>4, <1>6, <3>2 DEF Window
    <3> QED BY <1>5, <3>1, <3>2
  <2> QED BY <1>2, <1>6, <2>1, <2>2 DEF Behind, transcripts
<1>8. Window(s, i)' /\ GrewAfter(s, i.at)' /\ Unburied(s)'
  BY <1>2, <1>4 DEF Window, TooShort, GrewAfter, Unburied, transcripts
<1>9. Landing(s, t)'
  <2>1. /\ landing \in landing_todo
        /\ landing \notin {<<"rm_dead", "utime_ts", "rm_item">>, <<"utime_ts", "rm_item">>, <<"rm_item">>}
        /\ landing # <<"rm_item">>
    BY ListsAre DEF landing_todo
  <2>2. queue'[s] = i /\ dead'[s] = None
    BY <1>2, <1>3, <1>4 DEF disk
  <2> QED BY <1>2, <1>4, <1>7, <1>8, <2>1, <2>2 DEF Landing
<1> QED BY <1>0, <1>2, <1>9, SettleMoves DEF Call

\* A failed try spends one of its attempts.
LEMMA FailOwn ==
    ASSUME Serial, IInv, IInv', NEW s \in Ours, SessionInv(s), NEW w \in Worker,
           WorkerFail(w), task[w].sid = s
    PROVE  SessionInv(s)'
<1>0. TypeInv /\ TypeInv' /\ w \in Actor /\ s \in Session
  BY DEF IInv, Actor, Ours
<1>1. PICK n \in 1 .. MaxAttempts : n = retry[s] + 1
  BY <1>0, HookReads
<1>2. PICK t : t = Calling("settling", s, task[w].item, n, Append(mark_retry(n), "rm_item_if_dead"))
  OBVIOUS
<1>3. /\ Goes(w, t) /\ task[w].pc = "distill" /\ t.sid = s /\ t.item = task[w].item
      /\ t.pc = "settling" /\ t.tries = n
      /\ t.todo = IF n = MaxAttempts THEN burying ELSE retrying
      /\ UNCHANGED <<transcripts, disk, tick, notes, ghosts>>
  BY <1>1, <1>2, RetryIs
     DEF WorkerFail, Settle, WorkerUnchanged, Calling, read_retry_count, Serial, ghosts
<1>4. PICK i \in Item : i = queue[s]
  BY <1>0, Typed
<1>5. /\ i = task[w].item /\ ts[s] = None /\ dead[s] = None /\ Window(s, i) /\ Unburied(s)
      /\ Behind(s, i.since) /\ GrewAfter(s, i.at)
  BY <1>0, <1>3, <1>4, WorkerAtHand
<1>6. Same(s)
  BY <1>0, <1>3, SameWhen DEF transcripts, disk, ghosts
<1>7. Burying(s, t) \/ Retrying(s, t)
  <2>1. CASE n = MaxAttempts
    <3>1. /\ burying \in burying_todo
          /\ burying \notin {<<"rm_retry", "rm_item_if_dead">>, <<"rm_item_if_dead">>}
          /\ burying # <<"rm_item_if_dead">>
      BY DEF burying_todo, burying
    <3> QED BY <1>3, <1>4, <1>5, <2>1, <3>1 DEF Burying
  <2>2. CASE n # MaxAttempts
    BY <1>1, <1>3, <1>4, <1>5, <2>2 DEF Retrying, retrying_todo
  <2> QED BY <2>1, <2>2
<1>8. t \in Task
  <2>1. task'[w] = t
    BY <1>0, <1>3 DEF Goes, TypeInv, TypeOK
  <2> QED BY <1>0, <2>1 DEF TypeInv, TypeOK
<1>9. Call(s, t)'
  BY <1>0, <1>6, <1>7, <1>8, SameCall DEF Call, SessionInv
<1>10. t.todo # <<>>
  BY <1>3 DEF burying, retrying
<1> QED BY <1>0, <1>3, <1>9, <1>10, SettleMoves

LEMMA OtherDistill ==
    ASSUME IInv, IInv', NEW s \in Session, SessionInv(s), NEW w \in Worker, Distill(w),
           task[w].sid # s
    PROVE  SessionInv(s)'
<1>0. TypeInv /\ w \in Actor /\ task[w].sid \in Session
  BY WorkerReads DEF IInv, Actor
<1>1. /\ UNCHANGED <<transcripts, disk, tick, buried, waved>>
      /\ notes' = notes \/ \E x : notes' = [notes EXCEPT ![task[w].sid] = x]
      /\ skipped' = skipped \/ \E x : skipped' = [skipped EXCEPT ![task[w].sid] = x]
  BY DEF Distill, WorkerRemember, WorkerSkip, WorkerFail, WorkerUnchanged
<1>2. PICK t : Goes(w, t) /\ t.sid = task[w].sid
  BY DEF Distill, WorkerRemember, WorkerSkip, WorkerFail, Settle, Calling
<1>3. notes'[s] = notes[s] /\ skipped'[s] = skipped[s]
  BY <1>0, <1>1 DEF TypeInv, TypeOK
<1>4. Same(s)
  BY <1>0, <1>1, <1>3, SameWhen DEF transcripts, disk
<1> QED BY <1>1, <1>2, <1>4, WorkerAside DEF Aside, Engaged, tick

\* Nobody takes the done marker away between its write and its utime.
LEMMA UtimeOwn ==
    ASSUME IInv, IInv', NEW s \in Session, SessionInv(s), NEW w \in Worker, UtimeRaises(w)
    PROVE  SessionInv(s)'
<1>0. TypeInv /\ w \in Actor
  BY DEF IInv, Actor
<1>1. /\ UNCHANGED <<transcripts, disk, notes, ghosts, cands>>
      /\ batch' = [batch EXCEPT ![w] = {}]
      /\ task[w].todo # <<>> /\ Head(task[w].todo) = "utime_ts" /\ ts[task[w].sid] = None
  BY DEF UtimeRaises, UtimeFails
<1>2. task[w].sid # s
  <2> SUFFICES ASSUME task[w].sid = s PROVE FALSE
    OBVIOUS
  <2>1. Call(s, task[w])
    BY <1>0, <1>1 DEF SessionInv, InCall
  <2>2. task[w].todo \notin enqueue_todo /\ task[w].todo \notin done_todo
    BY <1>1, ListsAre DEF enqueue_todo, done_todo
  <2>3. task[w].todo \notin burying_todo /\ task[w].todo \notin retrying_todo
    BY <1>1 DEF burying_todo, retrying_todo, burying, retrying
  <2>4. Landing(s, task[w])
    BY <2>1, <2>2, <2>3 DEF Call, Enqueuing, Waving, Burying, Retrying
  <2>5. task[w].todo # landing
    BY <1>1, ListsAre
  <2> QED BY <1>1, <2>4, <2>5 DEF Landing
<1>3. PICK t : Goes(w, t) /\ t.todo = <<>> /\ t.pc = "idle"
  BY DEF UtimeRaises, Idle, Holding, Calling
<1>4. Same(s)
  BY <1>0, <1>1, SameWhen DEF transcripts, disk, ghosts
<1>5. batch'[w] = {} /\ \A v \in Worker : v # w => batch'[v] = batch[v]
  BY <1>0, <1>1 DEF TypeInv, TypeOK
<1> QED BY <1>1, <1>2, <1>3, <1>4, <1>5, WorkerAside DEF Aside, Engaged

-----------------------------------------------------------------------------
(* One file operation.                                                     *)

\* What operation op of a call with item i and count n does to the session.
Effect(s, op, i, n) ==
    /\ UNCHANGED <<now, cands, batch>>
    /\ turns'[s] = turns[s] /\ grew'[s] = grew[s] /\ notes'[s] = notes[s]
    /\ waved'[s] = waved[s] /\ skipped'[s] = skipped[s]
    /\ ts'[s] = IF op = "write_ts" THEN now
                ELSE IF op = "utime_ts" THEN i.at
                ELSE IF op = "rm_ts" THEN None ELSE ts[s]
    /\ pending'[s] = IF op = "write_pending" THEN TRUE
                     ELSE IF op = "rm_pending" THEN FALSE ELSE pending[s]
    /\ retry'[s] = IF op = "write_retry" THEN n
                   ELSE IF op = "rm_retry" THEN 0 ELSE retry[s]
    /\ dead'[s] = IF op = "write_dead" THEN now
                  ELSE IF op = "rm_dead" THEN None ELSE dead[s]
    /\ queue'[s] = IF op = "put_item" THEN i
                   ELSE IF op = "rm_item" \/ (op = "rm_item_if_dead" /\ dead[s] # None) THEN NoItem
                   ELSE queue[s]
    /\ buried'[s] = IF op = "write_dead" THEN buried[s] \cup turns[s] ELSE buried[s]

LEMMA FileEffect ==
    ASSUME TypeInv, NEW a \in Actor, FileStep(a), NEW s, s = task[a].sid,
           NEW i, i = task[a].item, NEW n, n = task[a].tries, NEW op, op = Head(task[a].todo)
    PROVE  Effect(s, op, i, n)
<1>0. s \in Session
  BY TaskTyped
<1>1. /\ UNCHANGED <<now, cands, batch>>
      /\ turns'[s] = turns[s] /\ grew'[s] = grew[s] /\ notes'[s] = notes[s]
      /\ waved'[s] = waved[s] /\ skipped'[s] = skipped[s]
  BY DEF FileStep, transcripts, tick
<1>2. ts'[s] = IF op = "write_ts" THEN now
                ELSE IF op = "utime_ts" THEN i.at
                ELSE IF op = "rm_ts" THEN None ELSE ts[s]
  BY <1>0 DEF FileStep, TypeInv, TypeOK
<1>3. pending'[s] = IF op = "write_pending" THEN TRUE
                     ELSE IF op = "rm_pending" THEN FALSE ELSE pending[s]
  BY <1>0 DEF FileStep, TypeInv, TypeOK
<1>4. retry'[s] = IF op = "write_retry" THEN n
                   ELSE IF op = "rm_retry" THEN 0 ELSE retry[s]
  BY <1>0 DEF FileStep, TypeInv, TypeOK
<1>5. dead'[s] = IF op = "write_dead" THEN now
                  ELSE IF op = "rm_dead" THEN None ELSE dead[s]
  BY <1>0 DEF FileStep, TypeInv, TypeOK
<1>6. queue'[s] = IF op = "put_item" THEN i
                   ELSE IF op = "rm_item" \/ (op = "rm_item_if_dead" /\ dead[s] # None) THEN NoItem
                   ELSE queue[s]
  BY <1>0 DEF FileStep, TypeInv, TypeOK
<1>7. buried'[s] = IF op = "write_dead" THEN buried[s] \cup turns[s] ELSE buried[s]
  BY <1>0 DEF FileStep, TypeInv, TypeOK
<1> QED BY <1>1, <1>2, <1>3, <1>4, <1>5, <1>6, <1>7 DEF Effect

LEMMA EffectData ==
    ASSUME NEW s \in Session, NEW op, NEW i, NEW n, Effect(s, op, i, n), op # "write_dead"
    PROVE  /\ \A r : Behind(s, r) => Behind(s, r)'
           /\ \A j : Window(s, j) => Window(s, j)'
           /\ \A r : GrewAfter(s, r) => GrewAfter(s, r)'
           /\ Unburied(s) => Unburied(s)'
           /\ Accounted(s)' = Accounted(s)
<1>1. Accounted(s)' = Accounted(s)
  BY DEF Effect, Accounted, Remembered_turns
<1>2. /\ now' = now /\ turns'[s] = turns[s] /\ grew'[s] = grew[s] /\ notes'[s] = notes[s]
      /\ buried'[s] = buried[s]
  BY DEF Effect
<1> QED BY <1>1, <1>2 DEF Behind, Window, TooShort, GrewAfter, Unburied

\* The rest of call t keeps its promise, or is empty and leaves the files at rest.
Passed(s, t) ==
    /\ ts'[s] <= now /\ dead'[s] <= now
    /\ Tail(t.todo) = <<>> => AtRest(s)'
    /\ Tail(t.todo) # <<>> =>
          \A u \in Task : u.pc = t.pc /\ u.item = t.item /\ u.tries = t.tries
                          /\ u.todo = Tail(t.todo) => Call(s, u)'

LEMMA EnqueuingPasses ==
    ASSUME TypeInv, NEW s \in Session, NEW t \in Task, Enqueuing(s, t),
           ts[s] <= now, dead[s] <= now, Effect(s, Head(t.todo), t.item, t.tries)
    PROVE  Passed(s, t)
<1>1. t.item \in Item /\ now \in Nat
  BY Typed DEF Task
<1>2. PICK i \in Item : i = t.item
  BY <1>1
<1>3. PICK n : n = t.tries
  OBVIOUS
<1>4. PICK op : op = Head(t.todo)
  OBVIOUS
<1>5. op \in {"put_item", "write_pending", "rm_ts", "rm_dead"}
  BY <1>4, ListsAre DEF Enqueuing, enqueue_todo
<1>6. /\ Effect(s, op, i, n) /\ ~grew[s] /\ Behind(s, i.since) /\ Window(s, i) /\ Unburied(s)
      /\ t.pc \in {"marking", "offering"}
  BY <1>2, <1>3, <1>4 DEF Enqueuing
<1>7. ~grew'[s] /\ Behind(s, i.since)' /\ Window(s, i)' /\ Unburied(s)'
  BY <1>5, <1>6, EffectData DEF Effect
<1>8. ts'[s] <= now /\ dead'[s] <= now
  BY <1>1, <1>5, <1>6 DEF Effect, None
<1>9. ASSUME NEW u \in Task, u.pc = t.pc, u.item = i, u.todo \in enqueue_todo, u.todo # enqueue,
             queue'[s] = i,
             u.todo \in {<<"rm_ts", "rm_dead">>, <<"rm_dead">>} => pending'[s],
             u.todo = <<"rm_dead">> => ts'[s] = None
      PROVE  Call(s, u)'
  BY <1>6, <1>7, <1>9 DEF Call, Enqueuing
<1>10. CASE t.todo = enqueue
  <2>1. op = "put_item" /\ Tail(t.todo) = <<"write_pending", "rm_ts", "rm_dead">>
    BY <1>4, <1>10, ListsAre
  <2>2. queue'[s] = i
    BY <1>6, <2>1 DEF Effect
  <2>3. /\ <<"write_pending", "rm_ts", "rm_dead">> \in enqueue_todo
        /\ <<"write_pending", "rm_ts", "rm_dead">> \notin {enqueue, <<"rm_ts", "rm_dead">>, <<"rm_dead">>}
    BY ListsAre DEF enqueue_todo
  <2>4. ASSUME NEW u \in Task, u.pc = t.pc, u.item = t.item, u.todo = Tail(t.todo) PROVE Call(s, u)'
    BY <1>2, <1>9, <2>4, <2>1, <2>2, <2>3
  <2>5. Tail(t.todo) # <<>>
    BY <2>1
  <2> QED BY <1>8, <2>4, <2>5 DEF Passed
<1>11. CASE t.todo = <<"write_pending", "rm_ts", "rm_dead">>
  <2>1. op = "write_pending" /\ Tail(t.todo) = <<"rm_ts", "rm_dead">> /\ t.todo # enqueue
    BY <1>4, <1>11, ListsAre
  <2>2. queue'[s] = i /\ pending'[s]
    BY <1>2, <1>6, <2>1 DEF Effect, Enqueuing
  <2>3. <<"rm_ts", "rm_dead">> \in enqueue_todo /\ <<"rm_ts", "rm_dead">> \notin {enqueue, <<"rm_dead">>}
    BY ListsAre DEF enqueue_todo
  <2>4. ASSUME NEW u \in Task, u.pc = t.pc, u.item = t.item, u.todo = Tail(t.todo) PROVE Call(s, u)'
    BY <1>2, <1>9, <2>4, <2>1, <2>2, <2>3
  <2>5. Tail(t.todo) # <<>>
    <3>1. <<"rm_ts", "rm_dead">> # <<>>
      OBVIOUS
    <3> QED BY <2>1, <3>1
  <2> QED BY <1>8, <2>4, <2>5 DEF Passed
<1>12. CASE t.todo = <<"rm_ts", "rm_dead">>
  <2>1. op = "rm_ts" /\ Tail(t.todo) = <<"rm_dead">> /\ t.todo # enqueue
    BY <1>4, <1>12, ListsAre
  <2>2. queue'[s] = i /\ pending'[s] /\ ts'[s] = None
    BY <1>2, <1>6, <1>12, <2>1 DEF Effect, Enqueuing
  <2>3. <<"rm_dead">> \in enqueue_todo /\ <<"rm_dead">> # enqueue
    BY ListsAre DEF enqueue_todo
  <2>4. ASSUME NEW u \in Task, u.pc = t.pc, u.item = t.item, u.todo = Tail(t.todo) PROVE Call(s, u)'
    BY <1>2, <1>9, <2>4, <2>1, <2>2, <2>3
  <2>5. Tail(t.todo) # <<>>
    <3>1. <<"rm_dead">> # <<>>
      OBVIOUS
    <3> QED BY <2>1, <3>1
  <2> QED BY <1>8, <2>4, <2>5 DEF Passed
<1>13. CASE t.todo = <<"rm_dead">>
  <2>1. op = "rm_dead" /\ Tail(t.todo) = <<>> /\ t.todo # enqueue
    BY <1>4, <1>13, ListsAre
  <2>2. queue'[s] = i /\ pending'[s] /\ ts'[s] = None /\ dead'[s] = None
    BY <1>2, <1>6, <1>13, <2>1 DEF Effect, Enqueuing
  <2>3. i # NoItem
    BY <1>6 DEF Window, NoItem
  <2>4. is_queued(s)' /\ resume_since(s)' = i.since
    BY <2>2, <2>3 DEF is_queued, resume_since
  <2>5. GrewAfter(s, IF is_queued(s) THEN queue[s].at ELSE ts[s])'
    BY <1>7 DEF GrewAfter
  <2>6. Behind(s, resume_since(s))'
    BY <1>7, <2>4 DEF Behind
  <2>7. Window(s, queue[s])'
    BY <1>7, <2>2 DEF Window
  <2>8. AtRest(s)'
    BY <1>7, <2>2, <2>4, <2>5, <2>6, <2>7 DEF AtRest
  <2> QED BY <1>8, <2>1, <2>8 DEF Passed
<1> QED BY <1>10, <1>11, <1>12, <1>13 DEF Enqueuing, enqueue_todo

LEMMA WavingPasses ==
    ASSUME TypeInv, NEW s \in Session, NEW t \in Task, Waving(s, t),
           ts[s] <= now, dead[s] <= now, Effect(s, Head(t.todo), t.item, t.tries)
    PROVE  Passed(s, t)
<1>1. now \in Nat
  BY Typed
<1>2. PICK i : i = t.item
  OBVIOUS
<1>3. PICK n : n = t.tries
  OBVIOUS
<1>4. PICK op : op = Head(t.todo)
  OBVIOUS
<1>5. op \in {"write_ts", "rm_pending", "rm_retry", "rm_dead"}
  BY <1>4, ListsAre DEF Waving, done_todo
<1>6. /\ Effect(s, op, i, n) /\ ~grew[s] /\ ~is_queued(s) /\ s \notin Codex
      /\ turns[s] \subseteq Accounted(s) /\ t.pc \in {"marking", "offering"}
  BY <1>2, <1>3, <1>4 DEF Waving
<1>7. /\ ~grew'[s] /\ ~is_queued(s)' /\ turns'[s] \subseteq Accounted(s)'
      /\ \A r : Behind(s, r) => Behind(s, r)'
  BY <1>5, <1>6, EffectData DEF Effect, is_queued
<1>8. ts'[s] <= now /\ dead'[s] <= now
  BY <1>1, <1>5, <1>6 DEF Effect, None
<1>9. PICK r : r = ts'[s]
  OBVIOUS
<1>10. Behind(s, r)
  <2>1. CASE t.todo = mark_done
    BY <1>4, <1>6, <1>9, <2>1, ListsAre DEF Waving, Effect
  <2>2. CASE t.todo # mark_done
    <3>1. op # "write_ts"
      BY <1>4, <2>2 DEF Waving, done_todo
    <3> QED BY <1>5, <1>6, <1>9, <2>2, <3>1 DEF Waving, Effect
  <2> QED BY <2>1, <2>2
<1>11. Behind(s, ts[s])'
  BY <1>7, <1>9, <1>10 DEF Behind
<1>12. ASSUME NEW u \in Task, u.pc = t.pc, u.todo \in done_todo, u.todo # mark_done,
              u.todo \in {<<"rm_retry", "rm_dead">>, <<"rm_dead">>} => ~pending'[s],
              u.todo = <<"rm_dead">> => retry'[s] = 0
       PROVE  Call(s, u)'
  BY <1>6, <1>7, <1>11, <1>12 DEF Call, Waving
<1>13. CASE t.todo = mark_done
  <2>1. Tail(t.todo) = <<"rm_pending", "rm_retry", "rm_dead">>
    BY <1>13, ListsAre
  <2>2. /\ <<"rm_pending", "rm_retry", "rm_dead">> \in done_todo
        /\ <<"rm_pending", "rm_retry", "rm_dead">> \notin {mark_done, <<"rm_retry", "rm_dead">>, <<"rm_dead">>}
    BY ListsAre DEF done_todo
  <2>4. ASSUME NEW u \in Task, u.pc = t.pc, u.todo = Tail(t.todo) PROVE Call(s, u)'
    BY <1>12, <2>4, <2>1, <2>2
  <2>5. Tail(t.todo) # <<>>
    BY <2>1
  <2> QED BY <1>8, <2>4, <2>5 DEF Passed
<1>14. CASE t.todo = <<"rm_pending", "rm_retry", "rm_dead">>
  <2>1. op = "rm_pending" /\ Tail(t.todo) = <<"rm_retry", "rm_dead">>
    BY <1>4, <1>14
  <2>2. <<"rm_retry", "rm_dead">> \in done_todo /\ <<"rm_retry", "rm_dead">> \notin {mark_done, <<"rm_dead">>}
    BY ListsAre DEF done_todo
  <2>3. ~pending'[s]
    BY <1>6, <2>1 DEF Effect
  <2>4. ASSUME NEW u \in Task, u.pc = t.pc, u.todo = Tail(t.todo) PROVE Call(s, u)'
    BY <1>12, <2>4, <2>1, <2>2, <2>3
  <2>5. Tail(t.todo) # <<>>
    BY <2>1
  <2> QED BY <1>8, <2>4, <2>5 DEF Passed
<1>15. CASE t.todo = <<"rm_retry", "rm_dead">>
  <2>1. op = "rm_retry" /\ Tail(t.todo) = <<"rm_dead">>
    BY <1>4, <1>15
  <2>2. <<"rm_dead">> \in done_todo /\ <<"rm_dead">> # mark_done
    BY ListsAre DEF done_todo
  <2>3. ~pending'[s] /\ retry'[s] = 0
    BY <1>6, <1>15, <2>1 DEF Effect, Waving
  <2>4. ASSUME NEW u \in Task, u.pc = t.pc, u.todo = Tail(t.todo) PROVE Call(s, u)'
    BY <1>12, <2>4, <2>1, <2>2, <2>3
  <2>5. Tail(t.todo) # <<>>
    BY <2>1
  <2> QED BY <1>8, <2>4, <2>5 DEF Passed
<1>16. CASE t.todo = <<"rm_dead">>
  <2>1. op = "rm_dead" /\ Tail(t.todo) = <<>>
    BY <1>4, <1>16
  <2>2. ~pending'[s] /\ retry'[s] = 0 /\ dead'[s] = None
    BY <1>6, <1>16, <2>1 DEF Effect, Waving
  <2>3. resume_since(s)' = r
    BY <1>7, <1>9, <2>2 DEF resume_since
  <2>4. Behind(s, resume_since(s))'
    BY <1>7, <1>10, <2>3 DEF Behind
  <2>5. AtRest(s)'
    BY <1>6, <1>7, <2>2, <2>4 DEF AtRest, GrewAfter, Unburied
  <2> QED BY <1>8, <2>1, <2>5 DEF Passed
<1> QED BY <1>13, <1>14, <1>15, <1>16 DEF Waving, done_todo

LEMMA LandingPasses ==
    ASSUME TypeInv, NEW s \in Session, NEW t \in Task, Landing(s, t),
           ts[s] <= now, dead[s] <= now, Effect(s, Head(t.todo), t.item, t.tries)
    PROVE  Passed(s, t)
<1>1. t.item \in Item /\ now \in Nat
  BY Typed DEF Task
<1>2. PICK i \in Item : i = t.item
  BY <1>1
<1>3. PICK n : n = t.tries
  OBVIOUS
<1>4. PICK op : op = Head(t.todo)
  OBVIOUS
<1>5. op \in {"write_ts", "rm_pending", "rm_retry", "rm_dead", "utime_ts", "rm_item"}
  BY <1>4, ListsAre DEF Landing, landing_todo
<1>6. /\ Effect(s, op, i, n) /\ Behind(s, i.at) /\ Window(s, i) /\ Unburied(s)
      /\ GrewAfter(s, i.at) /\ queue[s] = i /\ dead[s] = None /\ t.pc = "settling"
  BY <1>2, <1>3, <1>4 DEF Landing
<1>7. Behind(s, i.at)' /\ Window(s, i)' /\ Unburied(s)' /\ GrewAfter(s, i.at)'
  BY <1>5, <1>6, EffectData
<1>8. i.at \in Int /\ i.at <= now /\ i.at # None /\ now # None
  <2>1. i.since \in Int /\ i.since >= None /\ i.at \in Int
    BY ConstantsAssumption DEF Item, OptStamp, Stamp, None
  <2> QED BY <1>1, <1>6, <2>1 DEF Window, None
<1>9. dead'[s] = None /\ ts'[s] <= now /\ dead'[s] <= now
  <2>1. dead'[s] = None
    BY <1>5, <1>6 DEF Effect
  <2>2. ts'[s] <= now
    BY <1>1, <1>5, <1>6, <1>8 DEF Effect, None
  <2> QED BY <1>1, <2>1, <2>2 DEF None
<1>10. ASSUME NEW u \in Task, u.pc = t.pc, u.item = t.item, u.todo \in landing_todo,
              u.todo # landing, queue'[s] = i, ts'[s] # None,
              u.todo # <<"rm_pending", "rm_retry", "rm_dead", "utime_ts", "rm_item">> => ~pending'[s],
              u.todo \in {<<"rm_dead", "utime_ts", "rm_item">>, <<"utime_ts", "rm_item">>,
                          <<"rm_item">>} => retry'[s] = 0,
              u.todo = <<"rm_item">> => ts'[s] = i.at
       PROVE  Call(s, u)'
  <2>1. Landing(s, u)'
    BY <1>2, <1>6, <1>7, <1>9, <1>10 DEF Landing
  <2> QED BY <2>1 DEF Call
<1>11. CASE t.todo = landing
  <2>1. op = "write_ts" /\ Tail(t.todo) = <<"rm_pending", "rm_retry", "rm_dead", "utime_ts", "rm_item">>
    BY <1>4, <1>11, ListsAre
  <2>2. queue'[s] = i /\ ts'[s] # None
    BY <1>6, <1>8, <2>1 DEF Effect
  <2>3. PICK rest : rest = <<"rm_pending", "rm_retry", "rm_dead", "utime_ts", "rm_item">>
    OBVIOUS
  <2>4. /\ rest \in landing_todo /\ rest # landing /\ rest # <<>>
        /\ rest \notin {<<"rm_dead", "utime_ts", "rm_item">>, <<"utime_ts", "rm_item">>, <<"rm_item">>}
    BY <2>3, ListsAre DEF landing_todo
  <2>5. ASSUME NEW u \in Task, u.pc = t.pc, u.item = t.item, u.todo = rest PROVE Call(s, u)'
    BY <1>10, <2>2, <2>3, <2>4, <2>5
  <2> QED BY <1>9, <2>1, <2>3, <2>4, <2>5 DEF Passed
<1>12. CASE t.todo = <<"rm_pending", "rm_retry", "rm_dead", "utime_ts", "rm_item">>
  <2>1. op = "rm_pending" /\ Tail(t.todo) = <<"rm_retry", "rm_dead", "utime_ts", "rm_item">>
    BY <1>4, <1>12
  <2>2. t.todo # landing
    BY <1>12, ListsAre
  <2>3. queue'[s] = i /\ ts'[s] # None /\ ~pending'[s]
    BY <1>6, <2>1, <2>2 DEF Effect, Landing
  <2>4. PICK rest : rest = <<"rm_retry", "rm_dead", "utime_ts", "rm_item">>
    OBVIOUS
  <2>5. /\ rest \in landing_todo /\ rest # landing /\ rest # <<>>
        /\ rest \notin {<<"rm_dead", "utime_ts", "rm_item">>, <<"utime_ts", "rm_item">>, <<"rm_item">>}
    BY <2>4, ListsAre DEF landing_todo
  <2>6. ASSUME NEW u \in Task, u.pc = t.pc, u.item = t.item, u.todo = rest PROVE Call(s, u)'
    BY <1>10, <2>3, <2>5, <2>6
  <2> QED BY <1>9, <2>1, <2>4, <2>5, <2>6 DEF Passed
<1>13. CASE t.todo = <<"rm_retry", "rm_dead", "utime_ts", "rm_item">>
  <2>1. op = "rm_retry" /\ Tail(t.todo) = <<"rm_dead", "utime_ts", "rm_item">>
    BY <1>4, <1>13
  <2>2. t.todo # landing /\ t.todo # <<"rm_pending", "rm_retry", "rm_dead", "utime_ts", "rm_item">>
    BY <1>13, ListsAre
  <2>3. queue'[s] = i /\ ts'[s] # None /\ ~pending'[s] /\ retry'[s] = 0
    BY <1>6, <2>1, <2>2 DEF Effect, Landing
  <2>4. PICK rest : rest = <<"rm_dead", "utime_ts", "rm_item">>
    OBVIOUS
  <2>5. rest \in landing_todo /\ rest # landing /\ rest # <<>> /\ rest # <<"rm_item">>
    BY <2>4, ListsAre DEF landing_todo
  <2>6. ASSUME NEW u \in Task, u.pc = t.pc, u.item = t.item, u.todo = rest PROVE Call(s, u)'
    BY <1>10, <2>3, <2>5, <2>6
  <2> QED BY <1>9, <2>1, <2>4, <2>5, <2>6 DEF Passed
<1>14. CASE t.todo = <<"rm_dead", "utime_ts", "rm_item">>
  <2>1. op = "rm_dead" /\ Tail(t.todo) = <<"utime_ts", "rm_item">>
    BY <1>4, <1>14
  <2>2. t.todo # landing /\ t.todo # <<"rm_pending", "rm_retry", "rm_dead", "utime_ts", "rm_item">>
    BY <1>14, ListsAre
  <2>3. queue'[s] = i /\ ts'[s] # None /\ ~pending'[s] /\ retry'[s] = 0
    BY <1>6, <1>14, <2>1, <2>2 DEF Effect, Landing
  <2>4. PICK rest : rest = <<"utime_ts", "rm_item">>
    OBVIOUS
  <2>5. rest \in landing_todo /\ rest # landing /\ rest # <<>> /\ rest # <<"rm_item">>
    BY <2>4, ListsAre DEF landing_todo
  <2>6. ASSUME NEW u \in Task, u.pc = t.pc, u.item = t.item, u.todo = rest PROVE Call(s, u)'
    BY <1>10, <2>3, <2>5, <2>6
  <2> QED BY <1>9, <2>1, <2>4, <2>5, <2>6 DEF Passed
<1>15. CASE t.todo = <<"utime_ts", "rm_item">>
  <2>1. op = "utime_ts" /\ Tail(t.todo) = <<"rm_item">>
    BY <1>4, <1>15
  <2>2. t.todo # landing /\ t.todo # <<"rm_pending", "rm_retry", "rm_dead", "utime_ts", "rm_item">>
    BY <1>15, ListsAre
  <2>3. queue'[s] = i /\ ts'[s] = i.at /\ ~pending'[s] /\ retry'[s] = 0
    BY <1>6, <1>15, <2>1, <2>2 DEF Effect, Landing
  <2>4. PICK rest : rest = <<"rm_item">>
    OBVIOUS
  <2>5. rest \in landing_todo /\ rest # landing /\ rest # <<>>
    BY <2>4, ListsAre DEF landing_todo
  <2>6. ASSUME NEW u \in Task, u.pc = t.pc, u.item = t.item, u.todo = rest PROVE Call(s, u)'
    BY <1>8, <1>10, <2>3, <2>5, <2>6
  <2> QED BY <1>9, <2>1, <2>4, <2>5, <2>6 DEF Passed
<1>16. CASE t.todo = <<"rm_item">>
  <2>1. op = "rm_item" /\ Tail(t.todo) = <<>>
    BY <1>4, <1>16
  <2>2. t.todo # landing /\ t.todo # <<"rm_pending", "rm_retry", "rm_dead", "utime_ts", "rm_item">>
    BY <1>16, ListsAre
  <2>3. queue'[s] = NoItem /\ ts'[s] = i.at /\ ~pending'[s] /\ retry'[s] = 0
    BY <1>2, <1>6, <1>16, <2>1, <2>2 DEF Effect, Landing
  <2>4. ~is_queued(s)' /\ resume_since(s)' = i.at
    BY <1>9, <2>3 DEF is_queued, resume_since
  <2>5. Behind(s, resume_since(s))'
    BY <1>7, <2>4 DEF Behind
  <2>6. GrewAfter(s, IF is_queued(s) THEN queue[s].at ELSE ts[s])'
    BY <1>7, <2>3, <2>4 DEF GrewAfter
  <2>7. AtRest(s)'
    BY <1>7, <2>3, <2>4, <2>5, <2>6 DEF AtRest
  <2> QED BY <1>9, <2>1, <2>7 DEF Passed
<1> QED BY <1>11, <1>12, <1>13, <1>14, <1>15, <1>16 DEF Landing, landing_todo

LEMMA RetryingPasses ==
    ASSUME TypeInv, NEW s \in Session, NEW t \in Task, Retrying(s, t),
           ts[s] <= now, dead[s] <= now, Effect(s, Head(t.todo), t.item, t.tries)
    PROVE  Passed(s, t)
<1>1. t.item \in Item /\ now \in Nat /\ t.tries \in Nat
  BY Typed, ConstantsAssumption DEF Task
<1>2. PICK i \in Item : i = t.item
  BY <1>1
<1>3. PICK n \in Nat : n = t.tries
  BY <1>1
<1>4. PICK op : op = Head(t.todo)
  OBVIOUS
<1>5. op \in {"write_retry", "rm_ts", "rm_pending", "rm_item_if_dead"}
  BY <1>4 DEF Retrying, retrying_todo, retrying
<1>6. /\ Effect(s, op, i, n) /\ Behind(s, i.since) /\ Window(s, i) /\ Unburied(s) /\ n > 0
      /\ GrewAfter(s, i.at) /\ queue[s] = i /\ dead[s] = None /\ ts[s] = None /\ t.pc = "settling"
  BY <1>2, <1>3, <1>4 DEF Retrying
<1>7. Behind(s, i.since)' /\ Window(s, i)' /\ Unburied(s)' /\ GrewAfter(s, i.at)'
  BY <1>5, <1>6, EffectData
<1>8. dead'[s] = None /\ ts'[s] = None /\ queue'[s] = i
  BY <1>5, <1>6 DEF Effect
<1>9. ts'[s] <= now /\ dead'[s] <= now
  BY <1>1, <1>8 DEF None
<1>10. retry'[s] > 0
  <2>1. CASE t.todo = retrying
    <3>1. op = "write_retry"
      BY <1>4, <2>1 DEF retrying
    <3> QED BY <1>6, <3>1 DEF Effect
  <2>2. CASE t.todo # retrying
    <3>1. op # "write_retry"
      BY <1>4, <2>2 DEF Retrying, retrying_todo
    <3> QED BY <1>5, <1>6, <2>2, <3>1 DEF Effect, Retrying
  <2> QED BY <2>1, <2>2
<1>11. ASSUME NEW u \in Task, u.pc = t.pc, u.item = t.item, u.tries = t.tries,
              u.todo \in retrying_todo
       PROVE  Call(s, u)'
  <2>1. Retrying(s, u)'
    BY <1>2, <1>3, <1>6, <1>7, <1>8, <1>10, <1>11 DEF Retrying
  <2> QED BY <2>1 DEF Call
<1>12. CASE t.todo # <<"rm_item_if_dead">>
  <2>1. Tail(t.todo) \in retrying_todo /\ Tail(t.todo) # <<>>
    <3>1. CASE t.todo = retrying
      <4>1. Tail(t.todo) = <<"rm_ts", "rm_pending", "rm_item_if_dead">>
        BY <3>1 DEF retrying
      <4>2. <<"rm_ts", "rm_pending", "rm_item_if_dead">> # <<>>
        OBVIOUS
      <4> QED BY <4>1, <4>2 DEF retrying_todo
    <3>2. CASE t.todo = <<"rm_ts", "rm_pending", "rm_item_if_dead">>
      <4>1. Tail(t.todo) = <<"rm_pending", "rm_item_if_dead">>
        BY <3>2
      <4>2. <<"rm_pending", "rm_item_if_dead">> # <<>>
        OBVIOUS
      <4> QED BY <4>1, <4>2 DEF retrying_todo
    <3>3. CASE t.todo = <<"rm_pending", "rm_item_if_dead">>
      <4>1. Tail(t.todo) = <<"rm_item_if_dead">>
        BY <3>3
      <4>2. <<"rm_item_if_dead">> # <<>>
        OBVIOUS
      <4> QED BY <4>1, <4>2 DEF retrying_todo
    <3> QED BY <1>12, <3>1, <3>2, <3>3 DEF Retrying, retrying_todo
  <2>2. ASSUME NEW u \in Task, u.pc = t.pc, u.item = t.item, u.tries = t.tries,
               u.todo = Tail(t.todo)
        PROVE  Call(s, u)'
    BY <1>11, <2>1, <2>2
  <2> QED BY <1>9, <2>1, <2>2 DEF Passed
<1>13. CASE t.todo = <<"rm_item_if_dead">>
  <2>1. Tail(t.todo) = <<>>
    BY <1>13
  <2>2. i # NoItem
    BY <1>6 DEF Window, NoItem
  <2>3. is_queued(s)' /\ resume_since(s)' = i.since
    BY <1>8, <2>2 DEF is_queued, resume_since
  <2>4. Behind(s, resume_since(s))'
    BY <1>7, <2>3 DEF Behind
  <2>5. GrewAfter(s, IF is_queued(s) THEN queue[s].at ELSE ts[s])'
    BY <1>7, <1>8, <2>3 DEF GrewAfter
  <2>6. Window(s, queue[s])'
    BY <1>7, <1>8 DEF Window
  <2>7. AtRest(s)'
    BY <1>7, <1>8, <1>10, <2>3, <2>4, <2>5, <2>6 DEF AtRest
  <2> QED BY <1>9, <2>1, <2>7 DEF Passed
<1> QED BY <1>12, <1>13

LEMMA BuryingPasses ==
    ASSUME TypeInv, NEW s \in Session, NEW t \in Task, Burying(s, t),
           ts[s] <= now, dead[s] <= now, Effect(s, Head(t.todo), t.item, t.tries),
           \A x \in turns[s] : x <= now
    PROVE  Passed(s, t)
<1>1. t.item \in Item /\ now \in Nat
  BY Typed DEF Task
<1>2. PICK i \in Item : i = t.item
  BY <1>1
<1>3. PICK n : n = t.tries
  OBVIOUS
<1>4. PICK op : op = Head(t.todo)
  OBVIOUS
<1>5. op \in {"write_dead", "rm_ts", "rm_pending", "rm_retry", "rm_item_if_dead"}
  BY <1>4 DEF Burying, burying_todo, burying
<1>6. /\ Effect(s, op, i, n) /\ Window(s, i) /\ queue[s] = i /\ ts[s] = None /\ t.pc = "settling"
  BY <1>2, <1>3, <1>4 DEF Burying
<1>7. ts'[s] = None /\ Window(s, i)'
  BY <1>5, <1>6 DEF Effect, Window, TooShort
<1>8. /\ dead'[s] # None /\ dead'[s] <= now /\ Behind(s, dead[s])'
  <2>1. CASE t.todo = burying
    <3>1. op = "write_dead" /\ Behind(s, i.since)
      BY <1>2, <1>4, <2>1 DEF burying, Burying
    <3>2. /\ buried'[s] = buried[s] \cup turns[s] /\ dead'[s] = now /\ turns'[s] = turns[s]
          /\ notes'[s] = notes[s]
      BY <1>6, <3>1 DEF Effect
    <3>3. turns[s] \subseteq Accounted(s)'
      BY <3>2 DEF Accounted
    <3>4. /\ i.since \in Int /\ i.at \in Int /\ i.since < i.at /\ i.at <= now
          /\ \A b \in buried[s] : b \in Nat
          /\ \A m \in notes[s] : m.since \in Int
      BY <1>6, Typed, ConstantsAssumption DEF Window, Item, OptStamp, Stamp, None
    <3>5. \A b \in buried'[s] : b <= now
      BY <1>1, <3>1, <3>2, <3>4 DEF Behind
    <3>6. s \notin Codex => \A m \in notes'[s] : m.since < now
      BY <1>1, <3>1, <3>2, <3>4 DEF Behind
    <3>7. Behind(s, dead[s])'
      BY <3>2, <3>3, <3>5, <3>6 DEF Behind
    <3> QED BY <1>1, <3>2, <3>7 DEF None
  <2>2. CASE t.todo # burying
    <3>1. op # "write_dead"
      BY <1>4, <2>2 DEF Burying, burying_todo
    <3>2. PICK r : r = dead[s]
      OBVIOUS
    <3>3. dead'[s] = r /\ r # None /\ r <= now /\ Behind(s, r)
      BY <1>5, <1>6, <2>2, <3>1, <3>2 DEF Effect, Burying
    <3>4. Behind(s, r)'
      BY <1>6, <3>1, <3>3, EffectData
    <3> QED BY <3>3, <3>4 DEF Behind
  <2> QED BY <2>1, <2>2
<1>9. ts'[s] <= now
  BY <1>1, <1>7 DEF None
<1>10. ASSUME NEW u \in Task, u.pc = t.pc, u.item = t.item, u.todo \in burying_todo, u.todo # burying,
              queue'[s] = i,
              u.todo \in {<<"rm_retry", "rm_item_if_dead">>, <<"rm_item_if_dead">>} => ~pending'[s],
              u.todo = <<"rm_item_if_dead">> => retry'[s] = 0
       PROVE  Call(s, u)'
  <2>1. Burying(s, u)'
    BY <1>2, <1>6, <1>7, <1>8, <1>10 DEF Burying
  <2> QED BY <2>1 DEF Call
<1>11. CASE t.todo = burying
  <2>1. op = "write_dead" /\ Tail(t.todo) = <<"rm_ts", "rm_pending", "rm_retry", "rm_item_if_dead">>
    BY <1>4, <1>11 DEF burying
  <2>2. queue'[s] = i
    BY <1>6, <2>1 DEF Effect
  <2>3. PICK rest : rest = <<"rm_ts", "rm_pending", "rm_retry", "rm_item_if_dead">>
    OBVIOUS
  <2>4. /\ rest \in burying_todo /\ rest # burying /\ rest # <<>>
        /\ rest \notin {<<"rm_retry", "rm_item_if_dead">>, <<"rm_item_if_dead">>}
    BY <2>3 DEF burying_todo, burying
  <2>5. ASSUME NEW u \in Task, u.pc = t.pc, u.item = t.item, u.todo = rest PROVE Call(s, u)'
    BY <1>10, <2>2, <2>4, <2>5
  <2> QED BY <1>8, <1>9, <2>1, <2>3, <2>4, <2>5 DEF Passed
<1>12. CASE t.todo = <<"rm_ts", "rm_pending", "rm_retry", "rm_item_if_dead">>
  <2>1. op = "rm_ts" /\ Tail(t.todo) = <<"rm_pending", "rm_retry", "rm_item_if_dead">>
    BY <1>4, <1>12
  <2>2. queue'[s] = i
    BY <1>6, <2>1 DEF Effect
  <2>3. PICK rest : rest = <<"rm_pending", "rm_retry", "rm_item_if_dead">>
    OBVIOUS
  <2>4. /\ rest \in burying_todo /\ rest # burying /\ rest # <<>>
        /\ rest \notin {<<"rm_retry", "rm_item_if_dead">>, <<"rm_item_if_dead">>}
    BY <2>3 DEF burying_todo, burying
  <2>5. ASSUME NEW u \in Task, u.pc = t.pc, u.item = t.item, u.todo = rest PROVE Call(s, u)'
    BY <1>10, <2>2, <2>4, <2>5
  <2> QED BY <1>8, <1>9, <2>1, <2>3, <2>4, <2>5 DEF Passed
<1>13. CASE t.todo = <<"rm_pending", "rm_retry", "rm_item_if_dead">>
  <2>1. op = "rm_pending" /\ Tail(t.todo) = <<"rm_retry", "rm_item_if_dead">>
    BY <1>4, <1>13
  <2>2. queue'[s] = i /\ ~pending'[s]
    BY <1>6, <2>1 DEF Effect
  <2>3. PICK rest : rest = <<"rm_retry", "rm_item_if_dead">>
    OBVIOUS
  <2>4. rest \in burying_todo /\ rest # burying /\ rest # <<>> /\ rest # <<"rm_item_if_dead">>
    BY <2>3 DEF burying_todo, burying
  <2>5. ASSUME NEW u \in Task, u.pc = t.pc, u.item = t.item, u.todo = rest PROVE Call(s, u)'
    BY <1>10, <2>2, <2>4, <2>5
  <2> QED BY <1>8, <1>9, <2>1, <2>3, <2>4, <2>5 DEF Passed
<1>14. CASE t.todo = <<"rm_retry", "rm_item_if_dead">>
  <2>1. op = "rm_retry" /\ Tail(t.todo) = <<"rm_item_if_dead">>
    BY <1>4, <1>14
  <2>2. queue'[s] = i /\ ~pending'[s] /\ retry'[s] = 0
    BY <1>6, <1>14, <2>1 DEF Effect, Burying
  <2>3. PICK rest : rest = <<"rm_item_if_dead">>
    OBVIOUS
  <2>4. rest \in burying_todo /\ rest # burying /\ rest # <<>>
    BY <2>3 DEF burying_todo, burying
  <2>5. ASSUME NEW u \in Task, u.pc = t.pc, u.item = t.item, u.todo = rest PROVE Call(s, u)'
    BY <1>10, <2>2, <2>4, <2>5
  <2> QED BY <1>8, <1>9, <2>1, <2>3, <2>4, <2>5 DEF Passed
<1>15. CASE t.todo = <<"rm_item_if_dead">>
  <2>1. op = "rm_item_if_dead" /\ Tail(t.todo) = <<>> /\ t.todo # burying
    BY <1>4, <1>15 DEF burying
  <2>2. dead[s] # None
    BY <2>1 DEF Burying
  <2>3. queue'[s] = NoItem /\ ~pending'[s] /\ retry'[s] = 0
    BY <1>6, <1>15, <2>1, <2>2 DEF Effect, Burying
  <2>4. ~is_queued(s)' /\ resume_since(s)' = dead'[s]
    BY <1>8, <2>3 DEF is_queued, resume_since
  <2>5. Behind(s, resume_since(s))'
    BY <1>8, <2>4 DEF Behind
  <2>6. AtRest(s)'
    BY <1>8, <2>3, <2>4, <2>5 DEF AtRest
  <2> QED BY <1>8, <1>9, <2>1, <2>6 DEF Passed
<1> QED BY <1>11, <1>12, <1>13, <1>14, <1>15 DEF Burying, burying_todo

LEMMA CallPasses ==
    ASSUME TypeInv, NEW s \in Session, NEW t \in Task, Call(s, t),
           ts[s] <= now, dead[s] <= now, Effect(s, Head(t.todo), t.item, t.tries),
           \A x \in turns[s] : x <= now
    PROVE  Passed(s, t)
BY EnqueuingPasses, WavingPasses, LandingPasses, BuryingPasses, RetryingPasses DEF Call

LEMMA FileOwn ==
    ASSUME Serial, IInv, IInv', NEW s \in Session, SessionInv(s),
           NEW a \in Actor, FileStep(a), task[a].sid = s
    PROVE  SessionInv(s)'
<1>0. TypeInv /\ TypeInv' /\ s \in Actor /\ s \notin Worker
  BY ConstantsAssumption DEF IInv, Actor
<1>1. PICK t \in Task : t = task[a]
  BY <1>0, TaskTyped
<1>2. t.todo # <<>> /\ InCall(a, s) /\ t.sid = s
  BY <1>1 DEF FileStep, InCall
<1>3. PICK rest : rest = Tail(t.todo)
  OBVIOUS
<1>4. Call(s, t)
  BY <1>1, <1>2 DEF SessionInv
<1>5. Effect(s, Head(t.todo), t.item, t.tries)
  BY <1>0, <1>1, FileEffect
<1>6. Passed(s, t)
  BY <1>0, <1>4, <1>5, CallPasses DEF SessionInv
<1>7. /\ UNCHANGED <<now, cands, batch>> /\ turns'[s] = turns[s]
      /\ Goes(a, AfterStep(a, rest))
  BY <1>1, <1>3 DEF FileStep, transcripts, tick
<1>8. PICK u : u = AfterStep(a, rest)
  OBVIOUS
<1>9. task'[a] = u /\ \A b \in Actor : b # a => task'[b] = task[b]
  BY <1>0, <1>7, <1>8 DEF Goes, TypeInv, TypeOK
<1>10. u \in Task
  BY <1>0, <1>9 DEF TypeInv, TypeOK
<1>11. \A b \in Actor : b # a => ~InCall(b, s) /\ ~InCall(b, s)'
  <2>1. \A b \in Actor : b # a => ~InCall(b, s)
    BY <1>2, OneInCall
  <2> QED BY <1>9, <2>1 DEF InCall
<1>12. t.pc \in Marking
  BY <1>4 DEF Call, Enqueuing, Waving, Landing, Burying, Retrying, Marking
<1>13. /\ rest = <<>> => u.todo = <<>> /\ u.pc \in {"idle", "offer", "next"}
       /\ rest # <<>> => u.pc = t.pc /\ u.sid = s /\ u.item = t.item /\ u.tries = t.tries
                         /\ u.todo = rest
  BY <1>1, <1>2, <1>8, <1>12 DEF AfterStep, Holding, Calling, Return, Marking
<1>14. ts'[s] <= now' /\ dead'[s] <= now' /\ \A x \in turns'[s] : x <= now'
  BY <1>6, <1>7 DEF Passed, SessionInv
<1>15. (\A b \in Actor : ~InCall(b, s)') => AtRest(s)'
  <2>1. CASE rest = <<>>
    BY <1>3, <1>6, <2>1 DEF Passed
  <2>2. CASE rest # <<>>
    <3>1. InCall(a, s)'
      BY <1>9, <1>13, <2>2 DEF InCall
    <3> QED BY <3>1
  <2> QED BY <2>1, <2>2
<1>16. \A b \in Actor : InCall(b, s)' => Call(s, task[b])'
  <2> SUFFICES ASSUME NEW b \in Actor, InCall(b, s)' PROVE Call(s, task[b])'
    OBVIOUS
  <2>1. b = a /\ u.todo # <<>>
    BY <1>9, <1>11 DEF InCall
  <2>2. Call(s, u)'
    BY <1>3, <1>6, <1>10, <1>13, <2>1 DEF Passed
  <2> QED BY <1>9, <2>1, <2>2
<1>17. task'[s].pc \notin Reading
  <2>1. CASE a = s
    BY <1>9, <1>12, <1>13, <2>1 DEF Marking, Reading
  <2>2. CASE a # s
    <3>1. a \in Worker /\ task[s].pc = "idle"
      BY <1>2, <2>2, OneInCall DEF Actor
    <3> QED BY <1>0, <1>9, <2>2, <3>1 DEF Reading
  <2> QED BY <2>1, <2>2
<1>18. Reads(s)'
  BY <1>17 DEF Reads, Reading
<1>19. ASSUME NEW w \in Worker PROVE WorkerHas(w, s)'
  <2>0. w \in Actor
    BY DEF Actor
  <2>1. CASE a \in Session
    <3>1. a = s /\ ~Holds(w, s)
      BY <1>2, <2>1, OneInCall
    <3>2. task'[w] = task[w] /\ cands'[w] = cands[w] /\ batch'[w] = batch[w]
      BY <1>0, <1>7, <1>9, <2>0, <3>1
    <3> QED BY <3>1, <3>2 DEF WorkerHas, Holds, Engaged, InBatch
  <2>2. CASE a \in Worker
    <3>1. a = w
      BY <2>2 DEF Serial
    <3>2. task[s].pc = "idle" /\ Engaged(w, s)
      BY <1>2, <2>2, <3>1, OneInCall DEF InCall, Engaged
    <3>3. s \notin cands[w] /\ ~InBatch(w, s)
      BY <3>2 DEF SessionInv, WorkerHas
    <3>4. s \notin cands'[w] /\ ~InBatch(w, s)' /\ task'[s].pc = "idle"
      BY <1>0, <1>7, <1>9, <2>2, <3>2, <3>3 DEF InBatch
    <3>5. task'[w].pc # "distill"
      BY <1>9, <1>12, <1>13, <3>1 DEF Marking
    <3> QED BY <3>4, <3>5 DEF WorkerHas, InBatch
  <2> QED BY <2>1, <2>2 DEF Actor
<1> QED BY <1>14, <1>15, <1>16, <1>18, <1>19 DEF SessionInv

LEMMA OtherFile ==
    ASSUME IInv, IInv', NEW s \in Session, SessionInv(s),
           NEW a \in Actor, FileStep(a), task[a].sid # s
    PROVE  SessionInv(s)'
<1>0. TypeInv /\ a \in Actor /\ task[a].sid \in Session /\ s \in Actor
  BY TaskTyped DEF IInv, Actor
<1>1. /\ UNCHANGED <<transcripts, tick, notes, waved, skipped>>
      /\ Goes(a, AfterStep(a, Tail(task[a].todo))) /\ task[a].todo # <<>>
  BY DEF FileStep
<1>2. ts'[s] = ts[s] /\ pending'[s] = pending[s] /\ retry'[s] = retry[s]
  BY <1>0 DEF FileStep, TypeInv, TypeOK
<1>3. dead'[s] = dead[s] /\ queue'[s] = queue[s] /\ buried'[s] = buried[s]
  BY <1>0 DEF FileStep, TypeInv, TypeOK
<1>4. Same(s)
  <2>1. now <= now
    BY <1>0, ConstantsAssumption DEF TypeInv, TypeOK, Stamp
  <2> QED BY <1>1, <1>2, <1>3, <2>1 DEF Same, transcripts
<1>5. PICK u : u = AfterStep(a, Tail(task[a].todo))
  OBVIOUS
<1>6. \/ u.todo = <<>> /\ u.pc \in {"idle", "offer", "next"}
     \/ u.sid = task[a].sid
  BY <1>5 DEF AfterStep, Holding, Calling, Return
<1>7. task'[a] = u /\ \A b \in Actor : b # a => task'[b] = task[b]
  BY <1>0, <1>1, <1>5 DEF Goes, TypeInv, TypeOK
<1>8. a # s
  <2>1. a \in Session => task[a].sid = a
    BY DEF IInv, ProcInv, Wellformed
  <2> QED BY <2>1
<1>9. \A w \in Worker : task'[w] = task[w] \/ (~Engaged(w, s) /\ ~Engaged(w, s)')
  BY <1>6, <1>7 DEF Engaged, Actor
<1>10. Untouched(s)
  BY <1>0, <1>1, <1>4, <1>7, <1>8, <1>9 DEF Untouched, tick
<1> QED BY <1>10, Frame

-----------------------------------------------------------------------------
(* The invariant, and what the queue promises.                             *)

LEMMA InitSerial == Init => SerialInv
<1> SUFFICES ASSUME Init, NEW s \in Ours PROVE SessionInv(s)
  BY DEF SerialInv
<1>0. s \in Session /\ s \in Actor
  BY DEF Ours, Actor
<1>1. \A a \in Actor : task[a].todo = <<>> /\ task[a].pc = "idle"
  BY DEF Init, Idle, Holding, Calling
<1>2. /\ now = 0 /\ turns[s] = {} /\ grew[s] = FALSE /\ ts[s] = None /\ pending[s] = FALSE
      /\ retry[s] = 0 /\ dead[s] = None /\ queue[s] = NoItem /\ notes[s] = {} /\ buried[s] = {}
      /\ \A w \in Worker : cands[w] = {} /\ batch[w] = {}
  BY <1>0 DEF Init
<1>3. \A a \in Actor : ~InCall(a, s)
  BY <1>1 DEF InCall
<1>4. ts[s] <= now /\ dead[s] <= now /\ \A t \in turns[s] : t <= now
  BY <1>2 DEF None
<1>5. ~is_queued(s) /\ resume_since(s) = None
  BY <1>2 DEF is_queued, resume_since
<1>6. Behind(s, resume_since(s))
  BY <1>2 DEF Behind
<1>7. AtRest(s)
  BY <1>2, <1>5, <1>6 DEF AtRest, GrewAfter, Unburied
<1>8. Reads(s)
  BY <1>0, <1>1 DEF Reads
<1>9. \A w \in Worker : WorkerHas(w, s)
  <2> TAKE w \in Worker
  <2>1. w \in Actor
    BY DEF Actor
  <2> QED BY <1>1, <1>2, <2>1 DEF WorkerHas, Holds, Engaged, InBatch
<1> QED BY <1>3, <1>4, <1>7, <1>8, <1>9 DEF SessionInv

LEMMA NextSerial ==
    ASSUME Serial, IInv, SerialInv, [Next]_vars
    PROVE  SerialInv'
<1>1. IInv'
  BY NextIInv
<1> SUFFICES ASSUME NEW s \in Ours PROVE SessionInv(s)'
  BY DEF SerialInv, Ours
<1>2. s \in Session /\ SessionInv(s)
  BY DEF Ours, SerialInv
<1>3. CASE UNCHANGED vars
  <2>1. now <= now'
    BY <1>2, <1>3, Typed DEF IInv, vars, transcripts
  <2>2. Untouched(s)
    BY <1>3, <2>1 DEF Untouched, Same, vars, transcripts, disk, tick, ghosts
  <2> QED BY <1>1, <1>2, <2>2, Frame
<1>4. ASSUME NEW r \in Session, Turn(r) \/ Expire(r) \/ HookStart(r) \/ Hook(r)
      PROVE  SessionInv(s)'
  <2>1. CASE r = s
    BY <1>1, <1>2, <1>4, <2>1, TurnOwn, ExpireOwn, HookOwn
  <2>2. CASE r # s
    BY <1>1, <1>2, <1>4, <2>2, OtherTurn, OtherHook
  <2> QED BY <2>1, <2>2
<1>5. ASSUME NEW w \in Worker, NEW r \in Session, WorkerOffer(w, r)
      PROVE  SessionInv(s)'
  <2>1. CASE r = s
    BY <1>1, <1>2, <1>5, <2>1, OfferOwn
  <2>2. CASE r # s
    BY <1>1, <1>2, <1>5, <2>2, OtherOffer
  <2> QED BY <2>1, <2>2
<1>6. ASSUME NEW w \in Worker, Distill(w)
      PROVE  SessionInv(s)'
  <2>1. CASE task[w].sid = s
    BY <1>1, <1>2, <1>6, <2>1, LandOwn, FailOwn DEF Distill
  <2>2. CASE task[w].sid # s
    BY <1>1, <1>2, <1>6, <2>2, OtherDistill
  <2> QED BY <2>1, <2>2
<1>7. ASSUME NEW w \in Worker,
             \/ WorkerTick(w) \/ WorkerDrainOnly(w) \/ WorkerDrain(w) \/ WorkerDefer(w)
             \/ WorkerOffered(w) \/ WorkerNext(w) \/ WorkerDone(w) \/ UtimeRaises(w)
      PROVE  SessionInv(s)'
  BY <1>1, <1>2, <1>7, TickOwn, IdleMovesOwn, DrainOwn, NextOwn, UtimeOwn
<1>8. ASSUME NEW a \in Actor, FileStep(a)
      PROVE  SessionInv(s)'
  BY <1>1, <1>2, <1>8, FileOwn, OtherFile
<1>9. ASSUME NEW a \in Actor PROVE ~Crash(a)
  <2>1. crashes = 0
    BY DEF Serial, IInv, TypeInv, TypeOK
  <2> QED BY <2>1 DEF Crash, Serial
<1> QED BY <1>3, <1>4, <1>5, <1>6, <1>7, <1>8, <1>9 DEF Next, Work

LEMMA SerialAlways == ASSUME Serial PROVE Spec => [](IInv /\ SerialInv)
<1>1. Init => IInv /\ SerialInv
  BY InitIInv, InitSerial
<1>2. IInv /\ SerialInv /\ [Next]_vars => (IInv /\ SerialInv)'
  BY NextIInv, NextSerial
<1> QED BY <1>1, <1>2, PTL DEF Spec

\* A quiet session's files are at rest.
LEMMA QuietRests ==
    ASSUME IInv, NEW s \in Session, SessionInv(s), Quiet(s)
    PROVE  AtRest(s)
<1>1. \A a \in Actor : task[a].pc = "idle" => task[a].todo = <<>>
  BY NotMarking DEF Marking, IInv
<1>2. s \in Actor /\ task[s].pc = "idle"
  BY DEF Actor, Quiet
<1>3. \A w \in Worker : task[w].todo = <<>> \/ task[w].sid # s
  <2> TAKE w \in Worker
  <2>1. task[w].pc = "idle" \/ task[w].sid # s
    BY DEF Quiet, WorkersOn
  <2> QED BY <1>1, <2>1 DEF Actor
<1> QED BY <1>1, <1>2, <1>3, NobodyInCall

\* With one worker that sessions keep off, what the next end of a session will
\* not offer again (resume_since, distill_queue.py) is in memory or was left out
\* by a decision.
THEOREM NoTurnSkippedAlways == ASSUME Serial PROVE Spec => []NoTurnSkipped
<1>1. IInv /\ SerialInv => NoTurnSkipped
  <2> SUFFICES ASSUME IInv, SerialInv, NEW s \in Session \ Codex, Quiet(s),
                      NEW t \in turns[s], t <= resume_since(s)
               PROVE  t \in Accounted(s)
    BY DEF NoTurnSkipped
  <2>1. s \in Session /\ SessionInv(s)
    BY DEF SerialInv, Ours
  <2> QED BY <2>1, QuietRests DEF AtRest, Behind
<1> QED BY <1>1, SerialAlways, PTL

\* Under the same discipline the door's same-session check (_continues_after)
\* lets every waiting item through: it starts after all the notes it follows.
THEOREM QueuedWillLandAlways == ASSUME Serial PROVE Spec => []QueuedWillLand
<1>1. IInv /\ SerialInv => QueuedWillLand
  <2> SUFFICES ASSUME IInv, SerialInv, NEW s \in Session \ Codex, Quiet(s), is_queued(s)
               PROVE  SameSession(s, queue[s]) = {}
    BY DEF QueuedWillLand
  <2>1. s \in Session /\ SessionInv(s)
    BY DEF SerialInv, Ours
  <2>2. AtRest(s)
    BY <2>1, QuietRests
  <2>3. Behind(s, queue[s].since)
    BY <2>2 DEF AtRest, resume_since
  <2>4. /\ queue[s].since \in Int
        /\ \A n \in notes[s] : n.since \in Int
    BY <2>1, Typed DEF IInv
  <2> QED BY <2>3, <2>4 DEF Behind, SameSession
<1> QED BY <1>1, SerialAlways, PTL

\* Under the same discipline a session is queued exactly when its pending or
\* its retry marker says so (markers.py, distill_queue.enqueue).
THEOREM MarkersAgreeAlways == ASSUME Serial PROVE Spec => []MarkersAgree
<1>1. IInv /\ SerialInv => MarkersAgree
  <2> SUFFICES ASSUME IInv, SerialInv, NEW s \in Session \ Codex, Quiet(s)
               PROVE  is_queued(s) <=> pending[s] \/ retry[s] > 0
    BY DEF MarkersAgree
  <2>1. s \in Session /\ SessionInv(s)
    BY DEF SerialInv, Ours
  <2> QED BY <2>1, QuietRests DEF AtRest
<1> QED BY <1>1, SerialAlways, PTL

\* Under the same discipline, and without a Codex session of short turns (it is
\* waved through with its whole text again and again), what failed for good is
\* not distilled again (the dead branch of distill_queue.enqueue).
THEOREM BuriedStaysBuriedAlways ==
    ASSUME Serial, Codex \cap Terse = {} PROVE Spec => []BuriedStaysBuried
<1>1. IInv /\ SerialInv => BuriedStaysBuried
  <2> SUFFICES ASSUME IInv, SerialInv, NEW w \in Worker, task[w].pc = "distill",
                      NEW x \in task[w].item.text, x \in buried[task[w].sid]
               PROVE  FALSE
    BY DEF BuriedStaysBuried
  <2>1. PICK s \in Session : s = task[w].sid
    BY WorkerReads DEF IInv
  <2>2. SessionInv(s)
    BY <2>1 DEF SerialInv, Ours
  <2>3. task[w].item = queue[s] /\ Window(s, queue[s]) /\ Behind(s, queue[s].since)
    BY <2>1, <2>2, WorkerAtHand
  <2>4. queue[s].since \in Int /\ \A b \in buried[s] : b \in Nat
    BY Typed DEF IInv
  <2>5. queue[s].since < x /\ x <= queue[s].since
    BY <2>1, <2>3 DEF Window, Behind
  <2> QED BY <2>1, <2>4, <2>5
<1> QED BY <1>1, SerialAlways, PTL

=============================================================================
