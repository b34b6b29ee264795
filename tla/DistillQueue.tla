---------------------------- MODULE DistillQueue ----------------------------
(***************************************************************************)
(* The hand-off of ended sessions to the distiller: the marker files of    *)
(* agents/shared/markers.py, the queue of agents/shared/distill_queue.py,  *)
(* the SessionEnd/Stop hooks of agents/claude-code and agents/codex that   *)
(* fill it, and the tick of agents/hermes/ingest-worker.py that offers,    *)
(* drains and settles sessions.                                            *)
(*                                                                         *)
(* Nothing locks the directory.  Every marker transition is a list of      *)
(* single file operations, and each one is a step of its own here, so that *)
(* a hook and a worker on the same session interleave as they do on disk.  *)
(*                                                                         *)
(* Time is the clock now, advanced by every transcript turn: a file        *)
(* written after turn k and before turn k+1 has mtime k, and `_after` (a   *)
(* strict comparison) picks exactly the turns written later.               *)
(***************************************************************************)
EXTENDS Integers, Sequences, FiniteSets

CONSTANTS
    Session,       \* session ids, after safe_id
    Worker,        \* ingest-worker processes: the cron tick, a --drain-only run
    Codex,         \* the sessions that end through the Codex hook
    Automated,     \* the sessions is_automated_run recognises
    MaxTime,       \* bound: the turns written over all sessions
    MaxAttempts,   \* MARKER_RETRY_MAX_ATTEMPTS
    QueuePerTick,  \* BORING_QUEUE_PER_TICK
    Terse,         \* the sessions with turns so short that one is below the 500-character gate
    MaxCrash,      \* bound: processes killed in the middle of their work
    Faults         \* the environment's liberties, a subset of FaultKinds

\* "overlap":  a session ends, or goes on, while a worker holds it or its hook runs
\* "idle_end": a session ends again although no turn was added
\* "lost_ack": the door stores the note and its answer does not arrive
FaultKinds == {"overlap", "idle_end", "lost_ack"}

Actor == Session \cup Worker      \* a session stands for its own hook run

None == -1                        \* Python's None for a time: before all times
Time == 1 .. MaxTime
Stamp == 0 .. MaxTime
OptStamp == Stamp \cup {None}

\* QueueItem, its text reduced to the set of turns it holds.
Item == [text : SUBSET Time, since : OptStamp, at : OptStamp]
NoItem == [text |-> {}, since |-> None, at |-> None]

Op == {"write_ts", "utime_ts", "rm_ts", "write_pending", "rm_pending",
       "write_retry", "rm_retry", "write_dead", "rm_dead",
       "put_item", "rm_item", "rm_item_if_dead"}

HookPc == {"idle", "resume", "read_done", "extract", "enqueue", "marking"}
WorkerPc == {"idle", "offer", "offering", "drain", "next", "distill", "settling"}

\* What one process holds in its variables; todo is what is left of the file
\* operations of the call it is in.
Task == [pc : HookPc \cup WorkerPc, sid : Session, item : Item,
         tries : 0 .. MaxAttempts, todo : Seq(Op)]

ASSUME ConstantsAssumption ==
    /\ Session # {} /\ IsFiniteSet(Session) /\ Session \cap Worker = {}
    /\ Codex \subseteq Session /\ Automated \subseteq Session /\ Terse \subseteq Session
    /\ MaxTime \in Nat /\ MaxAttempts \in Nat \ {0} /\ MaxCrash \in Nat
    /\ QueuePerTick \in Nat \ {0}
    /\ Faults \subseteq FaultKinds

VARIABLES
    now, turns, byUser, grew,          \* the transcripts
    ts, pending, retry, dead, queue,   \* the marker directory and the queue
    fresh,                             \* which ages are still below their TTL
    task, cands, room, batch,          \* the processes
    notes,                             \* the session's notes in the vault
    waved, skipped, buried,            \* turns left out of memory on purpose
    crashes

transcripts == <<now, turns, byUser, grew>>
disk == <<ts, pending, retry, dead, queue>>
tick == <<cands, room, batch>>
ghosts == <<waved, skipped, buried>>
vars == <<transcripts, disk, fresh, task, tick, notes, ghosts, crashes>>

Note == [since : OptStamp, text : SUBSET Time, live : BOOLEAN]
Entry == [sid : Session, item : Item]
FreshKind == {"pending", "retry", "transcript"}

TypeOK ==
    /\ now \in Stamp
    /\ turns \in [Session -> SUBSET Time]
    /\ byUser \in SUBSET Time
    /\ grew \in [Session -> BOOLEAN]
    /\ ts \in [Session -> OptStamp]
    /\ pending \in [Session -> BOOLEAN]
    /\ retry \in [Session -> 0 .. MaxAttempts - 1]
    /\ dead \in [Session -> OptStamp]
    /\ queue \in [Session -> Item]
    /\ fresh \in SUBSET (FreshKind \X Session)
    /\ task \in [Actor -> Task]
    /\ cands \in [Worker -> SUBSET Session]
    /\ room \in [Worker -> 0 .. QueuePerTick]
    /\ batch \in [Worker -> SUBSET Entry]
    /\ notes \in [Session -> SUBSET Note]
    /\ waved \in [Session -> SUBSET Time]
    /\ skipped \in [Session -> SUBSET Time]
    /\ buried \in [Session -> SUBSET Time]
    /\ crashes \in 0 .. MaxCrash

Calling(pc, s, item, tries, ops) ==
    [pc |-> pc, sid |-> s, item |-> item, tries |-> tries, todo |-> ops]
Holding(pc, s, item) == Calling(pc, s, item, 0, <<>>)
Idle(s) == Holding("idle", s, NoItem)
SomeSession == CHOOSE s \in Session : TRUE
Home(a) == IF a \in Session THEN a ELSE SomeSession

Init ==
    /\ now = 0
    /\ turns = [s \in Session |-> {}]
    /\ byUser = {}
    /\ grew = [s \in Session |-> FALSE]
    /\ ts = [s \in Session |-> None]
    /\ pending = [s \in Session |-> FALSE]
    /\ retry = [s \in Session |-> 0]
    /\ dead = [s \in Session |-> None]
    /\ queue = [s \in Session |-> NoItem]
    /\ fresh = {}
    /\ task = [a \in Actor |-> Idle(Home(a))]
    /\ cands = [w \in Worker |-> {}]
    /\ room = [w \in Worker |-> 0]
    /\ batch = [w \in Worker |-> {}]
    /\ notes = [s \in Session |-> {}]
    /\ waved = [s \in Session |-> {}]
    /\ skipped = [s \in Session |-> {}]
    /\ buried = [s \in Session |-> {}]
    /\ crashes = 0

-----------------------------------------------------------------------------
(* The file operations of each call, in the order the code makes them.     *)

mark_done_keeping_retry == <<"write_ts", "rm_pending", "rm_dead">>
mark_done == <<"write_ts", "rm_pending", "rm_retry", "rm_dead">>
mark_done_upto_now == mark_done
mark_done_upto == Append(mark_done, "utime_ts")
mark_pending == <<"write_pending", "rm_ts", "rm_dead">>
mark_retry_late(attempts) ==
    IF attempts > MaxAttempts
    THEN <<"write_dead", "rm_ts", "rm_pending", "rm_retry">>
    ELSE <<"write_retry", "rm_ts", "rm_pending">>
mark_retry(attempts) ==
    IF attempts >= MaxAttempts
    THEN <<"write_dead", "rm_ts", "rm_pending", "rm_retry">>
    ELSE <<"write_retry", "rm_ts", "rm_pending">>
enqueue_marker_first == Append(mark_pending, "put_item")
enqueue == <<"put_item">> \o mark_pending

\* Process a goes on with the variables t.
Goes(a, t) == task' = [task EXCEPT ![a] = t]

is_queued(s) == queue[s] # NoItem
AfterOrAt(text, since) == {t \in text : t >= since}
After(text, since) == {t \in text : t > since}
read_retry_count_as_zero(s) == 0
read_retry_count(s) == retry[s]
queued_since_start(s) == None
queued_since(s) == queue[s].since
TooShort(s, text) == s \in Terse /\ Cardinality(text) < 2

WorkersOn(s) ==
    {w \in Worker : \/ task[w].pc # "idle" /\ task[w].sid = s
                    \/ s \in cands[w]
                    \/ \E e \in batch[w] : e.sid = s}

-----------------------------------------------------------------------------
(* The session itself.                                                     *)

\* A hook, or the worker's offer, read the transcript and has not queued or marked it yet.
TextInHand(s) == \E a \in Actor :
    task[a].sid = s /\ task[a].pc \in (HookPc \cup {"offering"}) \ {"idle"}

Turn(s) ==
    /\ now < MaxTime
    /\ "overlap" \in Faults \/ ~TextInHand(s)
    /\ now' = now + 1
    /\ turns' = [turns EXCEPT ![s] = @ \cup {now + 1}]
    /\ \E user \in BOOLEAN : byUser' = IF user THEN byUser \cup {now + 1} ELSE byUser
    /\ grew' = [grew EXCEPT ![s] = TRUE]
    /\ fresh' = fresh \cup {<<"transcript", s>>}
    /\ UNCHANGED <<disk, task, tick, notes, ghosts, crashes>>

\* PENDING_TTL, RETRY_TTL and STABLE_AGE_S run out.
Expire(s) ==
    \E k \in FreshKind :
        /\ <<k, s>> \in fresh
        /\ fresh' = fresh \ {<<k, s>>}
        /\ UNCHANGED <<transcripts, disk, task, tick, notes, ghosts, crashes>>

-----------------------------------------------------------------------------
(* One file operation of whatever call process a is in.                    *)

\* Where a process goes once its operations are done.
Return(pc) == CASE pc = "offering" -> "offer" [] pc = "settling" -> "next" [] OTHER -> "idle"

AfterStep(a, rest) ==
    IF rest = <<>> THEN Holding(Return(task[a].pc), Home(a), NoItem)
    ELSE Calling(task[a].pc, task[a].sid, task[a].item, task[a].tries, rest)

\* os.utime on a marker another process has just unlinked raises: the worker's
\* whole tick ends there.
UtimeFails(a) == Head(task[a].todo) = "utime_ts" /\ ts[task[a].sid] = None

FileStep(a) ==
    LET s == task[a].sid
        op == Head(task[a].todo)
        was == task[a]
    IN  /\ was.todo # <<>>
        /\ ~UtimeFails(a)
        /\ ts' = [ts EXCEPT ![s] = CASE op = "write_ts" -> now
                                     [] op = "utime_ts" -> was.item.at
                                     [] op = "rm_ts" -> None
                                     [] OTHER -> @]
        /\ pending' = [pending EXCEPT ![s] = CASE op = "write_pending" -> TRUE
                                               [] op = "rm_pending" -> FALSE
                                               [] OTHER -> @]
        /\ retry' = [retry EXCEPT ![s] = CASE op = "write_retry" -> was.tries
                                           [] op = "rm_retry" -> 0
                                           [] OTHER -> @]
        /\ dead' = [dead EXCEPT ![s] = CASE op = "write_dead" -> now
                                         [] op = "rm_dead" -> None
                                         [] OTHER -> @]
        /\ queue' = [queue EXCEPT ![s] =
                        CASE op = "put_item" -> was.item
                          [] op = "rm_item" -> NoItem
                          [] op = "rm_item_if_dead" /\ dead[s] # None -> NoItem
                          [] OTHER -> @]
        /\ fresh' = CASE op = "write_pending" -> fresh \cup {<<"pending", s>>}
                      [] op = "write_retry" -> fresh \cup {<<"retry", s>>}
                      [] op = "rm_pending" -> fresh \ {<<"pending", s>>}
                      [] op = "rm_retry" -> fresh \ {<<"retry", s>>}
                      [] OTHER -> fresh
        /\ buried' = [buried EXCEPT ![s] = IF op = "write_dead" THEN @ \cup turns[s] ELSE @]
        /\ Goes(a, AfterStep(a, Tail(was.todo)))
        /\ UNCHANGED <<transcripts, tick, notes, waved, skipped, crashes>>

UtimeRaises(w) ==
    /\ task[w].todo # <<>>
    /\ UtimeFails(w)
    /\ Goes(w, Idle(Home(w)))
    /\ batch' = [batch EXCEPT ![w] = {}]
    /\ UNCHANGED <<transcripts, disk, fresh, cands, room, notes, ghosts, crashes>>

-----------------------------------------------------------------------------
(* The SessionEnd/Stop hook of session s.                                  *)

HookUnchanged == UNCHANGED <<disk, fresh, tick, notes, skipped, buried, crashes>>

HookStart(s) ==
    /\ task[s].pc = "idle"
    /\ turns[s] # {}
    /\ "overlap" \in Faults \/ WorkersOn(s) = {}
    /\ "idle_end" \in Faults \/ grew[s]
    /\ Goes(s, Holding(IF s \in Codex THEN "extract" ELSE "resume", s,
                       [text |-> turns[s], since |-> None, at |-> None]))
    /\ UNCHANGED <<transcripts, waved>> /\ HookUnchanged

\* An automated run is marked done and never queued, unless
\* BORING_DISTILL_NO_MARK makes _mark a no-op.
HookAutomated(s) ==
    /\ task[s].pc = "resume" /\ s \in Automated
    /\ \E noMark \in BOOLEAN :
          IF noMark
          THEN Goes(s, Idle(s)) /\ UNCHANGED waved
          ELSE /\ Goes(s, Calling("marking", s, NoItem, 0, mark_done))
               /\ waved' = [waved EXCEPT ![s] = @ \cup task[s].item.text]
    /\ grew' = [grew EXCEPT ![s] = FALSE]
    /\ UNCHANGED <<now, turns, byUser>> /\ HookUnchanged

\* resume_since up to its last line: the dead marker, then a queued item.
HookResume(s) ==
    /\ task[s].pc = "resume" /\ s \notin Automated
    /\ LET since == IF dead[s] # None THEN dead[s] ELSE queued_since(s)
       IN Goes(s, Holding(IF dead[s] = None /\ ~is_queued(s) THEN "read_done" ELSE "extract", s,
                          [task[s].item EXCEPT !.since = since]))
    /\ UNCHANGED <<transcripts, waved>> /\ HookUnchanged

\* The last line of resume_since: the done marker, read after the queue.
HookReadDone(s) ==
    /\ task[s].pc = "read_done"
    /\ Goes(s, Holding("extract", s, [task[s].item EXCEPT !.since = ts[s]]))
    /\ UNCHANGED <<transcripts, waved>> /\ HookUnchanged

\* extract_since, the choice between the tail and the whole text, and the
\* length gate.  A dead session sends its tail only if a user turn is in it.
HookExtract(s) ==
    LET since == task[s].item.since
        tail == IF since = None THEN {} ELSE After(turns[s], since)
        useTail == tail # {} /\ (dead[s] = None \/ tail \cap byUser # {})
        text == IF useTail THEN tail ELSE task[s].item.text
    IN  /\ task[s].pc = "extract"
        /\ grew' = [grew EXCEPT ![s] = FALSE]
        /\ \/ /\ ~TooShort(s, text)
              /\ Goes(s, Holding("enqueue", s, [text |-> text, at |-> now,
                             since |-> IF useTail THEN since ELSE None]))
              /\ UNCHANGED waved
           \/ /\ TooShort(s, text)
              /\ Goes(s, Calling("marking", s, NoItem, 0, mark_done))
              /\ waved' = [waved EXCEPT ![s] = @ \cup text]
           \/ /\ TooShort(s, text)      \* BORING_DISTILL_NO_MARK
              /\ Goes(s, Idle(s))
              /\ UNCHANGED waved
           \/ /\ TooShort(s, text) /\ s \in Codex   \* should_retry_short_extract
              /\ LET attempts == read_retry_count(s) + 1
                 IN Goes(s, Calling("marking", s, NoItem, attempts, mark_retry(attempts)))
              /\ waved' = [waved EXCEPT ![s] = @ \cup text]
        /\ UNCHANGED <<now, turns, byUser>> /\ HookUnchanged

\* distill_queue.enqueue: a dead session without a tail is not queued.
HookEnqueue(s) ==
    /\ task[s].pc = "enqueue"
    /\ IF dead[s] # None /\ task[s].item.since = None
       THEN Goes(s, Idle(s))
       ELSE Goes(s, Calling("marking", s, task[s].item, 0, enqueue))
    /\ UNCHANGED <<transcripts, waved>> /\ HookUnchanged

-----------------------------------------------------------------------------
(* A tick of worker w.                                                     *)

WorkerUnchanged == UNCHANGED <<transcripts, disk, fresh, buried, crashes>>

_eligible(s) ==
    /\ turns[s] # {}
    /\ ts[s] = None /\ dead[s] = None /\ ~is_queued(s)
    /\ ~(pending[s] /\ <<"pending", s>> \in fresh)
    /\ ~(retry[s] > 0 /\ <<"retry", s>> \in fresh)
    /\ <<"transcript", s>> \notin fresh

QueuedMarked == {s \in Session : is_queued(s) /\ (pending[s] \/ retry[s] > 0)}
Queued == {s \in Session : is_queued(s)}
Room == LET free == QueuePerTick - Cardinality(Queued) IN IF free > 0 THEN free ELSE 0

HooksKeepOff == "overlap" \in Faults \/ \A s \in Session : task[s].pc = "idle"

\* main: the scan of the transcripts, then the room left in the queue.
WorkerTick(w) ==
    /\ task[w].pc = "idle"
    /\ HooksKeepOff
    /\ Goes(w, Holding("offer", Home(w), NoItem))
    /\ cands' = [cands EXCEPT ![w] = {s \in Session : _eligible(s)}]
    /\ room' = [room EXCEPT ![w] = Room]
    /\ UNCHANGED <<batch, notes, waved, skipped>> /\ WorkerUnchanged

\* main --drain-only
WorkerDrainOnly(w) ==
    /\ task[w].pc = "idle"
    /\ HooksKeepOff
    /\ Goes(w, Holding("drain", Home(w), NoItem))
    /\ UNCHANGED <<tick, notes, waved, skipped>> /\ WorkerUnchanged

\* main: one candidate of the offer loop, the oldest transcript first.
WorkerOffer(w, s) ==
    /\ task[w].pc = "offer" /\ room[w] > 0
    /\ s \in cands[w]
    /\ \A other \in cands[w] : \E t \in turns[other] : \A u \in turns[s] : u <= t
    /\ cands' = [cands EXCEPT ![w] = @ \ {s}]
    /\ LET item == [text |-> turns[s], since |-> None, at |-> now]
       IN IF TooShort(s, item.text)
          THEN /\ Goes(w, Calling("offering", s, NoItem, 0, mark_done))
               /\ waved' = [waved EXCEPT ![s] = @ \cup item.text]
               /\ UNCHANGED room
          ELSE /\ Goes(w, IF dead[s] # None THEN task[w]
                          ELSE Calling("offering", s, item, 0, enqueue))
               /\ room' = [room EXCEPT ![w] = @ - 1]
               /\ UNCHANGED waved
    /\ grew' = [grew EXCEPT ![s] = FALSE]
    /\ UNCHANGED <<now, turns, byUser, disk, fresh, batch, notes, skipped, buried, crashes>>

WorkerOffered(w) ==
    /\ task[w].pc = "offer"
    /\ room[w] = 0 \/ cands[w] = {}
    /\ Goes(w, Holding("drain", Home(w), NoItem))
    /\ cands' = [cands EXCEPT ![w] = {}]
    /\ room' = [room EXCEPT ![w] = 0]
    /\ UNCHANGED <<batch, notes, waved, skipped>> /\ WorkerUnchanged

\* drain(limit): the oldest items by enqueued_at, at most QueuePerTick.
IsDrain(chosen) ==
    /\ chosen \subseteq Queued
    /\ Cardinality(chosen) <= QueuePerTick
    /\ chosen # Queued => Cardinality(chosen) = QueuePerTick
    /\ \A s \in chosen, t \in Queued \ chosen : queue[s].at <= queue[t].at

WorkerDrain(w) ==
    /\ task[w].pc = "drain" /\ Queued # {}
    /\ HooksKeepOff
    /\ \E chosen \in SUBSET Session :
          /\ IsDrain(chosen)
          /\ batch' = [batch EXCEPT ![w] = {[sid |-> s, item |-> queue[s]] : s \in chosen}]
    /\ Goes(w, Holding("next", Home(w), NoItem))
    /\ UNCHANGED <<cands, room, notes, waved, skipped>> /\ WorkerUnchanged

\* Nothing queued, or the engine, the door or the LLM is unreachable: no try is spent.
WorkerDefer(w) ==
    /\ task[w].pc = "drain"
    /\ Goes(w, Idle(Home(w)))
    /\ UNCHANGED <<tick, notes, waved, skipped>> /\ WorkerUnchanged

\* _drain_one on the next item: one already done is removed unread.
WorkerNext(w) ==
    /\ task[w].pc = "next" /\ batch[w] # {}
    /\ \E e \in batch[w] :
          /\ \A other \in batch[w] : e.item.at <= other.item.at
          /\ batch' = [batch EXCEPT ![w] = @ \ {e}]
          /\ Goes(w, IF ts[e.sid] # None
                     THEN Calling("settling", e.sid, e.item, 0, <<"rm_item">>)
                     ELSE Holding("distill", e.sid, e.item))
    /\ UNCHANGED <<cands, room, notes, waved, skipped>> /\ WorkerUnchanged

WorkerDone(w) ==
    /\ task[w].pc = "next" /\ batch[w] = {}
    /\ Goes(w, Idle(Home(w)))
    /\ UNCHANGED <<tick, notes, waved, skipped>> /\ WorkerUnchanged

\* The door's session branch of dedup: _continues_after.
SameSession(s, item) == {n \in notes[s] : ~(item.since > n.since)}

\* The notes of s after the door remembered item: a new note, a duplicate
\* dropped, or one replaced because the new text scored higher.
Remembered(s, item) ==
    LET new == [since |-> item.since, text |-> item.text, live |-> TRUE]
        same == SameSession(s, item)
    IN  IF same = {} THEN {notes[s] \cup {new}}
        ELSE {notes[s]} \cup
             {(notes[s] \ {n}) \cup {[n EXCEPT !.live = FALSE], new} : n \in same}

Settle(w, tries, ops) == Goes(w, Calling("settling", task[w].sid, task[w].item, tries, ops))

\* distill_and_remember answered ok.
WorkerRemember(w) ==
    LET s == task[w].sid IN
    /\ task[w].pc = "distill"
    /\ \E after \in Remembered(s, task[w].item) : notes' = [notes EXCEPT ![s] = after]
    /\ Settle(w, 0, Append(mark_done_upto, "rm_item"))
    /\ UNCHANGED <<tick, waved, skipped>> /\ WorkerUnchanged

\* The model decided SKIP: ok without a note.
WorkerSkip(w) ==
    /\ task[w].pc = "distill"
    /\ skipped' = [skipped EXCEPT ![task[w].sid] = @ \cup task[w].item.text]
    /\ Settle(w, 0, Append(mark_done_upto, "rm_item"))
    /\ UNCHANGED <<tick, notes, waved>> /\ WorkerUnchanged

\* Not ok, or the graph raised; with lost_ack the door may have stored the note.
WorkerFail(w) ==
    LET s == task[w].sid
        attempts == read_retry_count(s) + 1
    IN  /\ task[w].pc = "distill"
        /\ \/ UNCHANGED notes
           \/ /\ "lost_ack" \in Faults
              /\ \E after \in Remembered(s, task[w].item) : notes' = [notes EXCEPT ![s] = after]
        /\ Settle(w, attempts, Append(mark_retry(attempts), "rm_item_if_dead"))
        /\ UNCHANGED <<tick, waved, skipped>> /\ WorkerUnchanged

-----------------------------------------------------------------------------
Crash(a) ==
    /\ crashes < MaxCrash
    /\ task[a].pc # "idle"
    /\ crashes' = crashes + 1
    /\ Goes(a, Idle(Home(a)))
    /\ cands' = [w \in Worker |-> IF w = a THEN {} ELSE cands[w]]
    /\ room' = [w \in Worker |-> IF w = a THEN 0 ELSE room[w]]
    /\ batch' = [w \in Worker |-> IF w = a THEN {} ELSE batch[w]]
    /\ UNCHANGED <<transcripts, disk, fresh, notes, ghosts>>

Hook(s) ==
    HookAutomated(s) \/ HookResume(s) \/ HookReadDone(s) \/ HookExtract(s) \/ HookEnqueue(s)

Distill(w) == WorkerRemember(w) \/ WorkerSkip(w) \/ WorkerFail(w)

Work(w) ==
    \/ (\E s \in Session : WorkerOffer(w, s)) \/ WorkerOffered(w)
    \/ WorkerNext(w) \/ WorkerDone(w) \/ Distill(w) \/ UtimeRaises(w)

Next ==
    \/ \E s \in Session : Turn(s) \/ Expire(s) \/ HookStart(s) \/ Hook(s)
    \/ \E w \in Worker : \/ WorkerTick(w) \/ WorkerDrainOnly(w)
                         \/ WorkerDrain(w) \/ WorkerDefer(w) \/ Work(w)
    \/ \E a \in Actor : FileStep(a) \/ Crash(a)

Spec == Init /\ [][Next]_vars

\* A process that runs keeps running; ages run out; hermes cron ticks again and
\* again, and the engine, the door and the LLM are reachable infinitely often.
\* Nothing obliges a session to write, to end, or a distillation to succeed.
Fairness ==
    /\ \A s \in Session : WF_vars(Hook(s) \/ FileStep(s)) /\ WF_vars(Expire(s))
    /\ \A w \in Worker : /\ SF_vars(WorkerTick(w)) /\ SF_vars(WorkerDrain(w))
                         /\ WF_vars(WorkerDefer(w) \/ Work(w) \/ FileStep(w))

FairSpec == Spec /\ Fairness

-----------------------------------------------------------------------------
(* What the hand-off promises.                                             *)

Remembered_turns(s) == UNION {n.text : n \in {m \in notes[s] : m.live}}
Accounted(s) == Remembered_turns(s) \cup waved[s] \cup skipped[s] \cup buried[s]

\* No process is in the middle of something for s.
Quiet(s) == task[s].pc = "idle" /\ WorkersOn(s) = {}

resume_since(s) == IF dead[s] # None THEN dead[s]
                   ELSE IF is_queued(s) THEN queue[s].since ELSE ts[s]

\* A turn the next end of the session will not offer again (it is not after
\* resume_since) is in memory, or was left out by a decision: too short, an
\* automated run, skipped by the model, or given up with the dead letter.
NoTurnSkipped ==
    \A s \in Session \ Codex : Quiet(s) =>
        \A t \in turns[s] : t <= resume_since(s) => t \in Accounted(s)

\* What waits in the queue will become a note: the door's same-session check
\* lets it through, unless memory holds all of it already.
QueuedWillLand ==
    \A s \in Session \ Codex : Quiet(s) /\ is_queued(s) =>
        SameSession(s, queue[s]) = {} \/ queue[s].text \subseteq Accounted(s)

\* Content that failed for good is not distilled again: a dead session comes
\* back only with what was said after its death (distill_queue.enqueue).
BuriedStaysBuried ==
    \A w \in Worker : task[w].pc = "distill" =>
        task[w].item.text \cap buried[task[w].sid] = {}

\* A waiting item is marked as waiting: a session is queued exactly when it is
\* pending or between two tries, so no marker points at nothing.
MarkersAgree ==
    \A s \in Session \ Codex : Quiet(s) => (is_queued(s) <=> pending[s] \/ retry[s] > 0)

\* A waiting item is never hidden behind a done or a dead marker, where the
\* worker would throw it away unread, however hooks and workers interleave.
\* Only a session waved through as too short or automated may leave one.
QueuedIsReachable ==
    crashes = 0 =>
        \A s \in Session : Quiet(s) /\ is_queued(s) /\ waved[s] = {} =>
            ts[s] = None /\ dead[s] = None

\* mark_done's docstring: the done marker's mtime says how far the session is
\* in memory.
DoneTimeIsInMemory ==
    \A s \in Session : Quiet(s) =>
        \A t \in turns[s] : t <= ts[s] => t \in Accounted(s)

\* The head of the queue does not block: every waiting item leaves, by success,
\* skip or dead letter, even if the session keeps ending and every try fails.
Drained == \A s \in Session : is_queued(s) ~> ~is_queued(s)

\* Every session that said something ends up done or dead, also when a process
\* was killed between the queue file and its marker.
Settled == \A s \in Session : turns[s] # {} ~> (ts[s] # None \/ dead[s] # None)
=============================================================================
