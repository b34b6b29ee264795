---------------------------- MODULE EventLedger ----------------------------
(***************************************************************************)
(* The event ledger (src/ohmyboring/adapters/events.py).  A workflow event *)
(* is posted to /events, where the engine (or the door, when it owns the   *)
(* events) inserts a row into event_log; a row that was not taken is       *)
(* appended to a spool file.  `make events-replay` posts the spooled rows  *)
(* again and replaces the file by the rows that were refused.              *)
(*                                                                         *)
(* Processes: one recorder for each event, replays started by hand, and    *)
(* the server, which may insert a row after its client has stopped waiting.*)
(***************************************************************************)
EXTENDS Naturals, Sequences, SequencesExt

CONSTANTS
    Event,     \* one value for each call of append_event
    Replay,    \* processes of `make events-replay`
    Mode,      \* settings of BORING_EVENT_SINK tried: of {"db", "both", "spool"}
    MaxFault   \* bound: refused posts, timeouts and killed replays

ASSUME LedgerAssumption ==
    /\ Event \cap Replay = {} /\ MaxFault \in Nat /\ Mode \subseteq {"db", "both", "spool"}

VARIABLES
    mode,       \* _event_sink_mode()
    recorder,   \* how far append_event has come with each event
    replay,     \* the replays: the rows still to post, the rows to keep, the rows taken
    request,    \* the POST each client waits for
    late,       \* POSTs nobody waits for any more, for each event
    table,      \* event_log: how many rows hold each event
    spool,      \* the lines of events.ndjson
    replaying,  \* the lines of events.ndjson.replaying, where it exists
    faults,
    doubtful,   \* history: events whose POST was taken without the caller acting on it
    overlapped  \* history: the spool changed while a replay had its lines in memory

vars == <<mode, recorder, replay, request, late, table, spool, replaying,
          faults, doubtful, overlapped>>

Client == Event \cup Replay
Lines == Seq(Event)
NoLines == [exists |-> FALSE, lines |-> <<>>]
IdleReplay == [pc |-> "idle", todo |-> <<>>, remaining |-> <<>>, taken |-> {}]

TypeOK ==
    /\ mode \in Mode
    /\ recorder \in [Event -> {"unsaid", "posting", "spooling", "recorded"}]
    /\ replay \in [Replay -> [pc : {"idle", "rows", "replace"}, todo : Lines,
                              remaining : Lines, taken : SUBSET Event]]
    /\ request \in [Client -> {"none", "sent", "stored"}]
    /\ late \in [Event -> Nat]
    /\ table \in [Event -> Nat]
    /\ spool \in [exists : BOOLEAN, lines : Lines]
    /\ replaying \in [exists : BOOLEAN, lines : Lines]
    /\ faults \in 0 .. MaxFault
    /\ doubtful \subseteq Event
    /\ overlapped \in BOOLEAN
    \* A client that waits for an answer has a row it waits for.
    /\ \A e \in Event : request[e] # "none" => recorder[e] = "posting"
    /\ \A r \in Replay : request[r] # "none" => replay[r].pc = "rows" /\ replay[r].todo # <<>>

Init ==
    /\ mode \in Mode
    /\ recorder = [e \in Event |-> "unsaid"]
    /\ replay = [r \in Replay |-> IdleReplay]
    /\ request = [c \in Client |-> "none"]
    /\ late = [e \in Event |-> 0]
    /\ table = [e \in Event |-> 0]
    /\ spool = NoLines
    /\ replaying = NoLines
    /\ faults = 0
    /\ doubtful = {}
    /\ overlapped = FALSE

Fault == faults < MaxFault /\ faults' = faults + 1
Row(c) == IF c \in Event THEN c ELSE Head(replay[c].todo)
Open(r) == replay[r].pc # "idle"

\* _event_spool_mode: without a sink, and with both, every row is spooled.
SpoolsAnyway == TRUE
SpoolsAlways == mode \in {"both", "spool"}

-----------------------------------------------------------------------------
(* Clients.                                                                *)

Begin(e) ==
    /\ recorder[e] = "unsaid"
    /\ IF mode = "spool"
       THEN recorder' = [recorder EXCEPT ![e] = "spooling"] /\ UNCHANGED request
       ELSE /\ recorder' = [recorder EXCEPT ![e] = "posting"]
            /\ request' = [request EXCEPT ![e] = "sent"]
    /\ UNCHANGED <<mode, replay, late, table, spool, replaying, faults, doubtful, overlapped>>

AppendLine(e) ==
    /\ recorder[e] = "spooling"
    /\ recorder' = [recorder EXCEPT ![e] = "recorded"]
    /\ spool' = [exists |-> TRUE, lines |-> Append(spool.lines, e)]
    /\ overlapped' = (overlapped \/ \E r \in Replay : Open(r))
    /\ UNCHANGED <<mode, replay, request, late, table, replaying, faults, doubtful>>

\* The whole file is read before the first row is posted.
ReadSpool(r) ==
    /\ ~Open(r) /\ spool.exists
    /\ replay' = [replay EXCEPT ![r] = [IdleReplay EXCEPT !.pc = "rows", !.todo = spool.lines]]
    /\ overlapped' = (overlapped \/ \E q \in Replay : Open(q))
    /\ UNCHANGED <<mode, recorder, request, late, table, spool, replaying, faults, doubtful>>

KeptNone(p, ok) == p.remaining
Kept(p, ok) == IF ok THEN p.remaining ELSE Append(p.remaining, Head(p.todo))
AfterRow(p, ok) ==
    [pc |-> "rows", todo |-> Tail(p.todo), remaining |-> Kept(p, ok),
     taken |-> IF ok THEN p.taken \cup {Head(p.todo)} ELSE p.taken]

ReturnedStillOpen(c, ok) ==
    /\ UNCHANGED <<request, replay>>
    /\ recorder' = IF c \in Event THEN [recorder EXCEPT ![c] = "recorded"] ELSE recorder

\* _try_store_in_engine has returned ok, to append_event or to replay_spool.
Returned(c, ok) ==
    /\ request' = [request EXCEPT ![c] = "none"]
    /\ IF c \in Event
       THEN /\ recorder' = [recorder EXCEPT ![c] =
                   IF SpoolsAlways \/ ~ok THEN "spooling" ELSE "recorded"]
            /\ UNCHANGED replay
       ELSE replay' = [replay EXCEPT ![c] = AfterRow(@, ok)] /\ UNCHANGED recorder

\* Without a sink the call fails at once.
PostRow(r) ==
    /\ replay[r].pc = "rows" /\ replay[r].todo # <<>> /\ request[r] = "none"
    /\ IF mode = "spool"
       THEN Returned(r, FALSE)
       ELSE request' = [request EXCEPT ![r] = "sent"] /\ UNCHANGED <<recorder, replay>>
    /\ UNCHANGED <<mode, late, table, spool, replaying, faults, doubtful, overlapped>>

\* The 2xx answer.
Taken(c) ==
    /\ request[c] = "stored"
    /\ Returned(c, TRUE)
    /\ UNCHANGED <<mode, late, table, spool, replaying, faults, doubtful, overlapped>>

\* The connection is refused, or the answer is an error: nothing was inserted.
RefusedRow(c) ==
    /\ request[c] = "sent" /\ Fault
    /\ Returned(c, FALSE)
    /\ UNCHANGED <<mode, late, table, spool, replaying, doubtful, overlapped>>

\* BORING_EVENT_SINK_TIMEOUT passes; the server goes on with the request.
TimedOut(c) ==
    /\ request[c] # "none" /\ Fault
    /\ late' = IF request[c] = "sent" THEN [late EXCEPT ![Row(c)] = @ + 1] ELSE late
    /\ doubtful' = doubtful \cup {Row(c)}
    /\ Returned(c, FALSE)
    /\ UNCHANGED <<mode, table, spool, replaying, overlapped>>

WriteRemaining(r) ==
    /\ replay[r].pc = "rows" /\ replay[r].todo = <<>>
    /\ replaying' = [exists |-> TRUE, lines |-> replay[r].remaining]
    /\ replay' = [replay EXCEPT ![r] = [@ EXCEPT !.pc = "replace"]]
    /\ UNCHANGED <<mode, recorder, request, late, table, spool, faults, doubtful, overlapped>>

\* tmp.replace(spool), which raises when another replay has moved the file.
ReplaceSpool(r) ==
    /\ replay[r].pc = "replace"
    /\ IF replaying.exists
       THEN spool' = replaying /\ replaying' = NoLines
       ELSE UNCHANGED <<spool, replaying>>
    /\ replay' = [replay EXCEPT ![r] = IdleReplay]
    /\ UNCHANGED <<mode, recorder, request, late, table, faults, doubtful, overlapped>>

\* Killed half way: the rows it has posted are still in the spool.
KillReplay(r) ==
    /\ Open(r) /\ Fault
    /\ replay' = [replay EXCEPT ![r] = IdleReplay]
    /\ request' = [request EXCEPT ![r] = "none"]
    /\ late' = IF request[r] = "sent" THEN [late EXCEPT ![Row(r)] = @ + 1] ELSE late
    /\ doubtful' = doubtful \cup replay[r].taken
                            \cup (IF request[r] = "none" THEN {} ELSE {Row(r)})
    /\ UNCHANGED <<mode, recorder, table, spool, replaying, overlapped>>

-----------------------------------------------------------------------------
(* The server: handle_event_ingest, or the door's own transaction.         *)

\* log_event: a plain INSERT, whose only key is the serial id.
log_event_uncommitted(e) == table' = table
log_event(e) == table' = [table EXCEPT ![e] = @ + 1]

Insert(c) ==
    /\ request[c] = "sent"
    /\ request' = [request EXCEPT ![c] = "stored"]
    /\ log_event(Row(c))
    /\ UNCHANGED <<mode, recorder, replay, late, spool, replaying, faults, doubtful, overlapped>>

InsertLate(e) ==
    /\ late[e] > 0
    /\ late' = [late EXCEPT ![e] = @ - 1]
    /\ log_event(e) \/ UNCHANGED table
    /\ UNCHANGED <<mode, recorder, replay, request, spool, replaying, faults, doubtful, overlapped>>

-----------------------------------------------------------------------------
Progress(c) == Insert(c) \/ Taken(c)
Fails(c) == RefusedRow(c) \/ TimedOut(c)
Recording(e) == AppendLine(e)
Replaying(r) == PostRow(r) \/ WriteRemaining(r) \/ ReplaceSpool(r)

Next ==
    \/ \E c \in Client : Progress(c) \/ Fails(c)
    \/ \E e \in Event : Begin(e) \/ Recording(e) \/ InsertLate(e)
    \/ \E r \in Replay : ReadSpool(r) \/ Replaying(r) \/ KillReplay(r)

Spec == Init /\ [][Next]_vars

\* A process that runs goes on, and the server answers; nobody has to start a replay.
Fairness ==
    /\ \A c \in Client : WF_vars(Progress(c))
    /\ \A e \in Event : WF_vars(Recording(e))
    /\ \A r \in Replay : WF_vars(Replaying(r))
FairSpec == Spec /\ Fairness

-----------------------------------------------------------------------------
Stored(e) == table[e] > 0
Spooled(e) == e \in ToSet(spool.lines)

\* An event whose append_event has returned is in the table or in the spool,
\* whatever was refused, timed out or killed: only lines appended, or read by a
\* second replay, while a replay holds the file in memory can be lost
\* (append_event and replay_spool).
NothingIsLost ==
    overlapped \/ \A e \in Event : recorder[e] = "recorded" => Stored(e) \/ Spooled(e)

\* With the default sink, an event has a second row only when a POST of it was
\* cut short after the server could take it, or two replays ran at once.
SecondRowIsDoubtful ==
    mode = "db" => \A e \in Event : table[e] > 1 => e \in doubtful \/ overlapped

\* Rows trapped in the spool come back once replays are run, whoever runs them.
TrappedRowsReturn ==
    (mode # "spool" /\ []~overlapped /\ \A r \in Replay : []<><<ReadSpool(r)>>_vars)
        => \A e \in Event : Spooled(e) ~> Stored(e)

\* replay_spool: "the engine keys on the row's own timestamp, so a replay is not
\* a second event".
ReplayIsNotASecondEvent == \A e \in Event : table[e] <= 1
=============================================================================
