------------------------------ MODULE Remember ------------------------------
(***************************************************************************)
(* The write path of a note.  A remember call passes the gates and the     *)
(* duplicate check, takes the next wiki number, writes a file, ingests it  *)
(* and links the notes it supersedes.  Two programs do this on one vault   *)
(* and one database: the door (remember/writer.py, one transaction, which  *)
(* is committed last) and the engine (serve/mcp.rs, statement by           *)
(* statement, the ingest under the sync lock).  The engine's sync reads    *)
(* every file again.                                                       *)
(*                                                                         *)
(* A text is the part (since, upto] of its session's turns.  Topics stand  *)
(* for what the token overlaps and the embedding distance compare.         *)
(***************************************************************************)
EXTENDS Integers, FiniteSets, FiniteSetsExt

CONSTANTS
    Door,        \* remember calls the door serves itself, by the order of their arrival
    Engine,      \* remember calls the engine serves, in the same order
    Note,        \* the notes that are sent, as records of NoteField
    NoSession,   \* the session of a note nobody's session produced
    MaxNumber,   \* bound: the wiki numbers of an instance
    MaxFault,    \* bound: failures, restarts and files removed by hand
    Faults       \* enabled faults: of {"fail", "lost_ack", "kill", "remove"}

Call == Door \cup Engine
Number == 1 .. MaxNumber
NoteField == {"session", "since", "upto", "score", "evidence", "title", "topic", "author", "fix"}

ASSUME RememberAssumption ==
    /\ Call \subseteq Nat /\ Door \cap Engine = {} /\ IsFiniteSet(Call)
    /\ MaxNumber \in Nat /\ Cardinality(Call) <= MaxNumber /\ MaxFault \in Nat
    /\ \A m \in Note : /\ DOMAIN m = NoteField
                       /\ m.since \in Nat /\ m.upto \in Nat /\ m.score \in Nat
                       /\ m.evidence \in BOOLEAN /\ m.fix \in BOOLEAN

VARIABLES
    files,    \* vault/wiki: the note in each file, EmptyFile between create and write
    docs,     \* table document (and its chunks), committed rows
    graph,    \* the numbers whose note's graph is built
    edges,    \* the committed supersedes edges
    call,     \* the remember calls
    locked,   \* sync_lock is held by an engine call
    faults,
    gone,     \* history: the notes whose files were removed by hand
    used      \* history: the numbers a file or a row ever had

vars == <<files, docs, graph, edges, call, locked, faults, gone, used>>

NoFile == [kind |-> "none"]
EmptyFile == [kind |-> "empty"]
NoNote == [kind |-> "no note"]
Idle == [pc |-> "idle", note |-> NoNote, owner |-> FALSE, seen |-> {}, branch |-> "none",
         outcome |-> "none", targets |-> {}, next |-> 0, num |-> 0, linked |-> {}]
Ended == {"answered", "failed"}
Active == {c \in Call : call[c].pc \notin {"idle"} \cup Ended}
HasNumber(c) == call[c].num > 0

TypeOK ==
    /\ files \in [Number -> Note \cup {NoFile, EmptyFile}]
    /\ docs \in [Number -> Note \cup {NoNote}]
    /\ graph \subseteq Number
    /\ edges \subseteq Number \X Number
    /\ call \in [Call -> [
           pc : {"idle", "look", "create", "write", "ingest", "graph", "link"} \cup Ended,
           note : Note \cup {NoNote}, owner : BOOLEAN, seen : SUBSET Number,
           branch : {"none", "same_session", "probable_session", "exact_title", "embedding"},
           outcome : {"none", "stored", "superseded", "skipped", "refused"},
           targets : SUBSET Number, next : 0 .. MaxNumber,
           num : 0 .. MaxNumber, linked : SUBSET Number]]
    /\ locked \in BOOLEAN
    /\ faults \in 0 .. MaxFault
    /\ gone \subseteq Note
    /\ used \subseteq Number
    \* The lock is held by the one engine call whose ingest is under way.
    /\ locked <=> \E c \in Engine : call[c].pc = "graph"
    /\ \A c, d \in Engine : call[c].pc = "graph" /\ call[d].pc = "graph" => c = d
    \* A number that was created belongs to one call.
    /\ \A c, d \in Call : HasNumber(c) /\ call[c].num = call[d].num => c = d

Init ==
    /\ files = [n \in Number |-> NoFile]
    /\ docs = [n \in Number |-> NoNote]
    /\ graph = {}
    /\ edges = {}
    /\ call = [c \in Call |-> Idle]
    /\ locked = FALSE
    /\ faults = 0
    /\ gone = {}
    /\ used = {}

Fault(kind) == kind \in Faults /\ faults < MaxFault /\ faults' = faults + 1

Written == {n \in Number : files[n] \in Note}
HasDoc == {n \in Number : docs[n] \in Note}

-----------------------------------------------------------------------------
(* The duplicate check.                                                    *)

\* _continues_after: the door's mirror alone has this condition.
ContinuesNever(incoming, existing) == FALSE
Continues(incoming, existing) == incoming.since > existing.since

SameSession(c, incoming, existing) ==
    /\ incoming.session # NoSession /\ existing.session = incoming.session
    /\ c \in Door => ~Continues(incoming, existing)

probable_session_duplicate(incoming, existing) ==
    /\ incoming.session # NoSession /\ existing.session # NoSession
    /\ incoming.topic = existing.topic

Matches(c, m) ==
    {[num |-> n,
      branch |-> IF SameSession(c, m, files[n]) THEN "same_session"
                 ELSE IF probable_session_duplicate(m, files[n]) THEN "probable_session"
                 ELSE "exact_title"]
     : n \in {k \in Written : \/ SameSession(c, m, files[k])
                              \/ probable_session_duplicate(m, files[k])
                              \/ files[k].title = m.title}}

\* newest_match: the highest number.
Oldest(matches) == {f \in matches : \A g \in matches : g.num >= f.num}
Newest(matches) == {f \in matches : \A g \in matches : g.num <= f.num}

pick_duplicate(matches) ==
    LET same == {f \in matches : f.branch = "same_session"}
    IN Newest(IF same # {} THEN same ELSE matches)

\* check_duplicate: files first; the nearest document only when no file matches.
\* Among documents of one topic any may be the nearest.
Found(c, m) ==
    IF Matches(c, m) # {} THEN pick_duplicate(Matches(c, m))
    ELSE {[num |-> n, branch |-> "embedding"] : n \in {k \in HasDoc : docs[k].topic = m.topic}}

Delta == 8
should_replace_duplicate(branch, incoming, existing) ==
    /\ branch \in {"same_session", "probable_session"}
    /\ \/ incoming.score >= existing.score + Delta
       \/ incoming.score > existing.score /\ incoming.evidence /\ ~existing.evidence

\* dedup_gate, with gated_by and may_rewrite; an embedding match has no author.
dedup_gate(m, owner, f) ==
    LET owners == f.branch # "embedding" /\ files[f.num].author = "owner"
    IN IF owner /\ ~owners THEN "stored"
       ELSE IF f.branch # "embedding"
               /\ should_replace_duplicate(f.branch, m, files[f.num])
               /\ (owner \/ ~owners)
            THEN "superseded"
       ELSE "skipped"

-----------------------------------------------------------------------------
(* A call.                                                                 *)

Turns(m) == (m.since + 1) .. m.upto
OfSession(m) == {c \in Call : call[c].note # NoNote /\ call[c].note.session = m.session}
Answered(c) == call[c].pc = "answered" /\ call[c].outcome # "refused"

\* What the distill queue hands over: a text that starts where an answered one
\* ended, never one that was answered, and the same text again after a failure.
Sendable(m) ==
    m.session # NoSession =>
        /\ m.since > 0 => \E c \in OfSession(m) : Answered(c) /\ call[c].note.upto = m.since
        /\ \A c \in OfSession(m) :
              /\ Answered(c) => call[c].note.upto <= m.since
              /\ call[c].note.since = m.since => call[c].note.upto = m.upto

\* A note by the owner without the token, or a correction of the owner's note.
Refused(m, owner, targets) ==
    \/ m.author = "owner" /\ ~owner
    \/ ~owner /\ \E t \in targets \cap HasDoc : docs[t].author = "owner"

Decided(c, decision) ==
    /\ call' = [call EXCEPT ![c] = decision]
    /\ UNCHANGED <<files, docs, graph, edges, locked, faults, gone, used>>

\* The gates and the duplicate check, in which nothing is written.  A correction
\* (fix) names the notes it supersedes and skips the check; clients send the
\* owner's token only with a note that claims the owner.
Arrive(c, m, owner, targets) ==
    LET sent == [Idle EXCEPT !.note = m, !.owner = owner,
                             !.seen = IF m.session = NoSession THEN {} ELSE Written]
    IN  /\ call[c].pc = "idle" /\ \A d \in Call : d < c => call[d].pc # "idle"
        /\ Sendable(m)
        /\ m.fix <=> targets # {}
        /\ owner => m.author = "owner"
        /\ IF Refused(m, owner, targets)
           THEN Decided(c, [sent EXCEPT !.pc = "answered", !.outcome = "refused"])
           ELSE IF m.fix \/ Found(c, m) = {}
           THEN Decided(c, [sent EXCEPT !.pc = "look", !.outcome = "stored", !.targets = targets])
           ELSE \E f \in Found(c, m) :
               LET outcome == dedup_gate(m, owner, f)
                   found == [sent EXCEPT !.branch = f.branch, !.outcome = outcome]
               IN Decided(c, CASE outcome = "skipped" -> [found EXCEPT !.pc = "answered"]
                               [] outcome = "stored" -> [found EXCEPT !.pc = "look"]
                               [] OTHER -> [found EXCEPT !.pc = "look", !.targets = {f.num}])

\* existing_wiki_ids and the listing of the directory.
NextNumberOnDisk == Max({n \in Number : files[n] # NoFile} \cup {0}) + 1
NextNumber == Max({n \in Number : files[n] # NoFile} \cup HasDoc \cup {0}) + 1

Look(c) ==
    /\ call[c].pc = "look"
    /\ call' = [call EXCEPT ![c] = [@ EXCEPT !.pc = "create", !.next = NextNumber]]
    /\ UNCHANGED <<files, docs, graph, edges, locked, faults, gone, used>>

\* O_EXCL: one number up as long as the file is there.
FirstFree(n) == Min({k \in Number : k >= n /\ files[k] = NoFile})

Create(c) ==
    /\ call[c].pc = "create"
    /\ LET n == FirstFree(call[c].next)
       IN  /\ files' = [files EXCEPT ![n] = EmptyFile]
           /\ call' = [call EXCEPT ![c] = [@ EXCEPT !.pc = "write", !.next = 0, !.num = n]]
           /\ used' = used \cup {n}
    /\ UNCHANGED <<docs, graph, edges, locked, faults, gone>>

Write(c) ==
    /\ call[c].pc = "write"
    /\ files' = [files EXCEPT ![call[c].num] = call[c].note]
    /\ call' = [call EXCEPT ![c].pc = "ingest"]
    /\ UNCHANGED <<docs, graph, edges, locked, faults, gone, used>>

\* record_supersedes: a target without a document is reported as not found.
Linked(c) == (call[c].targets \cap {n \in Number : docs[n] # NoNote}) \ {call[c].num}

\* The answer, or the client has given up by then.
Answers(c, linked) ==
    \/ /\ call' = [call EXCEPT ![c] = [@ EXCEPT !.pc = "answered", !.linked = linked]]
       /\ UNCHANGED faults
    \/ /\ Fault("lost_ack")
       /\ call' = [call EXCEPT ![c] = [@ EXCEPT !.pc = "failed", !.linked = linked]]

\* The door: document, chunks, graph and edges in one transaction, and its commit.
StoresUncommitted(c) == UNCHANGED <<docs, graph, edges>>
Stores(c) ==
    /\ docs' = [docs EXCEPT ![call[c].num] = call[c].note]
    /\ graph' = graph \cup {call[c].num}
    /\ edges' = edges \cup {call[c].num} \X Linked(c)

CommitDoor(c) ==
    /\ c \in Door /\ call[c].pc = "ingest"
    /\ Stores(c)
    /\ Answers(c, Linked(c))
    /\ UNCHANGED <<files, locked, gone, used>>

\* A failure is returned as a value, so what the transaction holds is committed:
\* a document whose graph was not finished.
CommitDoorHalf(c) ==
    /\ c \in Door /\ call[c].pc = "ingest" /\ Fault("fail")
    /\ docs' = [docs EXCEPT ![call[c].num] = call[c].note]
    /\ call' = [call EXCEPT ![c].pc = "failed"]
    /\ UNCHANGED <<files, graph, edges, locked, gone, used>>

\* The engine: ingest_file under the sync lock, then the edges without it.
IngestDocument(c) ==
    /\ c \in Engine /\ call[c].pc = "ingest" /\ ~locked
    /\ locked' = TRUE
    /\ docs' = [docs EXCEPT ![call[c].num] = call[c].note]
    /\ call' = [call EXCEPT ![c].pc = "graph"]
    /\ UNCHANGED <<files, graph, edges, faults, gone, used>>

IngestGraph(c) ==
    /\ call[c].pc = "graph"
    /\ locked' = FALSE
    /\ graph' = graph \cup {call[c].num}
    /\ call' = [call EXCEPT ![c].pc = "link"]
    /\ UNCHANGED <<files, docs, edges, faults, gone, used>>

Link(c) ==
    /\ call[c].pc = "link"
    /\ edges' = edges \cup {call[c].num} \X Linked(c)
    /\ Answers(c, Linked(c))
    /\ UNCHANGED <<files, docs, graph, locked, gone, used>>

\* An error anywhere: the vault cannot be written, the embedding server is away.
Fail(c) ==
    /\ c \in Active /\ Fault("fail")
    /\ call' = [call EXCEPT ![c].pc = "failed"]
    /\ locked' = (locked /\ call[c].pc # "graph")
    /\ UNCHANGED <<files, docs, graph, edges, gone, used>>

\* The door or the engine restarts, with every call it serves.
Restart(calls) ==
    /\ calls \cap Active # {} /\ Fault("kill")
    /\ call' = [c \in Call |-> IF c \in calls \cap Active THEN [call[c] EXCEPT !.pc = "failed"]
                               ELSE call[c]]
    /\ locked' = (locked /\ calls # Engine)
    /\ UNCHANGED <<files, docs, graph, edges, gone, used>>

-----------------------------------------------------------------------------
(* The rest of the system.                                                 *)

\* sync: a note whose text is unchanged has its graph built again all the same; a
\* file without a body is passed over, and a row whose file is gone is kept.
RebuildChanged(n) ==
    IF docs[n] = files[n] THEN UNCHANGED graph ELSE graph' = graph \cup {n}
Rebuild(n) == graph' = graph \cup {n}

Sync(n) ==
    /\ ~locked /\ files[n] \in Note
    /\ docs' = [docs EXCEPT ![n] = files[n]]
    /\ Rebuild(n)
    /\ UNCHANGED <<files, edges, call, locked, faults, gone, used>>

\* A file is removed by hand: a note that is remembered, while nobody is writing.
RemoveFile(n) ==
    /\ files[n] \in Note /\ docs[n] = files[n] /\ Active = {} /\ Fault("remove")
    /\ files' = [files EXCEPT ![n] = NoFile]
    /\ gone' = gone \cup {files[n]}
    /\ UNCHANGED <<docs, graph, edges, call, locked, used>>

-----------------------------------------------------------------------------
Advance(c) ==
    \/ Look(c) \/ Create(c) \/ Write(c)
    \/ CommitDoor(c)
    \/ IngestDocument(c) \/ IngestGraph(c) \/ Link(c)

Next ==
    \/ \E c \in Call, m \in Note, owner \in BOOLEAN, targets \in {{}} \cup {{n} : n \in used} :
          Arrive(c, m, owner, targets)
    \/ \E c \in Call : Advance(c) \/ CommitDoorHalf(c) \/ Fail(c)
    \/ \E calls \in {Door, Engine} : Restart(calls)
    \/ \E n \in Number : Sync(n) \/ RemoveFile(n)

Spec == Init /\ [][Next]_vars

\* An engine call goes on, so that it gives the lock back, and the scheduler's sync
\* reads every file; nothing is assumed of the door.
Fairness ==
    /\ \A c \in Engine : WF_vars(Advance(c))
    /\ \A n \in Number : WF_vars(Sync(n))
FairSpec == Spec /\ Fairness

-----------------------------------------------------------------------------
(* Properties.                                                             *)

\* A new file takes a number above every number that was ever in use, on disk or
\* in the database (next_wiki_id): a number never comes to mean another note.
NumbersGrow ==
    [][\A n \in Number : files[n] = NoFile /\ files'[n] # NoFile
                          => \A k \in used : k < n]_vars

\* "recallable now": what a call has answered is in the database, with its graph
\* and the edges it reports, and stays there.
AnswerHolds ==
    \A c \in Call : call[c].pc = "answered" /\ HasNumber(c) =>
        /\ docs[call[c].num] = call[c].note /\ call[c].num \in graph
        /\ {call[c].num} \X call[c].linked \subseteq edges

\* The door's same-session check drops no turn: those of a text it has answered
\* are in some note of the session, and a note it supersedes has none the new one
\* lacks.
TurnsOf(session) ==
    UNION {Turns(m) : m \in {k \in {files[n] : n \in Written} \cup gone : k.session = session}}

TurnsKept ==
    \A c \in Door : Answered(c) /\ call[c].branch \in {"none", "same_session"} =>
        /\ Turns(call[c].note) \subseteq TurnsOf(call[c].note.session)
        /\ call[c].outcome = "superseded" =>
              \A t \in call[c].targets \cap Written : Turns(files[t]) \subseteq Turns(call[c].note)

\* Of one text, however often it was distilled, one note is live, unless two calls of
\* the session overlapped or an edge was not stored (newest_match: "the live note is
\* the newest").  The engine's newest note may be one of another text, so a call of
\* the session that got its number late counts as an overlap too.
Live(n) == \A k \in Number : <<k, n>> \notin edges
Tellings(m) == {c \in OfSession(m) : HasNumber(c) /\ call[c].note.since = m.since}
Orderly(m) ==
    /\ \A c \in Tellings(m) : /\ call[c].pc = "answered" /\ ~call[c].owner /\ ~call[c].note.fix
                              /\ call[c].linked = call[c].targets
    /\ \A c \in Tellings(m), d \in OfSession(m) :
          HasNumber(d) /\ call[c].num < call[d].num => call[c].num \in call[d].seen
OneLive ==
    \A m \in Note : m.session # NoSession /\ Orderly(m) =>
        Cardinality({c \in Tellings(m) : Live(call[c].num)}) <= 1

\* Again and again every note that was written is in the database, with its graph,
\* though its call failed or was killed.
Remembered(n) == docs[n] = files[n] /\ n \in graph
WrittenIsRemembered == []<>(\A n \in Written : Remembered(n))

\* remember_note: "after the note is written and ingested, each pair becomes a
\* supersedes edge".
SupersededIsLinked ==
    \A c \in Call : (call[c].outcome = "superseded" /\ call[c].pc \in Ended /\ HasNumber(c))
        ~> ({call[c].num} \X call[c].targets \subseteq edges \/ call[c].num \notin Written)
=============================================================================
