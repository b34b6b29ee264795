-------------------------- MODULE CardPressProofs ---------------------------
(***************************************************************************)
(* The buttons of the morning card for any handlers, rows and failures: a  *)
(* row's effects run once, a verdict that shows is in the engine, and a    *)
(* row that shows a merge as done is one that was read again.              *)
(*                                                                         *)
(* What a message shows stays true of the system, so a message that was    *)
(* read long ago may be written at any time.                               *)
(***************************************************************************)
EXTENDS CardPress, SubjectMergeProofs

-----------------------------------------------------------------------------
(* The inductive invariant.                                                *)

\* The handler's effects are still to run, or running.
Running(h) == h.pc = "run" \/ (h.pc \in {"read", "put"} /\ h.segment = "pending")
Live(p) == Running(press[p])

\* Of a claimed row one handler at most runs the effects.
Claimed ==
    /\ \A p \in Merge : Live(p) =>
          /\ press[p].row \in claimed
          /\ ran[press[p].row] <= restarts
          /\ \A q \in Merge : Live(q) /\ press[q].row = press[p].row => q = p
    /\ \A r \in Row : /\ ran[r] <= 1 + restarts
                      /\ r \notin claimed => ran[r] <= restarts

\* What a message may show.
SpokenFor(s) == \E m \in Merge : door[m].subject = s /\ told[m] = "done"
Reread(s, n) == n \in Held \/ Canon \in table[<<s, n>>] \/ <<s, n>> \in unread \/ Owed(s, n)
TrueCard(c) ==
    /\ \A r \in Verdict : c[r] = "judged" => applied[r] = 1 .. 2
    /\ \A s \in Subject : c[s] = "merged" => SpokenFor(s) /\ \A n \in Note : Reread(s, n)

Shows ==
    /\ TrueCard(card) /\ TrueCard(settle.copy)
    /\ \A p \in Merge : TrueCard(press[p].snapshot) /\ TrueCard(press[p].copy)

Handles ==
    \A p \in Merge :
        /\ press[p].segment \in {"pending", "judged", "retry"}
        /\ press[p].done \in 0 .. 1
        /\ press[p].pc = "answer" => press[p].row \in Subject
        /\ press[p].row \in Verdict =>
              /\ press[p].done = 1 => 1 \in applied[press[p].row]
              /\ press[p].segment = "judged" => applied[press[p].row] = 1 .. 2

\* Notes without rows are on their way back, and so are those a merge passed over.
Missing ==
    /\ \A s \in Subject, n \in Note : table[<<s, n>>] = {} => Reread(s, n)
    /\ \A m \in Merge : door[m].pc = "commit" \/ m \in committed =>
          \A n \in Note \ door[m].notes : Reread(door[m].subject, n)

CardInv == CardTypeOK /\ restarts <= slips /\ Claimed /\ Shows /\ Handles /\ Missing

-----------------------------------------------------------------------------
(* What a step of the door and the engine leaves alone.                    *)

MergeShape ==
    /\ \A m \in Merge : m \in committed => /\ m \in committed'
                                           /\ door'[m].subject = door[m].subject
                                           /\ door'[m].notes = door[m].notes
    /\ \A m \in Merge : told[m] = "done" => told'[m] = "done"
    /\ \A e \in Stated : \/ table[e] \subseteq table'[e]
                         \/ \E m \in Merge : Owes(m, e)'
    /\ \A e \in unread : e \in unread' \/ Canon \in table'[e]

\* A request that is about to commit, or has, has passed over what had no rows, and
\* what is held for the owner.
FoundShape ==
    \A m \in Merge : door'[m].pc = "commit" \/ m \in committed' =>
        \/ /\ door[m].pc = "commit" \/ m \in committed
           /\ door'[m].subject = door[m].subject
           /\ door[m].notes \subseteq door'[m].notes \cup Held
        \/ /\ door'[m].subject \in Subject
           /\ \A n \in Note \ door'[m].notes : table[<<door'[m].subject, n>>] = {}

LEMMA RequestShape ==
    ASSUME IInv, NEW m \in Merge,
           (\E s \in Subject : Post(m, s)) \/ Find(m) \/ CommitFails(m) \/ Enqueue(m)
    PROVE  MergeShape /\ FoundShape
<1>1. /\ UNCHANGED <<table, committed, told, unread>>
      /\ \A x \in Merge : x # m => door'[x] = door[x]
  BY DEF Post, Find, CommitFails, Enqueue, Unheard, IInv, TypeOK
<1>2. m \in committed => Enqueue(m)
  BY DEF Post, Find, CommitFails, IInv, Placed
<1>3. Enqueue(m) => /\ door'[m].subject = door[m].subject /\ door'[m].notes = door[m].notes
                    /\ m \in committed
  BY Typed DEF Enqueue, IInv, TypeOK, Placed, Request
<1>4. MergeShape
  BY <1>1, <1>2, <1>3 DEF MergeShape
<1>5. FoundShape
  <2>1. CASE Enqueue(m)
    BY <1>1, <1>3, <2>1 DEF FoundShape
  <2>2. CASE (\E s \in Subject : Post(m, s)) \/ CommitFails(m)
    <3>1. m \notin committed /\ door'[m].pc # "commit"
      <4>1. door[m] \in Request /\ m \notin committed
        BY <2>2, Typed DEF Post, CommitFails, IInv, Placed
      <4>2. \/ \E s \in Subject : door'[m] = [door[m] EXCEPT !.pc = "find", !.subject = s]
            \/ door'[m] = [door[m] EXCEPT !.pc = "refused"]
        BY <2>2 DEF Post, CommitFails, IInv, TypeOK
      <4> QED BY <4>1, <4>2, <2>2, <1>1 DEF Request
    <3> QED BY <1>1, <3>1 DEF FoundShape
  <2>3. CASE Find(m)
    <3> DEFINE s == door[m].subject
    <3>1. CASE Cardinality(Variants(s)) < 2
      <4>1. m \notin committed /\ door'[m].pc # "commit"
        BY <2>3, <3>1 DEF Find, IInv, TypeOK, Placed, Request
      <4> QED BY <1>1, <4>1 DEF FoundShape
    <3>2. CASE ~(Cardinality(Variants(s)) < 2)
      <4>1. door'[m] = [door[m] EXCEPT !.pc = "commit", !.variants = Variants(s), !.notes = Written(s)]
        BY <2>3, <3>2 DEF Find, IInv, TypeOK
      <4>2. door[m] \in Request /\ s \in Subject
        BY Typed DEF IInv
      <4>3. door'[m].subject = s /\ door'[m].notes = Written(s)
        BY <4>1, <4>2 DEF Request
      <4>4. \A n \in Note \ Written(s) : table[<<s, n>>] = {}
        BY DEF Written
      <4> QED BY <1>1, <4>2, <4>3, <4>4 DEF FoundShape
    <3> QED BY <3>1, <3>2
  <2> QED BY <2>1, <2>2, <2>3
<1> QED BY <1>4, <1>5

LEMMA CommitShape ==
    ASSUME IInv, NEW m \in Merge, Commit(m)
    PROVE  MergeShape /\ FoundShape
<1>1. /\ door[m].pc = "commit" /\ m \notin committed /\ told[m] = "no"
      /\ \A x \in Merge : x # m => door'[x] = door[x]
      /\ committed' = committed \cup {m} /\ UNCHANGED <<told, unread>>
  BY DEF Commit, Unheard, IInv, TypeOK, Placed
<1>2. /\ door'[m].subject = door[m].subject /\ door'[m].notes = door[m].notes \ Held
  BY Typed DEF Commit, IInv, TypeOK, Request
<1>3. \A e \in Stated : table[e] \subseteq table'[e] \/ Owes(m, e)'
  <2> SUFFICES ASSUME NEW e \in Stated PROVE table[e] \subseteq table'[e] \/ Owes(m, e)'
    OBVIOUS
  <2>1. CASE e[1] = door[m].subject /\ e[2] \in door[m].notes \ Held
    <3>1. e \in Claims(m)'
      BY <1>2, <2>1 DEF Claims, Stated
    <3> QED BY <1>1, <3>1 DEF Owes
  <2>2. CASE ~(e[1] = door[m].subject /\ e[2] \in door[m].notes \ Held)
    BY <2>2 DEF Commit
  <2> QED BY <2>1, <2>2
<1> QED BY <1>1, <1>2, <1>3 DEF MergeShape, FoundShape

LEMMA WorkerShape ==
    ASSUME IInv, WorkerStep \/ SyncTimesOut \/ RecountFails \/ BatchRaises \/ WorkerDies
    PROVE  MergeShape /\ FoundShape
<1>1. UNCHANGED <<table, door, committed, unread>>
  BY DEF WorkerStep, Take, Recount, Tell, SyncTimesOut, RecountFails, BatchRaises, WorkerDies,
     WorkerOnly
<1>2. \A m \in Merge : told[m] = "done" => told'[m] = "done"
  <2>1. CASE \E m \in Merge : Tell(m)
    <3>1. PICK m \in Merge : Tell(m)
      BY <2>1
    <3>2. told[m] = "no"
      BY <3>1 DEF Tell, IInv, Placed
    <3> QED BY <3>1, <3>2 DEF Tell, IInv, TypeOK
  <2>2. CASE Take \/ Recount \/ SyncTimesOut \/ RecountFails \/ BatchRaises \/ WorkerDies
    BY <2>2 DEF Take, Recount, SyncTimesOut, RecountFails, BatchRaises, WorkerDies
  <2> QED BY <2>1, <2>2 DEF WorkerStep
<1> QED BY <1>1, <1>2 DEF MergeShape, FoundShape

LEMMA EngineShape ==
    ASSUME IInv, \/ EngineStep \/ SchedulerSyncs \/ SyncStarts \/ PassFails
                 \/ \E e \in Stated : IngestFails(e)
    PROVE  MergeShape /\ FoundShape
<1>1. UNCHANGED <<door, committed, told>>
  BY DEF EngineStep, PassEnds, Probe, Insert, SchedulerSyncs, SyncStarts, PassFails, IngestFails,
     EngineOnly
<1>2. /\ \A e \in Stated : table[e] \subseteq table'[e]
      /\ \A e \in unread : e \in unread' \/ Canon \in table'[e]
  <2>1. CASE \E e \in Stated : Insert(e)
    BY <2>1 DEF Insert, IInv, TypeOK
  <2>2. CASE ~\E e \in Stated : Insert(e)
    BY <2>2 DEF EngineStep, PassEnds, Probe, SchedulerSyncs, SyncStarts, PassFails, IngestFails
  <2> QED BY <2>1, <2>2
<1> QED BY <1>1, <1>2 DEF MergeShape, FoundShape

LEMMA DoorRestartsShape ==
    ASSUME IInv, DoorRestarts
    PROVE  MergeShape /\ FoundShape
<1>1. UNCHANGED <<table, committed, told, unread>>
  BY DEF DoorRestarts
<1>2. \A m \in Merge : /\ door'[m].subject = door[m].subject /\ door'[m].notes = door[m].notes
                       /\ door'[m].pc # "commit"
  <2> SUFFICES ASSUME NEW m \in Merge
               PROVE  /\ door'[m].subject = door[m].subject /\ door'[m].notes = door[m].notes
                      /\ door'[m].pc # "commit"
    OBVIOUS
  <2>1. door[m] \in Request
    BY Typed DEF IInv
  <2>2. door'[m] = IF door[m].pc \in {"find", "commit", "queue"}
                   THEN [door[m] EXCEPT !.pc = "cut"] ELSE door[m]
    BY DEF DoorRestarts
  <2> QED BY <2>1, <2>2 DEF Request
<1> QED BY <1>1, <1>2 DEF MergeShape, FoundShape

LEMMA NextShape ==
    ASSUME IInv, [Next]_vars
    PROVE  MergeShape /\ FoundShape
<1>1. CASE \E m \in Merge : (\E s \in Subject : Post(m, s)) \/ RequestStep(m) \/ CommitFails(m)
  BY <1>1, RequestShape, CommitShape DEF RequestStep
<1>2. CASE WorkerStep \/ SyncTimesOut \/ RecountFails \/ BatchRaises \/ WorkerDies
  BY <1>2, WorkerShape
<1>3. CASE EngineStep \/ SchedulerSyncs \/ SyncStarts \/ PassFails \/ \E e \in Stated : IngestFails(e)
  BY <1>3, EngineShape
<1>4. CASE DoorRestarts
  BY <1>4, DoorRestartsShape
<1>5. CASE UNCHANGED vars
  BY <1>5 DEF vars, MergeShape, FoundShape
<1> QED BY <1>1, <1>2, <1>3, <1>4, <1>5 DEF Next

-----------------------------------------------------------------------------
(* What a message shows stays true.                                        *)

LEMMA SpokenForStays ==
    ASSUME IInv, [Next]_vars, NEW s \in Subject, SpokenFor(s)
    PROVE  SpokenFor(s)'
<1>1. PICK m \in Merge : door[m].subject = s /\ told[m] = "done"
  BY DEF SpokenFor
<1>2. m \in committed
  BY <1>1 DEF IInv, Placed
<1> QED BY <1>1, <1>2, NextShape DEF MergeShape, SpokenFor

LEMMA RereadStays ==
    ASSUME IInv, IInv', [Next]_vars, NEW s \in Subject, NEW n \in Note, Reread(s, n)
    PROVE  Reread(s, n)'
<1> DEFINE e == <<s, n>>
<1>1. e \in Stated /\ MergeShape
  BY NextShape DEF Stated
<1>2. \A m \in Merge : Owes(m, e)' => Owed(s, n)'
  <2> SUFFICES ASSUME NEW m \in Merge, Owes(m, e)' PROVE Owed(s, n)'
    OBVIOUS
  <2>1. /\ m \in committed' /\ told'[m] # "done"
        /\ \E k \in door'[m].notes : <<s, n>> = <<door'[m].subject, k>>
    BY DEF Owes, Claims
  <2>2. door'[m].subject = s /\ n \in door'[m].notes
    BY <2>1
  <2> QED BY <2>1, <2>2 DEF Owed
<1>3. CASE n \in Held
  BY <1>3 DEF Reread
<1>4. CASE Canon \in table[e]
  BY <1>1, <1>2, <1>4 DEF MergeShape, Reread
<1>5. CASE e \in unread
  BY <1>1, <1>5 DEF MergeShape, Reread
<1>6. CASE Owed(s, n)
  <2>1. PICK m \in Merge : door[m].subject = s /\ n \in door[m].notes /\ m \in committed
    BY <1>6 DEF Owed
  <2>2. door'[m].subject = s /\ n \in door'[m].notes /\ m \in committed'
    BY <1>1, <2>1 DEF MergeShape
  <2>3. CASE told'[m] # "done"
    BY <2>2, <2>3 DEF Owed, Reread
  <2>4. CASE told'[m] = "done"
    <3>1. e \in Claims(m)'
      BY <2>2 DEF Claims
    <3>2. Back(e)' \/ \E x \in Merge : Owes(x, e)'
      BY <2>4, <3>1 DEF IInv, Covered
    <3> QED BY <1>2, <3>2 DEF Back, Reread
  <2> QED BY <2>3, <2>4
<1> QED BY <1>3, <1>4, <1>5, <1>6 DEF Reread

LEMMA MissingStays ==
    ASSUME IInv, IInv', [Next]_vars, Missing
    PROVE  Missing'
<1>1. ASSUME NEW s \in Subject, NEW n \in Note, table'[<<s, n>>] = {}
      PROVE  Reread(s, n)'
  <2>1. <<s, n>> \in Stated
    BY DEF Stated
  <2>2. CASE table[<<s, n>>] = {}
    BY <2>2, RereadStays DEF Missing
  <2>3. CASE \E m \in Merge : Owes(m, <<s, n>>)'
    <3>1. PICK m \in Merge : /\ m \in committed' /\ told'[m] # "done"
                             /\ \E k \in door'[m].notes : <<s, n>> = <<door'[m].subject, k>>
      BY <2>3 DEF Owes, Claims
    <3>2. door'[m].subject = s /\ n \in door'[m].notes
      BY <3>1
    <3> QED BY <3>1, <3>2 DEF Owed, Reread
  <2> QED BY <1>1, <2>1, <2>2, <2>3, NextShape DEF MergeShape
<1>2. ASSUME NEW m \in Merge, door'[m].pc = "commit" \/ m \in committed',
             NEW s \in Subject, s = door'[m].subject, NEW n \in Note \ door'[m].notes
      PROVE  Reread(s, n)'
  <2>1. CASE /\ door[m].pc = "commit" \/ m \in committed
             /\ s = door[m].subject /\ door[m].notes \subseteq door'[m].notes \cup Held
    <3>1. CASE n \in Held
      BY <3>1 DEF Reread
    <3>2. CASE n \notin Held
      <4>1. Reread(s, n)
        BY <1>2, <2>1, <3>2 DEF Missing
      <4> QED BY <4>1, RereadStays
    <3> QED BY <3>1, <3>2
  <2>2. CASE table[<<s, n>>] = {}
    <3>1. Reread(s, n)
      BY <2>2 DEF Missing
    <3> QED BY <3>1, RereadStays
  <2> QED BY <1>2, <2>1, <2>2, NextShape DEF FoundShape
<1>3. \A m \in Merge : door'[m].subject \in Subject
  BY DEF IInv, TypeOK, Request
<1> DEFINE R(s, n) == \/ n \in Held \/ Canon \in table'[<<s, n>>] \/ <<s, n>> \in unread'
                      \/ \E m \in Merge : /\ door'[m].subject = s /\ n \in door'[m].notes
                                          /\ m \in committed' /\ told'[m] # "done"
<1>4. \A s \in Subject, n \in Note : table'[<<s, n>>] = {} => R(s, n)
  <2> SUFFICES ASSUME NEW s \in Subject, NEW n \in Note, table'[<<s, n>>] = {} PROVE R(s, n)
    OBVIOUS
  <2>1. Reread(s, n)'
    BY <1>1
  <2> QED BY <2>1 DEF Reread, Owed
<1>5. \A m \in Merge : door'[m].pc = "commit" \/ m \in committed' =>
          \A n \in Note \ door'[m].notes : R(door'[m].subject, n)
  <2> SUFFICES ASSUME NEW m \in Merge, door'[m].pc = "commit" \/ m \in committed',
                      NEW n \in Note \ door'[m].notes, NEW s \in Subject, s = door'[m].subject
               PROVE  R(s, n)
    BY <1>3
  <2> QED BY <1>2 DEF Reread, Owed
<1> QED BY <1>4, <1>5 DEF Missing, Reread, Owed

\* A message that is true after the step.
TrueLater(c) ==
    /\ \A r \in Verdict : c[r] = "judged" => applied'[r] = 1 .. 2
    /\ \A s \in Subject : c[s] = "merged" => SpokenFor(s)' /\ \A n \in Note : Reread(s, n)'

\* The part of a step that is the merge's.
Context == IInv /\ IInv' /\ [Next]_vars /\ CardInv
AppliedStays == \A r \in Verdict : applied[r] = 1 .. 2 => applied'[r] = 1 .. 2

LEMMA MessageStays ==
    ASSUME Context, AppliedStays, NEW c, TrueCard(c)
    PROVE  TrueLater(c)
<1>1. \A r \in Verdict : c[r] = "judged" => applied'[r] = 1 .. 2
  BY DEF TrueCard, AppliedStays
<1>2. ASSUME NEW s \in Subject, c[s] = "merged"
      PROVE  SpokenFor(s)' /\ \A n \in Note : Reread(s, n)'
  <2>1. SpokenFor(s) /\ \A n \in Note : Reread(s, n)
    BY <1>2 DEF TrueCard
  <2> QED BY <2>1, SpokenForStays, RereadStays DEF Context
<1> QED BY <1>1, <1>2 DEF TrueLater

\* All the messages that are held somewhere stay true.
LEMMA MessagesStay ==
    ASSUME Context, AppliedStays
    PROVE  /\ TrueLater(card) /\ TrueLater(settle.copy)
           /\ \A p \in Merge : TrueLater(press[p].snapshot) /\ TrueLater(press[p].copy)
<1>1. /\ TrueCard(card) /\ TrueCard(settle.copy)
      /\ \A p \in Merge : TrueCard(press[p].snapshot) /\ TrueCard(press[p].copy)
  BY DEF Context, CardInv, Shows
<1>2. \A c : TrueCard(c) => TrueLater(c)
  BY MessageStays
<1> QED BY <1>1, <1>2

LEMMA NewCardTrue == NewCard \in Card /\ TrueLater(NewCard)
<1>1. \A r \in Row : NewCard[r] = "buttons"
  BY DEF NewCard
<1> QED BY <1>1 DEF NewCard, Card, Shown, TrueLater, Row

LEMMA ReplacedTrue ==
    ASSUME NEW c \in Card, NEW r \in Row, NEW segment \in {"pending", "judged", "retry"},
           TrueLater(c), r \in Verdict /\ segment = "judged" => applied'[r] = 1 .. 2
    PROVE  Replaced(c, r, segment) \in Card /\ TrueLater(Replaced(c, r, segment))
<1>1. CASE c[r] = "judged"
  BY <1>1 DEF Replaced
<1>2. CASE c[r] # "judged"
  <2> DEFINE new == [c EXCEPT ![r] = segment]
  <2>1. new \in Card /\ \A o \in Row : new[o] = IF o = r THEN segment ELSE c[o]
    BY DEF Card, Shown
  <2> HIDE DEF new
  <2>2. TrueLater(new)
    BY <2>1 DEF TrueLater, Row
  <2> QED BY <1>2, <2>1, <2>2 DEF Replaced, new
<1> QED BY <1>1, <1>2

LEMMA MarkedTrue ==
    ASSUME NEW c \in Card, NEW r \in Subject, NEW outcome \in {"done", "failed"}, TrueLater(c),
           outcome = "done" => SpokenFor(r)' /\ \A n \in Note : Reread(r, n)'
    PROVE  Marked(c, r, outcome) \in Card /\ TrueLater(Marked(c, r, outcome))
<1>1. ASSUME NEW shown \in {"merged", "retry", "failed"}, shown = "merged" => outcome = "done"
      PROVE  [c EXCEPT ![r] = shown] \in Card /\ TrueLater([c EXCEPT ![r] = shown])
  <2> DEFINE new == [c EXCEPT ![r] = shown]
  <2>1. new \in Card /\ \A o \in Row : new[o] = IF o = r THEN shown ELSE c[o]
    BY DEF Card, Shown, Row
  <2> HIDE DEF new
  <2>2. TrueLater(new)
    BY <1>1, <2>1 DEF TrueLater, Row
  <2> QED BY <2>1, <2>2 DEF new
<1>2. CASE c[r] = "judged"
  <2>1. Marked(c, r, outcome) = c
    BY <1>2 DEF Marked, Pressable
  <2> QED BY <2>1
<1>3. CASE c[r] # "judged" /\ outcome = "done"
  <2>1. Marked(c, r, outcome) = [c EXCEPT ![r] = "merged"]
    BY <1>3 DEF Marked
  <2> QED BY <1>1, <1>3, <2>1
<1>4. CASE c[r] # "judged" /\ outcome = "failed" /\ c[r] \in Pressable
  <2>1. Marked(c, r, outcome) = [c EXCEPT ![r] = "retry"]
    BY <1>4 DEF Marked
  <2> QED BY <1>1, <2>1
<1>5. CASE c[r] # "judged" /\ outcome = "failed" /\ c[r] \notin Pressable
  <2>1. Marked(c, r, outcome) = [c EXCEPT ![r] = "failed"]
    BY <1>5 DEF Marked
  <2> QED BY <1>1, <2>1
<1> QED BY <1>2, <1>3, <1>4, <1>5

LEMMA UpdateTrue ==
    ASSUME CardInv, NEW r \in Row, NEW copy, NEW blocks \in Card, TrueLater(card), TrueLater(blocks),
           Update(r, copy, blocks)
    PROVE  /\ card' \in Card /\ TrueLater(card') /\ rolled' \subseteq Row
           /\ slips' \in {slips, slips + 1} /\ slips' <= MaxFault
<1>1. card \in Card /\ rolled \subseteq Row /\ slips \in 0 .. MaxFault
  BY DEF CardInv, CardTypeOK
<1> QED BY <1>1, MergeAssumption DEF Update, Slip

-----------------------------------------------------------------------------
(* A step of one handler.                                                  *)

\* The handler's fields.
LEMMA HandlerTyped ==
    ASSUME CardInv, NEW p \in Merge
    PROVE  /\ press[p] \in Handler /\ press[p].row \in Row
           /\ press[p].snapshot \in Card /\ press[p].copy \in Card
           /\ press[p].segment \in {"pending", "judged", "retry"} /\ press[p].done \in 0 .. 1
BY DEF CardInv, CardTypeOK, Handler, Handles

LEMMA HandlerMade ==
    ASSUME NEW h \in Handler, NEW c \in Card, NEW r \in Row, NEW n \in 0 .. 2,
           NEW segment \in Shown, NEW pc \in {"idle", "clicked", "read", "put", "run", "answer", "end"}
    PROVE  /\ [h EXCEPT !.pc = pc] \in Handler
           /\ [h EXCEPT !.done = n] \in Handler
           /\ [h EXCEPT !.pc = pc, !.copy = c] \in Handler
           /\ [h EXCEPT !.pc = pc, !.segment = segment] \in Handler
           /\ [h EXCEPT !.pc = pc, !.row = r, !.snapshot = c] \in Handler
<1>1. [h EXCEPT !.pc = pc] \in Handler /\ [h EXCEPT !.done = n] \in Handler
  BY DEF Handler
<1>2. [h EXCEPT !.pc = pc, !.copy = c] \in Handler /\ [h EXCEPT !.pc = pc, !.segment = segment] \in Handler
  BY <1>1 DEF Handler
<1>3. [h EXCEPT !.pc = pc, !.row = r] \in Handler
  BY <1>1 DEF Handler
<1>4. [h EXCEPT !.pc = pc, !.row = r, !.snapshot = c] \in Handler
  BY <1>3 DEF Handler
<1> QED BY <1>1, <1>2, <1>4

LEMMA IdleHandlers ==
    /\ HandlerIdle \in Handler /\ HandlerEnd \in Handler /\ HandlerEnd.pc = "end"
    /\ HandlerIdle.pc = "idle"
    /\ \A h \in {HandlerIdle, HandlerEnd} :
          h.segment = "pending" /\ h.snapshot = NewCard /\ h.copy = NewCard /\ h.done = 0
<1>1. Row # {}
  BY MergeAssumption DEF Row
<1>2. HandlerIdle \in Handler
  BY <1>1, NewCardTrue DEF HandlerIdle, Handler, Shown
<1>3. /\ HandlerIdle.pc = "idle" /\ HandlerIdle.segment = "pending" /\ HandlerIdle.snapshot = NewCard
      /\ HandlerIdle.copy = NewCard /\ HandlerIdle.done = 0
  BY DEF HandlerIdle
<1> HIDE DEF HandlerIdle
<1>4. HandlerEnd \in Handler
  BY <1>2 DEF HandlerEnd, Handler
<1>5. /\ HandlerEnd.pc = "end" /\ HandlerEnd.segment = "pending" /\ HandlerEnd.snapshot = NewCard
      /\ HandlerEnd.copy = NewCard /\ HandlerEnd.done = 0
  BY <1>2, <1>3 DEF HandlerEnd, Handler
<1> QED BY <1>2, <1>3, <1>4, <1>5

\* What the record of a handler must be after a step, and the other variables.
HandlerFits(h) ==
    /\ h \in Handler /\ TrueLater(h.snapshot) /\ TrueLater(h.copy)
    /\ h.segment \in {"pending", "judged", "retry"} /\ h.done \in 0 .. 1
    /\ h.pc = "answer" => h.row \in Subject
    /\ h.row \in Verdict => /\ h.done = 1 => 1 \in applied'[h.row]
                            /\ h.segment = "judged" => applied'[h.row] = 1 .. 2

OthersFit ==
    /\ card' \in Card /\ TrueLater(card') /\ claimed' \subseteq Row
    /\ applied' \in [Verdict -> SUBSET (1 .. 2)]
    /\ \A r \in Verdict : applied[r] \subseteq applied'[r]
    /\ ran' \in [Row -> Nat] /\ rolled' \subseteq Row
    /\ slips' \in {slips, slips + 1} /\ slips' <= MaxFault
    /\ UNCHANGED <<settle, restarts, worker>>

LEMMA HandlerStep ==
    ASSUME Context, NEW p \in Merge, NEW h, press' = [press EXCEPT ![p] = h],
           HandlerFits(h), OthersFit, Claimed'
    PROVE  CardInv'
<1> USE DEF HandlerFits, OthersFit
<1>1. CardTypeOK /\ restarts <= slips /\ Missing /\ AppliedStays
  <2>1. \A r \in Verdict : applied'[r] \subseteq 1 .. 2
    OBVIOUS
  <2> QED BY <2>1 DEF Context, CardInv, AppliedStays
<1>2. \A q \in Merge : press'[q] = IF q = p THEN h ELSE press[q]
  BY <1>1 DEF CardTypeOK
<1>3. CardTypeOK' /\ (restarts <= slips)'
  <2>1. slips' \in 0 .. MaxFault /\ restarts' \in 0 .. MaxFault /\ restarts' <= slips'
    BY <1>1 DEF CardTypeOK
  <2>2. press' \in [Merge -> Handler]
    BY <1>1 DEF CardTypeOK
  <2> QED BY <1>1, <2>1, <2>2 DEF CardTypeOK
<1>4. Shows'
  <2>1. /\ TrueLater(settle.copy)
        /\ \A q \in Merge : TrueLater(press[q].snapshot) /\ TrueLater(press[q].copy)
    BY <1>1, MessagesStay
  <2>2. /\ TrueLater(settle'.copy)
        /\ \A q \in Merge : TrueLater(press'[q].snapshot) /\ TrueLater(press'[q].copy)
    BY <1>2, <2>1
  <2> QED BY <2>2 DEF Shows, TrueCard, TrueLater
<1>5. Handles'
  <2> SUFFICES ASSUME NEW q \in Merge
               PROVE  /\ press'[q].segment \in {"pending", "judged", "retry"}
                      /\ press'[q].done \in 0 .. 1
                      /\ press'[q].pc = "answer" => press'[q].row \in Subject
                      /\ press'[q].row \in Verdict =>
                            /\ press'[q].done = 1 => 1 \in applied'[press'[q].row]
                            /\ press'[q].segment = "judged" => applied'[press'[q].row] = 1 .. 2
    BY DEF Handles
  <2>1. CASE q = p
    BY <1>2, <2>1
  <2>2. CASE q # p
    BY <1>1, <1>2, <2>2 DEF Context, CardInv, Handles, AppliedStays
  <2> QED BY <2>1, <2>2
<1>6. Missing'
  BY <1>1, MissingStays DEF Context
<1> QED BY <1>3, <1>4, <1>5, <1>6 DEF CardInv

\* A handler that runs no effects it did not run before keeps the claims.
LEMMA ClaimsStay ==
    ASSUME CardInv, NEW p \in Merge, NEW h \in Handler, press' = [press EXCEPT ![p] = h],
           Running(h) => Running(press[p]) /\ h.row = press[p].row,
           UNCHANGED <<claimed, ran, restarts>>
    PROVE  Claimed'
<1>1. \A q \in Merge : press'[q] = IF q = p THEN h ELSE press[q]
  BY DEF CardInv, CardTypeOK
<1>2. \A q \in Merge : Live(q)' => Live(q) /\ press'[q].row = press[q].row
  BY <1>1 DEF Live, Running
<1> QED BY <1>2 DEF CardInv, Claimed

\* What the lemmas below need of the state.
LEMMA CardTyped ==
    ASSUME Context
    PROVE  /\ CardInv /\ card \in Card /\ claimed \subseteq Row /\ press \in [Merge -> Handler]
           /\ applied \in [Verdict -> SUBSET (1 .. 2)]
           /\ ran \in [Row -> Nat] /\ rolled \subseteq Row
           /\ restarts \in Nat /\ slips \in 0 .. MaxFault
           /\ Claimed /\ Handles /\ MaxFault \in Nat
BY MergeAssumption DEF Context, CardInv, CardTypeOK

\* A step that leaves the message, the effects and the claims alone.
LEMMA QuietOthers ==
    ASSUME Context, slips' \in {slips, slips + 1}, slips' <= MaxFault, claimed' \subseteq Row,
           UNCHANGED <<card, applied, settle, ran, rolled, restarts, worker>>
    PROVE  OthersFit /\ AppliedStays
<1>1. AppliedStays
  BY DEF AppliedStays
<1>2. TrueLater(card')
  BY <1>1, MessagesStay
<1> QED BY <1>1, <1>2, CardTyped DEF OthersFit

\* The handler that goes on.
LEMMA SameFits ==
    ASSUME Context, AppliedStays, NEW p \in Merge, NEW h \in Handler,
           \A r \in Verdict : applied[r] \subseteq applied'[r],
           h.row = press[p].row, h.snapshot = press[p].snapshot,
           h.copy = press[p].copy \/ TrueLater(h.copy),
           h.segment = press[p].segment \/ h.segment = "retry"
              \/ (h.segment = "judged" /\ (h.row \in Verdict => applied'[h.row] = 1 .. 2)),
           h.done = press[p].done, h.pc = "answer" => h.row \in Subject
    PROVE  HandlerFits(h)
<1>1. TrueLater(press[p].snapshot) /\ TrueLater(press[p].copy)
  BY MessagesStay
<1>2. press[p].segment \in {"pending", "judged", "retry"} /\ press[p].done \in 0 .. 1
  BY CardTyped, HandlerTyped
<1>3. h.row \in Verdict => /\ h.done = 1 => 1 \in applied'[h.row]
                           /\ h.segment = "judged" => applied'[h.row] = 1 .. 2
  BY CardTyped DEF Handles, AppliedStays
<1> QED BY <1>1, <1>2, <1>3 DEF HandlerFits

LEMMA EndFits == HandlerFits(HandlerEnd)
BY IdleHandlers, NewCardTrue DEF HandlerFits

LEMMA ClickKeeps == ASSUME Context, NEW p \in Merge, Click(p) PROVE CardInv'
<1>1. PICK r \in Row : Plugin(p, [HandlerIdle EXCEPT !.pc = "clicked", !.row = r, !.snapshot = card])
  BY DEF Click
<1> DEFINE h == [HandlerIdle EXCEPT !.pc = "clicked", !.row = r, !.snapshot = card]
<1>2. h \in Handler /\ h.pc = "clicked" /\ h.snapshot = card /\ h.copy = NewCard
      /\ h.segment = "pending" /\ h.done = 0
  <2>1. HandlerIdle \in Handler /\ card \in Card
    BY IdleHandlers, CardTyped
  <2>2. h \in Handler
    BY <2>1 DEF Handler
  <2> QED BY <2>1, <2>2, IdleHandlers DEF Handler
<1>3. press' = [press EXCEPT ![p] = h]
  BY <1>1 DEF Plugin
<1>4. UNCHANGED <<card, claimed, applied, settle, ran, rolled, restarts, slips, worker>>
  BY DEF Click, vars
<1> HIDE DEF h
<1>5. OthersFit /\ AppliedStays
  BY <1>4, CardTyped, QuietOthers
<1>6. Claimed'
  BY <1>2, <1>3, <1>4, CardTyped, ClaimsStay DEF Running
<1>7. HandlerFits(h)
  BY <1>2, <1>5, MessagesStay, NewCardTrue DEF HandlerFits
<1> QED BY <1>3, <1>5, <1>6, <1>7, HandlerStep

LEMMA ClaimKeeps == ASSUME Context, NEW p \in Merge, Claim(p) PROVE CardInv'
<1> DEFINE r == press[p].row
           read == [press[p] EXCEPT !.pc = "read"]
<1>1. /\ press[p].pc = "clicked"
      /\ UNCHANGED <<card, applied, settle, ran, rolled, restarts, slips, worker>>
  BY DEF Claim, vars
<1>2. press[p] \in Handler /\ r \in Row
  BY CardTyped, HandlerTyped
<1>3. OthersFit /\ AppliedStays
  <2>1. claimed' \subseteq Row
    BY <1>2, CardTyped DEF Claim
  <2> QED BY <1>1, <2>1, CardTyped, QuietOthers
<1>4. CASE r \in claimed
  <2>1. press' = [press EXCEPT ![p] = HandlerEnd] /\ UNCHANGED claimed
    BY <1>4 DEF Claim, Plugin
  <2>2. Claimed'
    BY <1>1, <2>1, CardTyped, IdleHandlers, ClaimsStay DEF Running
  <2> QED BY <1>3, <2>1, <2>2, EndFits, HandlerStep
<1>5. CASE r \notin claimed
  <2>1. press' = [press EXCEPT ![p] = read] /\ claimed' = claimed \cup {r}
    BY <1>5 DEF Claim, Plugin
  <2>2. /\ read \in Handler /\ read.pc = "read" /\ read.row = r /\ read.snapshot = press[p].snapshot
        /\ read.copy = press[p].copy /\ read.segment = press[p].segment /\ read.done = press[p].done
    BY <1>2 DEF Handler
  <2> HIDE DEF read
  <2>3. Claimed'
    <3>1. \A q \in Merge : press'[q] = IF q = p THEN read ELSE press[q]
      BY <2>1, CardTyped
    <3>2. \A q \in Merge : Live(q) => press[q].row # r
      BY <1>5, CardTyped DEF Claimed
    <3>3. \A q \in Merge : Live(q)' => q = p \/ (Live(q) /\ press'[q] = press[q])
      BY <3>1 DEF Live
    <3>4. ran[r] <= restarts
      BY <1>2, <1>5, CardTyped DEF Claimed
    <3>5. ASSUME NEW q \in Merge, Live(q)'
          PROVE  /\ press'[q].row \in claimed'
                 /\ ran'[press'[q].row] <= restarts'
                 /\ \A x \in Merge : Live(x)' /\ press'[x].row = press'[q].row => x = q
      BY <1>1, <2>1, <2>2, <3>1, <3>2, <3>3, <3>4, <3>5, CardTyped DEF Claimed
    <3>6. \A o \in Row : ran'[o] <= 1 + restarts' /\ (o \notin claimed' => ran'[o] <= restarts')
      BY <1>1, <2>1, CardTyped DEF Claimed
    <3> QED BY <3>5, <3>6 DEF Claimed
  <2>4. HandlerFits(read)
    BY <1>1, <1>3, <2>2, SameFits DEF OthersFit
  <2> QED BY <1>3, <2>1, <2>3, <2>4, HandlerStep
<1> QED BY <1>4, <1>5

LEMMA ReadCardKeeps == ASSUME Context, NEW p \in Merge, ReadCard(p) PROVE CardInv'
<1>1. /\ press[p].pc = "read" /\ slips' \in {slips, slips + 1} /\ slips' <= MaxFault
      /\ UNCHANGED <<card, claimed, applied, settle, ran, rolled, restarts, worker>>
  BY CardTyped DEF ReadCard, vars, Slip
<1>2. PICK c \in {card, press[p].snapshot} :
         press' = [press EXCEPT ![p] = [press[p] EXCEPT !.pc = "put", !.copy = c]]
  BY DEF ReadCard, Plugin
<1> DEFINE h == [press[p] EXCEPT !.pc = "put", !.copy = c]
<1>3. press[p] \in Handler /\ c \in Card
  BY CardTyped, HandlerTyped
<1>4. /\ h \in Handler /\ h.pc = "put" /\ h.row = press[p].row /\ h.snapshot = press[p].snapshot
      /\ h.copy = c /\ h.segment = press[p].segment /\ h.done = press[p].done
  <2>1. h \in Handler
    BY <1>3 DEF Handler
  <2> QED BY <1>3, <2>1 DEF Handler
<1> HIDE DEF h
<1>5. OthersFit /\ AppliedStays
  BY <1>1, CardTyped, QuietOthers
<1>6. press' = [press EXCEPT ![p] = h]
  BY <1>2 DEF h
<1>7. Claimed'
  BY <1>1, <1>4, <1>6, CardTyped, ClaimsStay DEF Running
<1>8. TrueLater(c)
  BY <1>5, MessagesStay
<1>9. HandlerFits(h)
  BY <1>1, <1>4, <1>5, <1>8, SameFits DEF OthersFit
<1> QED BY <1>5, <1>6, <1>7, <1>9, HandlerStep

LEMMA PutCardKeeps == ASSUME Context, NEW p \in Merge, PutCard(p) PROVE CardInv'
<1> DEFINE h == press[p]
           blocks == Replaced(h.copy, h.row, h.segment)
           run == [h EXCEPT !.pc = "run", !.copy = NewCard]
<1>1. /\ h.pc = "put" /\ Update(h.row, h.copy, blocks)
      /\ press' = [press EXCEPT ![p] = IF h.segment = "pending" THEN run ELSE HandlerEnd]
      /\ UNCHANGED <<claimed, applied, settle, ran, restarts, worker>>
  BY DEF PutCard, Plugin, vars
<1>2. AppliedStays /\ h \in Handler /\ h.row \in Row /\ h.copy \in Card
  BY <1>1, CardTyped, HandlerTyped DEF AppliedStays
<1>3. TrueLater(h.snapshot) /\ TrueLater(h.copy) /\ TrueLater(card)
  BY <1>2, MessagesStay
<1>4. blocks \in Card /\ TrueLater(blocks)
  <2>1. /\ h.segment \in {"pending", "judged", "retry"}
        /\ h.row \in Verdict /\ h.segment = "judged" => applied'[h.row] = 1 .. 2
    BY <1>1, CardTyped, HandlerTyped DEF Handles
  <2> QED BY <1>2, <1>3, <2>1, ReplacedTrue
<1> HIDE DEF blocks
<1>5. OthersFit
  <2>1. /\ card' \in Card /\ TrueLater(card') /\ rolled' \subseteq Row
        /\ slips' \in {slips, slips + 1} /\ slips' <= MaxFault
    BY <1>1, <1>2, <1>3, <1>4, CardTyped, UpdateTrue
  <2> QED BY <1>1, <2>1, CardTyped DEF OthersFit
<1>6. CASE h.segment = "pending"
  <2>1. /\ run \in Handler /\ run.pc = "run" /\ run.row = h.row /\ run.snapshot = h.snapshot
        /\ run.copy = NewCard /\ run.segment = h.segment /\ run.done = h.done
    <3>1. run \in Handler
      BY <1>2, NewCardTrue DEF Handler
    <3> QED BY <1>2, <3>1 DEF Handler
  <2> HIDE DEF run
  <2>2. press' = [press EXCEPT ![p] = run]
    BY <1>1, <1>6
  <2>3. Claimed'
    BY <1>1, <1>6, <2>1, <2>2, CardTyped, ClaimsStay DEF Running
  <2>4. HandlerFits(run)
    BY <1>1, <1>2, <2>1, NewCardTrue, SameFits DEF OthersFit
  <2> QED BY <1>5, <2>2, <2>3, <2>4, HandlerStep
<1>7. CASE h.segment # "pending"
  <2>1. press' = [press EXCEPT ![p] = HandlerEnd]
    BY <1>1, <1>7
  <2>2. Claimed'
    BY <1>1, <2>1, CardTyped, IdleHandlers, ClaimsStay DEF Running
  <2> QED BY <1>5, <2>1, <2>2, EndFits, HandlerStep
<1> QED BY <1>6, <1>7

\* A handler whose effects have all run, or ended in a failure: the row's claim may go
\* only when they have not all run.
LEMMA EffectsDone ==
    ASSUME CardInv, NEW p \in Merge, NEW h, press' = [press EXCEPT ![p] = h],
           Live(p), ~Running(h), UNCHANGED restarts,
           \/ /\ claimed' = claimed
              /\ ran' = [ran EXCEPT ![press[p].row] = @ + 1]
           \/ claimed' = claimed \ {press[p].row} /\ ran' = ran
    PROVE  Claimed'
<1>1. /\ press \in [Merge -> Handler] /\ press[p].row \in Row /\ Claimed
      /\ ran \in [Row -> Nat] /\ restarts \in Nat
  BY HandlerTyped DEF CardInv, CardTypeOK
<1>2. \A q \in Merge : Live(q)' => /\ Live(q) /\ press'[q] = press[q]
                                   /\ press[q].row # press[p].row /\ press[q].row \in Row
  <2> SUFFICES ASSUME NEW q \in Merge, Live(q)'
               PROVE  /\ Live(q) /\ press'[q] = press[q]
                      /\ press[q].row # press[p].row /\ press[q].row \in Row
    OBVIOUS
  <2>1. q # p /\ press'[q] = press[q]
    BY <1>1 DEF Live
  <2>2. Live(q)
    BY <2>1 DEF Live
  <2>3. press[q].row # press[p].row
    BY <1>1, <2>1, <2>2 DEF Claimed
  <2> QED BY <2>1, <2>2, <2>3, HandlerTyped
<1>3. ran[press[p].row] <= restarts /\ press[p].row \in claimed
  BY <1>1 DEF Claimed
<1>4. \A r \in Row : r # press[p].row => ran'[r] = ran[r] /\ (r \in claimed' <=> r \in claimed)
  BY <1>1
<1>5. ASSUME NEW q \in Merge, Live(q)'
      PROVE  /\ press'[q].row \in claimed'
             /\ ran'[press'[q].row] <= restarts'
             /\ \A x \in Merge : Live(x)' /\ press'[x].row = press'[q].row => x = q
  BY <1>1, <1>2, <1>4, <1>5 DEF Claimed
<1>6. ran'[press[p].row] <= 1 + restarts' /\ (press[p].row \notin claimed' => ran'[press[p].row] <= restarts')
  BY <1>1, <1>3
<1>7. \A r \in Row : ran'[r] <= 1 + restarts' /\ (r \notin claimed' => ran'[r] <= restarts')
  BY <1>1, <1>4, <1>6 DEF Claimed
<1> QED BY <1>5, <1>7 DEF Claimed

LEMMA RunMergeKeeps == ASSUME Context, NEW p \in Merge, RunMerge(p) PROVE CardInv'
<1> DEFINE r == press[p].row
           h == [press[p] EXCEPT !.pc = "answer"]
<1>1. /\ press[p].pc = "run" /\ r \in Subject /\ press' = [press EXCEPT ![p] = h]
      /\ ran' = [ran EXCEPT ![r] = @ + 1]
      /\ UNCHANGED <<card, claimed, applied, settle, rolled, restarts, slips, worker>>
  BY DEF RunMerge, Plugin, Post, Unheard
<1>2. press[p] \in Handler
  BY CardTyped, HandlerTyped
<1>3. /\ h \in Handler /\ h.pc = "answer" /\ h.row = r /\ h.snapshot = press[p].snapshot
      /\ h.copy = press[p].copy /\ h.segment = press[p].segment /\ h.done = press[p].done
  BY <1>2 DEF Handler
<1> HIDE DEF h
<1>4. AppliedStays
  BY <1>1 DEF AppliedStays
<1>5. OthersFit
  <2>1. TrueLater(card')
    BY <1>1, <1>4, MessagesStay
  <2>2. ran' \in [Row -> Nat]
    BY <1>1, CardTyped, HandlerTyped
  <2> QED BY <1>1, <2>1, <2>2, CardTyped DEF OthersFit
<1>6. Claimed'
  BY <1>1, <1>3, CardTyped, EffectsDone DEF Live, Running
<1>7. HandlerFits(h)
  BY <1>1, <1>3, <1>4, SameFits
<1> QED BY <1>1, <1>5, <1>6, <1>7, HandlerStep

LEMMA AnsweredKeeps == ASSUME Context, NEW p \in Merge, Answered(p) PROVE CardInv'
<1> DEFINE h == Outcome(p, "judged")
<1>1. /\ press[p].pc = "answer" /\ slips' \in {slips, slips + 1} /\ slips' <= MaxFault
      /\ UNCHANGED <<card, claimed, applied, settle, ran, rolled, restarts, worker>>
      /\ press' = [press EXCEPT ![p] = HandlerEnd] \/ press' = [press EXCEPT ![p] = h]
  BY CardTyped DEF Answered, Plugin, Slip, vars
<1>2. press[p] \in Handler /\ press[p].row \in Subject
  BY <1>1, CardTyped, HandlerTyped DEF Handles
<1>3. /\ h \in Handler /\ h.pc = "read" /\ h.row = press[p].row /\ h.snapshot = press[p].snapshot
      /\ h.copy = press[p].copy /\ h.segment = "judged" /\ h.done = press[p].done
  <2>1. h \in Handler
    BY <1>2 DEF Outcome, Handler, Shown
  <2> QED BY <1>2, <2>1 DEF Outcome, Handler
<1> HIDE DEF h
<1>4. OthersFit /\ AppliedStays
  BY <1>1, CardTyped, QuietOthers
<1>5. CASE press' = [press EXCEPT ![p] = HandlerEnd]
  <2>1. Claimed'
    BY <1>1, <1>5, CardTyped, IdleHandlers, ClaimsStay DEF Running
  <2> QED BY <1>4, <1>5, <2>1, EndFits, HandlerStep
<1>6. CASE press' = [press EXCEPT ![p] = h]
  <2>1. Claimed'
    BY <1>1, <1>3, <1>6, CardTyped, ClaimsStay DEF Running
  <2>2. h.row \notin Verdict
    BY <1>2, <1>3, CardAssumption
  <2>3. HandlerFits(h)
    BY <1>2, <1>3, <1>4, <2>2, SameFits DEF OthersFit
  <2> QED BY <1>4, <1>6, <2>1, <2>3, HandlerStep
<1> QED BY <1>1, <1>5, <1>6

\* The effects a handler has done so far, and one more.
LEMMA OneMoreEffect ==
    ASSUME Context, NEW p \in Merge, press[p].row \in Verdict,
           applied' \in {applied, [applied EXCEPT ![press[p].row] = @ \cup {press[p].done + 1}]}
    PROVE  /\ applied' \in [Verdict -> SUBSET (1 .. 2)]
           /\ \A r \in Verdict : applied[r] \subseteq applied'[r]
           /\ AppliedStays
<1>1. press[p].done + 1 \in 1 .. 2 /\ applied \in [Verdict -> SUBSET (1 .. 2)]
  BY CardTyped, HandlerTyped
<1>2. /\ applied' \in [Verdict -> SUBSET (1 .. 2)]
      /\ \A r \in Verdict : applied[r] \subseteq applied'[r]
  BY <1>1
<1>3. AppliedStays
  BY <1>2 DEF AppliedStays
<1> QED BY <1>2, <1>3

LEMMA RunVerdictKeeps == ASSUME Context, NEW p \in Merge, RunVerdict(p) PROVE CardInv'
<1> DEFINE h == press[p]
           r == h.row
           n == h.done + 1
<1>1. /\ h.pc = "run" /\ r \in Verdict
      /\ applied' = [applied EXCEPT ![r] = @ \cup {n}]
      /\ UNCHANGED <<card, claimed, settle, rolled, restarts, slips, worker>>
      /\ IF n = 2 THEN press' = [press EXCEPT ![p] = Outcome(p, "judged")] /\ ran' = [ran EXCEPT ![r] = @ + 1]
         ELSE press' = [press EXCEPT ![p] = [h EXCEPT !.done = n]] /\ UNCHANGED ran
  BY DEF RunVerdict, Plugin, vars
<1>2. /\ h \in Handler /\ r \in Row /\ h.done \in 0 .. 1 /\ h.segment \in {"pending", "judged", "retry"}
      /\ h.done = 1 => 1 \in applied[r]
  BY <1>1, CardTyped, HandlerTyped DEF Handles
<1>3. /\ applied' \in [Verdict -> SUBSET (1 .. 2)]
      /\ \A o \in Verdict : applied[o] \subseteq applied'[o]
      /\ AppliedStays
  BY <1>1, OneMoreEffect
<1>4. OthersFit
  <2>1. TrueLater(card')
    BY <1>1, <1>3, MessagesStay
  <2>2. ran' \in [Row -> Nat]
    BY <1>1, <1>2, CardTyped
  <2> QED BY <1>1, <1>3, <2>1, <2>2, CardTyped DEF OthersFit
<1>5. n \in applied'[r]
  BY <1>1, CardTyped
<1>6. CASE n = 2
  <2> DEFINE new == Outcome(p, "judged")
  <2>1. /\ new \in Handler /\ new.pc = "read" /\ new.row = r /\ new.snapshot = h.snapshot
        /\ new.copy = h.copy /\ new.segment = "judged" /\ new.done = h.done
    <3>1. new \in Handler
      BY <1>2 DEF Outcome, Handler, Shown
    <3> QED BY <1>2, <3>1 DEF Outcome, Handler
  <2> HIDE DEF new
  <2>2. press' = [press EXCEPT ![p] = new] /\ ran' = [ran EXCEPT ![r] = @ + 1]
    BY <1>1, <1>6 DEF new
  <2>3. applied'[r] = 1 .. 2
    <3>1. 1 \in applied'[r] /\ 2 \in applied'[r] /\ applied'[r] \subseteq 1 .. 2
      BY <1>1, <1>2, <1>3, <1>5, <1>6
    <3> QED BY <3>1
  <2>4. Claimed'
    BY <1>1, <2>1, <2>2, CardTyped, EffectsDone DEF Live, Running
  <2>5. HandlerFits(new)
    BY <1>3, <2>1, <2>3, SameFits
  <2> QED BY <1>4, <2>2, <2>4, <2>5, HandlerStep
<1>7. CASE n # 2
  <2> DEFINE new == [h EXCEPT !.done = n]
  <2>1. h.done = 0 /\ n = 1
    BY <1>2, <1>7
  <2>2. /\ new \in Handler /\ new.pc = h.pc /\ new.row = r /\ new.snapshot = h.snapshot
        /\ new.copy = h.copy /\ new.segment = h.segment /\ new.done = 1
    <3>1. new \in Handler
      BY <1>2, <2>1 DEF Handler
    <3> QED BY <1>2, <2>1, <3>1 DEF Handler
  <2> HIDE DEF new
  <2>3. press' = [press EXCEPT ![p] = new] /\ UNCHANGED ran
    BY <1>1, <1>7 DEF new
  <2>4. Claimed'
    BY <1>1, <2>2, <2>3, CardTyped, ClaimsStay DEF Running
  <2>5. TrueLater(new.snapshot) /\ TrueLater(new.copy)
    BY <1>3, <2>2, MessagesStay
  <2>6. new.segment = "judged" => applied'[r] = 1 .. 2
    BY <1>1, <1>3, <2>2, CardTyped DEF Handles, AppliedStays
  <2>7. HandlerFits(new)
    BY <1>1, <1>2, <1>5, <2>1, <2>2, <2>5, <2>6 DEF HandlerFits
  <2> QED BY <1>4, <2>3, <2>4, <2>7, HandlerStep
<1> QED BY <1>6, <1>7

LEMMA VerdictFailsKeeps == ASSUME Context, NEW p \in Merge, VerdictFails(p) PROVE CardInv'
<1> DEFINE h == Outcome(p, "retry")
<1>1. /\ press[p].pc = "run" /\ press[p].row \in Verdict
      /\ slips' \in {slips, slips + 1} /\ slips' <= MaxFault
      /\ applied' \in {applied, [applied EXCEPT ![press[p].row] = @ \cup {press[p].done + 1}]}
      /\ claimed' = claimed \ {press[p].row} /\ press' = [press EXCEPT ![p] = h]
      /\ UNCHANGED <<card, settle, ran, rolled, restarts, worker>>
  BY CardTyped DEF VerdictFails, Plugin, Slip, vars
<1>2. press[p] \in Handler
  BY CardTyped, HandlerTyped
<1>3. /\ h \in Handler /\ h.pc = "read" /\ h.row = press[p].row /\ h.snapshot = press[p].snapshot
      /\ h.copy = press[p].copy /\ h.segment = "retry" /\ h.done = press[p].done
  <2>1. h \in Handler
    BY <1>2 DEF Outcome, Handler, Shown
  <2> QED BY <1>2, <2>1 DEF Outcome, Handler
<1> HIDE DEF h
<1>4. /\ applied' \in [Verdict -> SUBSET (1 .. 2)]
      /\ \A r \in Verdict : applied[r] \subseteq applied'[r]
      /\ AppliedStays
  BY <1>1, OneMoreEffect
<1>5. OthersFit
  <2>1. TrueLater(card')
    BY <1>1, <1>4, MessagesStay
  <2> QED BY <1>1, <1>4, <2>1, CardTyped DEF OthersFit
<1>6. Claimed'
  BY <1>1, <1>3, CardTyped, EffectsDone DEF Live, Running
<1>7. HandlerFits(h)
  BY <1>3, <1>4, SameFits
<1> QED BY <1>1, <1>5, <1>6, <1>7, HandlerStep

-----------------------------------------------------------------------------
(* The plugin restarts; the door's part.                                   *)

LEMMA PluginRestartsKeeps == ASSUME Context, PluginRestarts PROVE CardInv'
<1>1. /\ slips < MaxFault /\ slips' = slips + 1 /\ restarts' = restarts + 1 /\ claimed' = {}
      /\ press' = [p \in Merge |-> IF press[p].pc = "idle" THEN press[p] ELSE HandlerEnd]
      /\ UNCHANGED <<card, applied, settle, ran, rolled, worker>>
  BY DEF PluginRestarts, Slip, vars
<1>2. CardTypeOK /\ restarts <= slips /\ Missing /\ AppliedStays
  BY <1>1 DEF Context, CardInv, AppliedStays
<1>3. \A q \in Merge : press'[q] = press[q] \/ press'[q] = HandlerEnd
  BY <1>1
<1>4. CardTypeOK' /\ (restarts <= slips)'
  <2>1. slips' \in 0 .. MaxFault /\ restarts' \in 0 .. MaxFault /\ restarts' <= slips'
    BY <1>1, <1>2, MergeAssumption DEF CardTypeOK
  <2>2. press' \in [Merge -> Handler]
    BY <1>1, <1>2, IdleHandlers DEF CardTypeOK
  <2> QED BY <1>1, <1>2, <2>1, <2>2 DEF CardTypeOK
<1>5. Claimed'
  <2>1. \A q \in Merge : ~Live(q)'
    BY <1>1, IdleHandlers DEF Live, Running
  <2>2. \A r \in Row : ran'[r] <= restarts' /\ ran'[r] <= 1 + restarts'
    BY <1>1, CardTyped DEF Claimed
  <2> QED BY <2>1, <2>2 DEF Claimed
<1>6. Shows'
  <2>1. /\ TrueLater(card') /\ TrueLater(settle'.copy)
        /\ \A q \in Merge : TrueLater(press'[q].snapshot) /\ TrueLater(press'[q].copy)
    BY <1>1, <1>2, <1>3, MessagesStay, IdleHandlers, NewCardTrue
  <2> QED BY <2>1 DEF Shows, TrueCard, TrueLater
<1>7. Handles'
  <2>1. ASSUME NEW q \in Merge
        PROVE  /\ press'[q].segment \in {"pending", "judged", "retry"}
               /\ press'[q].done \in 0 .. 1
               /\ press'[q].pc = "answer" => press'[q].row \in Subject
               /\ press'[q].row \in Verdict =>
                     /\ press'[q].done = 1 => 1 \in applied'[press'[q].row]
                     /\ press'[q].segment = "judged" => applied'[press'[q].row] = 1 .. 2
    <3>1. CASE press'[q] = press[q]
      BY <1>1, <3>1, CardTyped DEF Handles
    <3>2. CASE press'[q] = HandlerEnd
      BY <3>2, IdleHandlers
    <3> QED BY <1>3, <3>1, <3>2
  <2> QED BY <2>1 DEF Handles
<1>8. Missing'
  BY <1>2, MissingStays DEF Context
<1> QED BY <1>4, <1>5, <1>6, <1>7, <1>8 DEF CardInv

\* A step that leaves the handlers alone.
LEMMA DoorKeeps ==
    ASSUME Context, UNCHANGED <<press, claimed, applied, ran, restarts>>,
           card' \in Card, TrueLater(card'), rolled' \subseteq Row,
           slips' \in {slips, slips + 1}, slips' <= MaxFault,
           settle' \in Settle, TrueLater(settle'.copy),
           settle'.merge # NoMerge => worker'.pc = "tell" /\ settle'.merge \in worker'.batch
    PROVE  CardInv'
<1>1. CardTypeOK /\ restarts <= slips /\ Missing /\ AppliedStays
  BY DEF Context, CardInv, AppliedStays
<1>2. CardTypeOK' /\ (restarts <= slips)'
  <2>1. slips' \in 0 .. MaxFault /\ restarts' <= slips'
    BY <1>1 DEF CardTypeOK
  <2> QED BY <1>1, <2>1 DEF CardTypeOK
<1>3. Claimed'
  BY DEF Context, CardInv, Claimed, Live
<1>4. Shows'
  <2>1. \A q \in Merge : TrueLater(press'[q].snapshot) /\ TrueLater(press'[q].copy)
    BY <1>1, MessagesStay
  <2> QED BY <2>1 DEF Shows, TrueCard, TrueLater
<1>5. Handles'
  BY DEF Context, CardInv, Handles
<1>6. Missing'
  BY <1>1, MissingStays DEF Context
<1> QED BY <1>2, <1>3, <1>4, <1>5, <1>6 DEF CardInv

LEMMA ShowReadKeeps == ASSUME Context, NEW m \in Merge, ShowRead(m) PROVE CardInv'
<1>1. /\ worker.pc = "tell" /\ m \in worker.batch /\ settle' = [merge |-> m, copy |-> card]
      /\ UNCHANGED <<card, press, claimed, applied, ran, rolled, restarts, slips, worker>>
  BY DEF ShowRead, vars
<1>2. TrueLater(card)
  BY <1>1, MessagesStay DEF AppliedStays
<1>3. settle' \in Settle /\ settle'.copy = card /\ settle'.merge = m
  BY <1>1, CardTyped DEF Settle
<1> QED BY <1>1, <1>2, <1>3, CardTyped, DoorKeeps

LEMMA NoSettleTyped == NoSettle \in Settle /\ NoSettle.merge = NoMerge /\ NoSettle.copy = NewCard
BY NewCardTrue DEF NoSettle, Settle

\* The row of a merge that is now told as done was read again.
LEMMA ToldRow ==
    ASSUME Context, NEW m \in Merge, Tell(m), worker.outcome = "done"
    PROVE  SpokenFor(door[m].subject)' /\ \A n \in Note : Reread(door[m].subject, n)'
<1> DEFINE r == door[m].subject
<1>1. /\ m \in committed /\ r \in Subject /\ door' = door /\ committed' = committed
      /\ told'[m] = "done" /\ m \in committed'
  <2>1. m \in committed /\ told \in [Merge -> {"no", "done", "failed"}]
    BY DEF Tell, Context, IInv, Placed, TypeOK
  <2> QED BY <2>1, Typed DEF Tell, WorkerOnly, Context, IInv
<1>2. \E x \in Merge : door'[x].subject = r /\ told'[x] = "done"
  BY <1>1
<1>3. ASSUME NEW n \in Note, NEW s \in Subject, s = r
      PROVE  Reread(s, n)'
  <2>1. CASE n \notin door[m].notes
    <3>1. Reread(s, n)
      BY <1>1, <1>3, <2>1 DEF Context, CardInv, Missing
    <3> QED BY <3>1, RereadStays DEF Context
  <2>2. CASE n \in door[m].notes
    <3> DEFINE e == <<s, n>>
    <3>1. e \in Claims(m)'
      BY <1>1, <1>3, <2>2 DEF Claims
    <3>2. Back(e)' \/ \E x \in Merge : Owes(x, e)'
      BY <1>1, <3>1 DEF Context, IInv, Covered
    <3>3. ASSUME NEW x \in Merge, Owes(x, e)' PROVE Owed(s, n)'
      <4>1. /\ x \in committed' /\ told'[x] # "done"
            /\ \E k \in door'[x].notes : <<s, n>> = <<door'[x].subject, k>>
        BY <3>3 DEF Owes, Claims
      <4>2. door'[x].subject = s /\ n \in door'[x].notes
        BY <4>1
      <4> QED BY <4>1, <4>2 DEF Owed
    <3> QED BY <3>2, <3>3 DEF Back, Reread
  <2> QED BY <2>1, <2>2
<1>4. SpokenFor(r)'
  BY <1>1, <1>2 DEF SpokenFor
<1>5. \A n \in Note : Reread(r, n)'
  <2> SUFFICES ASSUME NEW n \in Note PROVE Reread(r, n)'
    OBVIOUS
  <2>1. PICK s \in Subject : s = r
    BY <1>1
  <2>2. Reread(s, n)'
    BY <1>3, <2>1
  <2> QED BY <1>1, <2>1, <2>2 DEF Reread, Owed
<1> QED BY <1>4, <1>5

LEMMA ShowPutKeeps == ASSUME Context, NEW m \in Merge, ShowPut(m) PROVE CardInv'
<1> DEFINE r == door[m].subject
           blocks == Marked(settle.copy, r, worker.outcome)
<1>1. /\ Update(r, settle.copy, blocks) /\ Tell(m) /\ settle' = NoSettle
      /\ UNCHANGED <<press, claimed, applied, ran, restarts>>
  BY DEF ShowPut
<1>2. r \in Subject /\ r \in Row /\ worker.outcome \in {"done", "failed"} /\ settle.copy \in Card
  BY Typed DEF Context, IInv, CardInv, CardTypeOK, Settle, Row
<1>3. AppliedStays /\ door' = door
  BY <1>1 DEF AppliedStays, Tell, WorkerOnly
<1>4. TrueLater(settle.copy) /\ TrueLater(card)
  BY <1>3, MessagesStay
<1>5. PICK s \in Subject : s = r
  BY <1>2
<1>6. worker.outcome = "done" => SpokenFor(s)' /\ \A n \in Note : Reread(s, n)'
  <2> SUFFICES ASSUME worker.outcome = "done" PROVE SpokenFor(s)' /\ \A n \in Note : Reread(s, n)'
    OBVIOUS
  <2>1. SpokenFor(r)' /\ \A n \in Note : Reread(r, n)'
    BY <1>1, ToldRow
  <2> QED BY <1>3, <1>5, <2>1 DEF SpokenFor, Reread, Owed
<1>7. blocks \in Card /\ TrueLater(blocks)
  BY <1>2, <1>4, <1>5, <1>6, MarkedTrue
<1> HIDE DEF blocks
<1>8. /\ card' \in Card /\ TrueLater(card') /\ rolled' \subseteq Row
      /\ slips' \in {slips, slips + 1} /\ slips' <= MaxFault
  BY <1>1, <1>2, <1>4, <1>7, CardTyped, UpdateTrue
<1> QED BY <1>1, <1>8, NoSettleTyped, NewCardTrue, DoorKeeps

LEMMA DoorGoneKeeps == ASSUME Context, DoorGone PROVE CardInv'
<1>1. /\ settle' = NoSettle
      /\ UNCHANGED <<card, press, claimed, applied, ran, rolled, restarts, slips>>
  BY DEF DoorGone
<1>2. TrueLater(card)
  BY <1>1, MessagesStay DEF AppliedStays
<1> QED BY <1>1, <1>2, NoSettleTyped, NewCardTrue, CardTyped, DoorKeeps

\* Nothing but Tell and the door's end takes a worker away that settles rows.
LEMMA MergeStepKeeps ==
    ASSUME Context, MergeStep \/ UNCHANGED vars, UNCHANGED cardVars
    PROVE  CardInv'
<1>1. worker.pc = "tell" => worker' = worker
  BY DEF MergeStep, RequestStep, Find, Commit, Enqueue, CommitFails, Unheard, Take, Recount,
         SyncTimesOut, RecountFails, BatchRaises, WorkerDies, EngineStep, PassEnds, Probe, Insert,
         SchedulerSyncs, SyncStarts, PassFails, IngestFails, vars
<1>2. UNCHANGED <<card, press, claimed, applied, settle, ran, rolled, restarts, slips>>
  BY DEF cardVars
<1>3. TrueLater(card) /\ TrueLater(settle.copy)
  BY <1>2, MessagesStay DEF AppliedStays
<1>4. /\ settle \in Settle
      /\ settle.merge # NoMerge => worker.pc = "tell" /\ settle.merge \in worker.batch
  BY DEF Context, CardInv, CardTypeOK
<1> QED BY <1>1, <1>2, <1>3, <1>4, CardTyped, DoorKeeps

-----------------------------------------------------------------------------
(* The invariant.                                                          *)

\* A step of the card is a step of the merge, or leaves it alone.
LEMMA CardStepMerges == CardNext \/ UNCHANGED allVars => [Next]_vars
<1> SUFFICES ASSUME CardNext \/ UNCHANGED allVars PROVE Next \/ UNCHANGED vars
  OBVIOUS
<1>1. CASE UNCHANGED allVars
  BY <1>1 DEF allVars
<1>2. CASE \E p \in Merge : Click(p) \/ Claim(p) \/ ReadCard(p) \/ PutCard(p) \/ Answered(p)
                             \/ RunVerdict(p) \/ VerdictFails(p)
  BY <1>2 DEF Click, Claim, ReadCard, PutCard, Answered, RunVerdict, VerdictFails
<1>3. CASE \E p \in Merge : RunMerge(p)
  BY <1>3 DEF RunMerge, Next
<1>4. CASE PluginRestarts \/ ShowStep \/ DoorGone
  BY <1>4 DEF PluginRestarts, ShowStep, ShowRead, ShowPut, DoorGone, Next, WorkerStep
<1>5. CASE MergeStep
  BY <1>5 DEF MergeStep, Next, WorkerStep
<1> QED BY <1>1, <1>2, <1>3, <1>4, <1>5 DEF CardNext, PressStep

LEMMA CardStep == IInv /\ IInv' /\ CardInv /\ [CardNext]_allVars => CardInv'
<1> SUFFICES ASSUME IInv, IInv', CardInv, [CardNext]_allVars PROVE CardInv'
  OBVIOUS
<1>1. Context
  BY CardStepMerges DEF Context
<1>2. CASE UNCHANGED allVars
  <2>1. UNCHANGED vars /\ UNCHANGED cardVars
    BY <1>2 DEF allVars
  <2> QED BY <1>1, <2>1, MergeStepKeeps
<1>3. CASE CardNext
  BY <1>1, <1>3, ClickKeeps, ClaimKeeps, ReadCardKeeps, PutCardKeeps, RunMergeKeeps, AnsweredKeeps,
     RunVerdictKeeps, VerdictFailsKeeps, PluginRestartsKeeps, ShowReadKeeps, ShowPutKeeps,
     MergeStepKeeps, DoorGoneKeeps
  DEF CardNext, PressStep, ShowStep
<1> QED BY <1>2, <1>3

LEMMA InitCardInv == CardInit => CardInv
<1> SUFFICES ASSUME CardInit PROVE CardInv
  OBVIOUS
<1> USE DEF CardInit
<1>1. \A r \in Row : NewCard[r] = "buttons"
  BY DEF NewCard
<1>2. TrueCard(NewCard)
  BY <1>1 DEF TrueCard, Row
<1>3. NewCard \in Card
  BY <1>1 DEF NewCard, Card, Shown
<1>4. HandlerIdle \in Handler /\ HandlerIdle.pc = "idle" /\ HandlerIdle.segment = "pending"
      /\ HandlerIdle.snapshot = NewCard /\ HandlerIdle.copy = NewCard /\ HandlerIdle.done = 0
  BY IdleHandlers
<1>5. CardTypeOK /\ restarts <= slips
  BY <1>3, <1>4, NoSettleTyped, MergeAssumption DEF CardTypeOK
<1>6. Claimed
  BY <1>4 DEF Claimed, Live, Running
<1>7. Shows
  BY <1>2, <1>4, NoSettleTyped DEF Shows
<1>8. Handles
  BY <1>4 DEF Handles
<1>9. Missing
  <2>1. ASSUME NEW s \in Subject, NEW n \in Note PROVE table[<<s, n>>] # {}
    BY DEF Init, Stated
  <2>2. \A m \in Merge : door[m].pc # "commit" /\ m \notin committed
    BY Idles DEF Init
  <2> QED BY <2>1, <2>2 DEF Missing
<1> QED BY <1>5, <1>6, <1>7, <1>8, <1>9 DEF CardInv

LEMMA CardInvariant == CardSpec => [](IInv /\ CardInv)
<1>1. CardInit => IInv /\ CardInv
  BY InitIInv, InitCardInv DEF CardInit
<1>2. IInv /\ CardInv /\ [CardNext]_allVars => (IInv /\ CardInv)'
  <2> SUFFICES ASSUME IInv, CardInv, [CardNext]_allVars PROVE IInv' /\ CardInv'
    OBVIOUS
  <2>1. IInv'
    BY CardStepMerges, NextIInv
  <2> QED BY <2>1, CardStep
<1> QED BY <1>1, <1>2, PTL DEF CardSpec

\* The variables keep their types; the message the door has read is of a merge that
\* it is settling.
THEOREM CardTypeCorrect == CardSpec => []CardTypeOK
<1>1. CardInv => CardTypeOK
  BY DEF CardInv
<1> QED BY <1>1, CardInvariant, PTL

\* A row runs its effects at most once per card and process of the plugin, however
\* many presses and whichever writes bring its buttons back.
THEOREM EffectsRunOnceAlways == CardSpec => []EffectsRunOnce
<1>1. CardInv => EffectsRunOnce
  BY DEF CardInv, Claimed, EffectsRunOnce
<1> QED BY <1>1, CardInvariant, PTL

\* A verdict row that shows its verdict has it in the engine, both effects, also when
\* an old message was written over the newest.
THEOREM JudgedIsAppliedAlways == CardSpec => []JudgedIsApplied
<1>1. CardInv => JudgedIsApplied
  BY DEF CardInv, Shows, TrueCard, JudgedIsApplied
<1> QED BY <1>1, CardInvariant, PTL

\* A row that shows a merge as done is that of a merge whose reread ended well, and
\* its notes are back, failed by themselves, or owed to another merge of the row.
THEOREM MergedRowIsRereadAlways == CardSpec => []MergedRowIsReread
<1>1. CardInv => MergedRowIsReread
  BY DEF CardInv, Shows, TrueCard, SpokenFor, Reread, MergedRowIsReread
<1> QED BY <1>1, CardInvariant, PTL

\* Under the card the door merges as it does without it, and keeps its promise
\* (RereadJobs): presses, restarts of the plugin and lost updates change nothing of it.
THEOREM CardKeepsPromise == CardSpec => Spec /\ KeepsPromise
<1>1. CardInit => Init
  BY DEF CardInit
<1>2. [CardNext]_allVars => [Next]_vars
  BY CardStepMerges
<1>3. CardSpec => Spec
  BY <1>1, <1>2, PTL DEF CardSpec, Spec
<1> QED BY <1>3, DoorKeepsPromise
=============================================================================
