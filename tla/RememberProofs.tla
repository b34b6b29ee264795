--------------------------- MODULE RememberProofs ---------------------------
(***************************************************************************)
(* The write path of a note for any calls, notes, failures and numbers:    *)
(* type correctness, numbers grow, answers hold, the door's duplicate      *)
(* check drops no turn, and one note of a text is live.                    *)
(***************************************************************************)
EXTENDS Remember, FiniteSetTheorems, WellFoundedInduction, TLAPS

CallType == [
    pc : {"idle", "look", "create", "write", "ingest", "graph", "link"} \cup Ended,
    note : Note \cup {NoNote}, owner : BOOLEAN, seen : SUBSET Number,
    branch : {"none", "same_session", "probable_session", "exact_title", "embedding"},
    outcome : {"none", "stored", "superseded", "skipped", "refused"},
    targets : SUBSET Number, next : 0 .. MaxNumber,
    num : 0 .. MaxNumber, linked : SUBSET Number]

-----------------------------------------------------------------------------
(* The inductive invariant.                                                *)

Sent(c) == call[c].note \in Note
Stores_(c) == call[c].outcome \in {"stored", "superseded"}

\* The numbers so far are 1, 2, 3 ..., each with a file or a row and taken by a
\* call; what a call found free, or has seen taken, is not behind it.
Numbering ==
    /\ \E k \in 0 .. MaxNumber : used = 1 .. k
    /\ \A n \in Number : n \in used <=> (files[n] # NoFile \/ docs[n] # NoNote)
    /\ \A n \in used : \E c \in Call : call[c].num = n
    /\ \A c \in Call : HasNumber(c) => call[c].num \in used
    /\ \A c \in Call : call[c].pc = "create" =>
          /\ call[c].next > 0
          /\ \A k \in Number : k < call[c].next => k \in used
          /\ \A k \in used : k >= call[c].next => files[k] # NoFile

\* How far a call has come.
Progress(c) ==
    /\ call[c].pc = "idle" \/ Sent(c)
    /\ call[c].pc \in {"idle", "look", "create"} => ~HasNumber(c)
    /\ call[c].pc \in {"write", "ingest", "graph", "link"} => HasNumber(c)
    /\ call[c].pc \notin {"idle"} \cup Ended => Stores_(c)
    /\ HasNumber(c) => Stores_(c)
    /\ call[c].pc = "answered" /\ Stores_(c) => HasNumber(c)
    /\ call[c].outcome \in {"superseded", "skipped"} => call[c].branch # "none"
    /\ call[c].outcome = "none" => call[c].pc = "idle"
    /\ call[c].pc = "graph" => c \in Engine
    /\ call[c].pc = "answered" => {call[c].num} \X call[c].linked \subseteq edges

\* What is stored under the number of a call is its note.
Stored(c) ==
    HasNumber(c) =>
        /\ \/ files[call[c].num] = call[c].note
           \/ files[call[c].num] = EmptyFile
           \/ files[call[c].num] = NoFile /\ call[c].note \in gone
        /\ call[c].pc = "write" => files[call[c].num] = EmptyFile
        /\ call[c].pc \in {"ingest", "graph", "link", "answered"} =>
              files[call[c].num] # EmptyFile
        /\ docs[call[c].num] \in {NoNote, call[c].note}
        /\ call[c].pc \in {"graph", "link", "answered"} => docs[call[c].num] = call[c].note
        /\ call[c].pc \in {"link", "answered"} => call[c].num \in graph

Calls == \A c \in Call : Progress(c) /\ Stored(c)

Core == TypeOK /\ Numbering /\ Calls

\* Two calls with texts of one session.
Mates(c, d) ==
    /\ Sent(c) /\ Sent(d)
    /\ call[c].note.session = call[d].note.session /\ call[c].note.session # NoSession

\* The texts of a session follow one another: what the distill queue hands over.
Sessions ==
    /\ \A c, d \in Call : Mates(c, d) /\ call[c].note.since = call[d].note.since
                          => call[c].note.upto = call[d].note.upto
    /\ \A c \in Call : Sent(c) /\ call[c].note.session # NoSession /\ call[c].note.since > 0
          => \E d \in Call : Mates(c, d) /\ Answered(d) /\ call[d].note.upto = call[c].note.since

\* What a call has seen was numbered before it, and is of no later text.
Sightings ==
    /\ \A d \in Call : /\ call[d].seen \subseteq used
                       /\ HasNumber(d) => \A n \in call[d].seen : n < call[d].num
    /\ \A c, d \in Call : Mates(c, d) /\ HasNumber(c) /\ call[c].num \in call[d].seen
          => call[c].note.since <= call[d].note.since

Kept(m) == m \in gone \/ \E n \in Number : files[n] = m
Same(m, k) == m.session = k.session /\ m.since = k.since /\ m.upto = k.upto

\* A note the door skips for another of its session has the other's turns.
SkippedIsKept(d) ==
    d \in Door /\ call[d].branch = "same_session" /\ call[d].outcome = "skipped"
        => \E k \in Note : Kept(k) /\ Same(k, call[d].note)

\* So has one it supersedes, and its file is written by then.
SupersededIsSame(d) ==
    d \in Door /\ call[d].branch = "same_session" /\ call[d].outcome = "superseded"
        => \A t \in call[d].targets :
              /\ t \in used /\ files[t] # EmptyFile
              /\ files[t] \in Note => Same(files[t], call[d].note)

\* Who has seen a note of its own text supersedes a note of the session that is no
\* older.
RetellingSupersedes(d) ==
    Stores_(d) /\ ~call[d].owner /\ ~call[d].note.fix
        => \A c \in Call :
              Mates(c, d) /\ HasNumber(c) /\ call[c].num \in call[d].seen
              /\ call[c].note.since = call[d].note.since
              => /\ call[d].outcome = "superseded"
                 /\ \E e \in Call : /\ call[d].targets = {call[e].num}
                                    /\ call[e].num \in call[d].seen
                                    /\ call[c].num <= call[e].num /\ Mates(e, d)

Dedup == \A d \in Call : Sent(d) => SkippedIsKept(d) /\ SupersededIsSame(d) /\ RetellingSupersedes(d)

IInv == Core /\ Sessions /\ Sightings /\ Dedup

-----------------------------------------------------------------------------
(* Sets of numbers.                                                        *)

\* The least element of a set of naturals.
LEMMA LeastExists ==
    ASSUME NEW S \in SUBSET Nat, S # {}
    PROVE  \E x \in S : \A y \in S : x <= y
<1>1. PICK x \in S : \A y \in S : ~ (<<y, x>> \in OpToRel(<, Nat))
  BY NatLessThanWellFounded, WFMin
<1>2. \A y \in S : ~ (y < x)
  BY <1>1 DEF OpToRel
<1> QED BY <1>2

\* While a call has no number yet, one is left.
LEMMA NumberLeft ==
    ASSUME NEW num, NEW c \in Call, num[c] = 0, NEW K \in Nat,
           \A n \in 1 .. K : \E d \in Call : num[d] = n
    PROVE  K < MaxNumber
<1> DEFINE owner == [n \in 1 .. K |-> CHOOSE d \in Call : num[d] = n]
<1>1. owner \in Injection(1 .. K, Call \ {c})
  <2>1. \A n \in 1 .. K : owner[n] \in Call \ {c} /\ num[owner[n]] = n
    OBVIOUS
  <2> QED BY <2>1 DEF Injection, IsInjective
<1>2. IsFiniteSet(Call \ {c}) /\ Cardinality(Call \ {c}) = Cardinality(Call) - 1
  BY FS_RemoveElement, RememberAssumption
<1>3. Cardinality(1 .. K) <= Cardinality(Call \ {c})
  BY <1>1, <1>2, FS_Injection
<1>4. Cardinality(1 .. K) = K
  BY FS_Interval
<1>5. Cardinality(Call) \in Nat
  BY FS_CardinalityType, RememberAssumption
<1> QED BY <1>2, <1>3, <1>4, <1>5, RememberAssumption

LEMMA MaxOfSegment ==
    ASSUME NEW K \in Nat
    PROVE  Max(1 .. K \cup {0}) = K
<1> DEFINE S == 1 .. K \cup {0}
<1>1. K \in S /\ \A y \in S : K >= y
  OBVIOUS
<1>2. \A x \in S : (\A y \in S : x >= y) => x = K
  BY <1>1
<1> QED BY <1>1, <1>2 DEF Max

\* An absent file, an empty one and an absent row are no notes.
LEMMA NoNotes ==
    /\ NoFile \notin Note /\ EmptyFile \notin Note /\ NoNote \notin Note
    /\ NoFile # EmptyFile
<1>1. \A m \in Note : DOMAIN m = NoteField
  BY RememberAssumption
<1>2. DOMAIN NoFile = {"kind"} /\ DOMAIN EmptyFile = {"kind"} /\ DOMAIN NoNote = {"kind"}
  BY DEF NoFile, EmptyFile, NoNote
<1>3. "kind" \notin NoteField
  BY DEF NoteField
<1>4. NoFile # EmptyFile
  BY DEF NoFile, EmptyFile
<1> QED BY <1>1, <1>2, <1>3, <1>4

\* The number a call looks up, and the one it then creates its file under.
LEMMA NextIsFree ==
    ASSUME Core, NEW c \in Call, ~HasNumber(c)
    PROVE  /\ NextNumber \in Number
           /\ \A k \in Number : k < NextNumber <=> k \in used
<1>1. PICK K \in 0 .. MaxNumber : used = 1 .. K
  BY DEF Core, Numbering
<1>2. MaxNumber \in Nat
  BY RememberAssumption
<1>3. {n \in Number : files[n] # NoFile} \cup HasDoc = used
  <2>1. used \subseteq Number /\ docs \in [Number -> Note \cup {NoNote}]
    BY DEF Core, TypeOK
  <2>2. \A n \in Number : n \in HasDoc <=> docs[n] # NoNote
    BY <2>1, NoNotes DEF HasDoc
  <2> QED BY <2>1, <2>2 DEF Core, Numbering, HasDoc
<1>4. NextNumber = K + 1
  BY <1>1, <1>2, <1>3, MaxOfSegment DEF NextNumber
<1>5. K < MaxNumber
  <2> DEFINE num == [d \in Call |-> call[d].num]
  <2>1. num[c] = 0
    BY RememberAssumption DEF Core, TypeOK, HasNumber
  <2>2. \A n \in 1 .. K : \E d \in Call : num[d] = n
    BY <1>1 DEF Core, Numbering
  <2>3. K \in Nat
    BY <1>2
  <2> HIDE DEF num
  <2> QED BY <2>1, <2>2, <2>3, NumberLeft
<1> QED BY <1>1, <1>2, <1>4, <1>5 DEF Number

LEMMA FreeIsNext ==
    ASSUME Core, NEW c \in Call, call[c].pc = "create"
    PROVE  /\ FirstFree(call[c].next) \in Number
           /\ \A k \in Number : k < FirstFree(call[c].next) <=> k \in used
<1>1. ~HasNumber(c)
  BY DEF Core, Calls, Progress
<1>2. PICK K \in 0 .. MaxNumber : used = 1 .. K
  BY DEF Core, Numbering
<1> DEFINE free == {k \in Number : k >= call[c].next /\ files[k] = NoFile}
<1>3. call[c].next \in Number
  BY DEF Core, TypeOK, Numbering, Number
<1>4. K + 1 \in Number
  BY <1>1, <1>2, NextIsFree, RememberAssumption DEF Number
<1>5. K + 1 \in free /\ \A k \in free : K + 1 <= k
  BY <1>2, <1>3, <1>4, RememberAssumption DEF Core, Numbering, Number
<1>6. \A x \in free : (\A y \in free : x <= y) => x = K + 1
  BY <1>4, <1>5, RememberAssumption DEF Number
<1>7. FirstFree(call[c].next) = K + 1
  BY <1>5, <1>6 DEF FirstFree, Min
<1> QED BY <1>2, <1>4, <1>7, RememberAssumption DEF Number
-----------------------------------------------------------------------------
(* What every step but an arrival leaves alone.                            *)

SameText(d) ==
    /\ call'[d].note = call[d].note /\ call'[d].owner = call[d].owner
    /\ call'[d].seen = call[d].seen /\ call'[d].branch = call[d].branch
    /\ call'[d].outcome = call[d].outcome /\ call'[d].targets = call[d].targets

\* A call keeps its number, or takes one above all that were used.
Frame ==
    /\ \A d \in Call :
          /\ SameText(d)
          /\ call[d].pc = "answered" => call'[d].pc = "answered"
          /\ \/ call'[d].num = call[d].num
             \/ /\ ~HasNumber(d) /\ call'[d].num \notin used
                /\ \A k \in used : k < call'[d].num
    /\ used \subseteq used' /\ gone \subseteq gone'
    /\ \A n \in Number :
          \/ files'[n] = files[n]
          \/ files[n] = NoFile /\ files'[n] = EmptyFile /\ \A k \in used : k < n
          \/ files[n] = EmptyFile /\ files'[n] \in Note
          \/ files[n] \in Note /\ files'[n] = NoFile /\ files[n] \in gone'

LEMMA TypedCalls == TypeOK => call \in [Call -> CallType]
BY DEF TypeOK, CallType

\* A call's record with another pc, and with another next or num.
LEMMA Retyped ==
    ASSUME NEW r \in CallType, NEW k \in 0 .. MaxNumber, NEW n \in 0 .. MaxNumber,
           NEW l \in SUBSET Number,
           NEW pc \in {"idle", "look", "create", "write", "ingest", "graph", "link",
                       "answered", "failed"}
    PROVE  /\ [r EXCEPT !.pc = pc] \in CallType
           /\ [r EXCEPT !.pc = pc, !.next = k] \in CallType
           /\ [r EXCEPT !.pc = pc, !.linked = l] \in CallType
           /\ [r EXCEPT !.pc = pc, !.next = k, !.num = n] \in CallType
<1>1. [r EXCEPT !.pc = pc] \in CallType
  BY DEF CallType, Ended
<1>2. [r EXCEPT !.pc = pc, !.next = k] \in CallType
  BY <1>1 DEF CallType, Ended
<1>3. [r EXCEPT !.pc = pc, !.linked = l] \in CallType
  BY <1>1 DEF CallType, Ended
<1>4. [r EXCEPT !.pc = pc, !.next = k, !.num = n] \in CallType
  BY <1>2 DEF CallType, Ended
<1> QED BY <1>1, <1>2, <1>3, <1>4

LEMMA LookStep ==
    ASSUME Core, NEW c \in Call, Look(c)
    PROVE  Core' /\ Frame
<1> USE DEF Look
<1>1. call \in [Call -> CallType]
  BY TypedCalls DEF Core
<1>2. NextNumber \in Number /\ \A k \in Number : k < NextNumber <=> k \in used
  BY NextIsFree DEF Core, Calls, Progress
<1> HIDE DEF NextNumber
<1>3. /\ call'[c] = [call[c] EXCEPT !.pc = "create", !.next = NextNumber]
      /\ \A d \in Call : d # c => call'[d] = call[d]
  BY <1>1
<1>4. call' \in [Call -> CallType]
  <2>1. NextNumber \in 0 .. MaxNumber
    BY <1>2, RememberAssumption DEF Number
  <2>2. [call[c] EXCEPT !.pc = "create", !.next = NextNumber] \in CallType
    BY <1>1, <2>1, Retyped
  <2> QED BY <1>1, <2>2
<1>5. TypeOK'
  BY <1>3, <1>4 DEF Core, TypeOK, CallType, HasNumber
<1>6. Numbering'
  BY <1>1, <1>2, <1>3 DEF Core, TypeOK, Numbering, HasNumber, CallType, Number
<1>7. Calls'
  BY <1>1, <1>3 DEF Core, Calls, Progress, Stored, Sent, Stores_, HasNumber, CallType, Ended
<1>8. Frame
  BY <1>1, <1>3 DEF Frame, SameText, CallType, HasNumber
<1> QED BY <1>5, <1>6, <1>7, <1>8 DEF Core

LEMMA CreateStep ==
    ASSUME Core, NEW c \in Call, Create(c)
    PROVE  Core' /\ Frame
<1> DEFINE n == FirstFree(call[c].next)
<1>1. call \in [Call -> CallType]
  BY TypedCalls DEF Core
<1>2. n \in Number /\ \A k \in Number : k < n <=> k \in used
  BY FreeIsNext DEF Create
<1>3. /\ call[c].pc = "create"
      /\ files' = [files EXCEPT ![n] = EmptyFile]
      /\ call' = [call EXCEPT ![c] = [@ EXCEPT !.pc = "write", !.next = 0, !.num = n]]
      /\ used' = used \cup {n}
      /\ UNCHANGED <<docs, graph, edges, locked, faults, gone>>
  BY DEF Create
<1> HIDE DEF n
<1>4. /\ call'[c] = [call[c] EXCEPT !.pc = "write", !.next = 0, !.num = n]
      /\ \A d \in Call : d # c => call'[d] = call[d]
  BY <1>1, <1>3
<1>5. call' \in [Call -> CallType]
  <2>1. 0 \in 0 .. MaxNumber /\ n \in 0 .. MaxNumber
    BY <1>2, RememberAssumption DEF Number
  <2>2. [call[c] EXCEPT !.pc = "write", !.next = 0, !.num = n] \in CallType
    BY <1>1, <2>1, Retyped
  <2> QED BY <1>1, <1>3, <2>2
<1>6. ~HasNumber(c) /\ n \notin used /\ files[n] = NoFile /\ docs[n] = NoNote
      /\ \A k \in used : k < n
  BY <1>2, <1>3 DEF Core, Calls, Progress, Numbering, TypeOK, Number
<1>7. TypeOK'
  <2>1. files' \in [Number -> Note \cup {NoFile, EmptyFile}] /\ used' \subseteq Number
    BY <1>2, <1>3 DEF Core, TypeOK
  <2>2. locked' <=> \E d \in Engine : call'[d].pc = "graph"
    BY <1>1, <1>3, <1>4 DEF Core, TypeOK, Call, CallType
  <2>3. \A d, e \in Engine : call'[d].pc = "graph" /\ call'[e].pc = "graph" => d = e
    BY <1>1, <1>3, <1>4 DEF Core, TypeOK, Call, CallType
  <2>4. \A d, e \in Call : call'[d].num > 0 /\ call'[d].num = call'[e].num => d = e
    BY <1>1, <1>2, <1>3, <1>4, <1>6 DEF Core, TypeOK, CallType, HasNumber, Numbering
  <2> QED BY <1>3, <1>5, <2>1, <2>2, <2>3, <2>4 DEF Core, TypeOK, CallType, HasNumber
<1>8. Numbering'
  <2>1. \E k \in 0 .. MaxNumber : used' = 1 .. k
    <3>1. used' = 1 .. n
      <4>1. used \subseteq Number /\ n \in Number /\ used' = used \cup {n}
        BY <1>2, <1>3 DEF Core, TypeOK
      <4>2. \A k \in 1 .. n : k \in Number
        BY <4>1, RememberAssumption DEF Number
      <4>3. \A k \in used' : k \in 1 .. n
        BY <1>2, <4>1, RememberAssumption DEF Number
      <4>4. \A k \in 1 .. n : k \in used'
        BY <1>2, <4>1, <4>2, RememberAssumption DEF Number
      <4> QED BY <4>3, <4>4
    <3> QED BY <1>2, <3>1, RememberAssumption DEF Number
  <2>2. \A k \in Number : k \in used' <=> (files'[k] # NoFile \/ docs'[k] # NoNote)
    BY <1>2, <1>3, NoNotes DEF Core, TypeOK, Numbering
  <2>3. \A k \in used' : \E d \in Call : call'[d].num = k
    BY <1>1, <1>2, <1>3, <1>4, <1>6 DEF Core, Numbering, HasNumber, CallType, TypeOK
  <2>4. \A d \in Call : HasNumber(d)' => call'[d].num \in used'
    BY <1>1, <1>2, <1>3, <1>4, <1>6 DEF Core, Numbering, HasNumber, CallType
  <2>5. ASSUME NEW d \in Call, call'[d].pc = "create"
        PROVE  /\ call'[d].next > 0
               /\ \A k \in Number : k < call'[d].next => k \in used'
               /\ \A k \in used' : k >= call'[d].next => files'[k] # NoFile
    BY <1>1, <1>2, <1>3, <1>4, <1>6, <2>5, NoNotes DEF Core, Numbering, CallType, TypeOK
  <2> QED BY <2>1, <2>2, <2>3, <2>4, <2>5 DEF Numbering
<1>9. Calls'
  <2> SUFFICES ASSUME NEW d \in Call PROVE Progress(d)' /\ Stored(d)'
    BY DEF Calls
  <2>1. CASE d = c
    BY <1>1, <1>2, <1>3, <1>4, <1>6, <2>1
    DEF Core, TypeOK, Calls, Progress, Stored, Sent, Stores_, HasNumber, CallType, Ended, Number
  <2>2. CASE d # c
    BY <1>1, <1>2, <1>3, <1>4, <1>6, <2>2
    DEF Core, TypeOK, Numbering, Calls, Progress, Stored, Sent, Stores_, HasNumber, CallType
  <2> QED BY <2>1, <2>2
<1>10. Frame
  BY <1>1, <1>3, <1>4, <1>6 DEF Frame, SameText, CallType, HasNumber
<1> QED BY <1>7, <1>8, <1>9, <1>10 DEF Core

\* A step of call c that changes its pc and what it has linked, and stores its note
\* under its number, if anything.
LEMMA MoveStep ==
    ASSUME Core, NEW c \in Call, HasNumber(c),
           call' \in [Call -> CallType], \A d \in Call : d # c => call'[d] = call[d],
           SameText(c), call'[c].num = call[c].num,
           call'[c].pc \in {"ingest", "graph", "link", "answered", "failed"},
           call[c].pc \in {"write", "ingest", "graph", "link"},
           files' = files \/ (/\ call'[c].pc = "ingest" /\ call[c].pc = "write"
                              /\ files' = [files EXCEPT ![call[c].num] = call[c].note]),
           docs' \in [Number -> Note \cup {NoNote}],
           \A n \in Number : docs'[n] = docs[n] \/ (n = call[c].num /\ docs'[n] = call[c].note),
           graph' = graph \/ graph' = graph \cup {call[c].num},
           edges \subseteq edges', edges' \subseteq Number \X Number,
           faults' \in 0 .. MaxFault, locked' \in BOOLEAN,
           locked' <=> \E d \in Engine : call'[d].pc = "graph",
           \A d, e \in Engine : call'[d].pc = "graph" /\ call'[e].pc = "graph" => d = e,
           call'[c].pc = "graph" => c \in Engine,
           call'[c].pc \notin {"failed", "ingest"} => files[call[c].num] # EmptyFile
                                          /\ docs'[call[c].num] = call[c].note,
           call'[c].pc = "ingest" => files' = [files EXCEPT ![call[c].num] = call[c].note],
           call'[c].pc \in {"link", "answered"} => call[c].num \in graph',
           call'[c].pc = "answered" => {call[c].num} \X call'[c].linked \subseteq edges',
           UNCHANGED <<gone, used>>
    PROVE  Core' /\ Frame
<1>1. call \in [Call -> CallType] /\ call[c].num \in Number /\ call[c].note \in Note
  BY TypedCalls, RememberAssumption DEF Core, CallType, HasNumber, Number, Calls, Progress, Sent
<1>2. \A d \in Call : d # c => call'[d] = call[d]
  OBVIOUS
<1>3. call'[c].note = call[c].note /\ call'[c].outcome = call[c].outcome
      /\ call'[c].branch = call[c].branch
  BY DEF SameText
<1>4. \A d \in Call : HasNumber(d) /\ call[d].num = call[c].num => d = c
  BY DEF Core, TypeOK
<1>5. call[c].num \in used
  BY DEF Core, Numbering
<1>10. \A n \in Number : \/ files'[n] = files[n]
                           \/ /\ n = call[c].num /\ files[n] = EmptyFile
                              /\ files'[n] = call[c].note
  BY <1>1 DEF Core, TypeOK, Calls, Stored
<1>6. TypeOK'
  <2>1. files' \in [Number -> Note \cup {NoFile, EmptyFile}] /\ used' \subseteq Number
        /\ docs' \in [Number -> Note \cup {NoNote}] /\ graph' \subseteq Number
        /\ edges' \subseteq Number \X Number /\ gone' \subseteq Note
    BY <1>1 DEF Core, TypeOK
  <2>2. \A d, e \in Call : call'[d].num > 0 /\ call'[d].num = call'[e].num => d = e
    BY <1>1, <1>2, <1>4 DEF Core, TypeOK, CallType, HasNumber
  <2> QED BY <2>1, <2>2 DEF Core, TypeOK, CallType, HasNumber
<1>7. Numbering'
  <2>1. \A k \in Number : k \in used' <=> (files'[k] # NoFile \/ docs'[k] # NoNote)
    <3> SUFFICES ASSUME NEW k \in Number
                 PROVE  k \in used <=> (files'[k] # NoFile \/ docs'[k] # NoNote)
      OBVIOUS
    <3>0. k \in used <=> (files[k] # NoFile \/ docs[k] # NoNote)
      BY DEF Core, Numbering
    <3>1. CASE k = call[c].num
      <4>1. \/ files'[k] = files[k]
            \/ files[k] = EmptyFile /\ files'[k] = call[c].note
        BY <1>10
      <4>2. docs'[k] = docs[k] \/ docs'[k] = call[c].note
        OBVIOUS
      <4> QED BY <1>1, <1>5, <3>0, <3>1, <4>1, <4>2, NoNotes
    <3>2. CASE k # call[c].num
      BY <1>10, <3>0, <3>2
    <3> QED BY <3>1, <3>2
  <2>2. \A k \in used' : \E d \in Call : call'[d].num = k
    <3>1. \A d \in Call : call'[d].num = call[d].num
      BY <1>2
    <3> QED BY <3>1 DEF Core, Numbering
  <2>3. \A d \in Call : HasNumber(d)' => call'[d].num \in used'
    BY <1>1, <1>2 DEF Core, Numbering, HasNumber, CallType
  <2>4. ASSUME NEW d \in Call, call'[d].pc = "create"
        PROVE  /\ call'[d].next > 0
               /\ \A k \in Number : k < call'[d].next => k \in used'
               /\ \A k \in used' : k >= call'[d].next => files'[k] # NoFile
    <3>1. d # c /\ call'[d] = call[d]
      BY <1>2, <2>4
    <3>2. \A k \in used : files'[k] = NoFile => files[k] = NoFile
      BY <1>1, <1>10, NoNotes DEF Core, TypeOK
    <3> QED BY <2>4, <3>1, <3>2 DEF Core, Numbering
  <2> QED BY <2>1, <2>2, <2>3, <2>4 DEF Core, Numbering
<1>8. Calls'
  <2> SUFFICES ASSUME NEW d \in Call PROVE Progress(d)' /\ Stored(d)'
    BY DEF Calls
  <2>1. CASE d = c
    <3>1. Progress(c)'
      BY <1>1, <1>2, <1>3 DEF Core, Calls, Progress, Sent, Stores_, HasNumber, CallType, Ended
    <3>2. Stored(c)'
      BY <1>1, <1>2, <1>3, NoNotes DEF Core, TypeOK, Calls, Stored, HasNumber, CallType
    <3> QED BY <2>1, <3>1, <3>2
  <2>2. CASE d # c
    <3>1. Progress(d)'
      BY <1>1, <1>2, <2>2 DEF Core, Calls, Progress, Sent, Stores_, HasNumber
    <3>2. Stored(d)'
      <4> SUFFICES ASSUME HasNumber(d) PROVE Stored(d)'
        BY <2>2 DEF Stored, HasNumber
      <4>1. call[d].num \in Number /\ call[d].num # call[c].num
        BY <1>1, <1>4, <2>2, RememberAssumption DEF HasNumber, CallType, Number
      <4>2. files'[call[d].num] = files[call[d].num] /\ docs'[call[d].num] = docs[call[d].num]
        BY <1>1, <4>1 DEF Core, TypeOK
      <4> QED BY <2>2, <4>1, <4>2 DEF Core, Calls, Stored, HasNumber
    <3> QED BY <3>1, <3>2
  <2> QED BY <2>1, <2>2
<1>9. Frame
  BY <1>1, <1>2 DEF Core, Calls, Stored, TypeOK, Frame, SameText, CallType, HasNumber
<1> QED BY <1>6, <1>7, <1>8, <1>9 DEF Core

\* The record of c after a step that sets its pc, and what it has linked.
LEMMA MovedCall ==
    ASSUME TypeOK, NEW c \in Call, NEW l \in SUBSET Number,
           NEW pc \in {"idle", "look", "create", "write", "ingest", "graph", "link",
                       "answered", "failed"},
           \/ call' = [call EXCEPT ![c].pc = pc] /\ l = call[c].linked
           \/ call' = [call EXCEPT ![c] = [@ EXCEPT !.pc = pc, !.linked = l]]
    PROVE  /\ call' \in [Call -> CallType] /\ \A d \in Call : d # c => call'[d] = call[d]
           /\ SameText(c) /\ call'[c].num = call[c].num /\ call'[c].pc = pc
           /\ call'[c].linked = l
<1>1. call \in [Call -> CallType]
  BY TypedCalls
<1>2. [call[c] EXCEPT !.pc = pc] \in CallType
      /\ [call[c] EXCEPT !.pc = pc, !.linked = l] \in CallType
  <2>1. 0 \in 0 .. MaxNumber
    BY RememberAssumption
  <2> QED BY <1>1, <2>1, Retyped
<1>3. CASE call' = [call EXCEPT ![c].pc = pc] /\ l = call[c].linked
  <2>1. call'[c] = [call[c] EXCEPT !.pc = pc]
    BY <1>1, <1>3
  <2> QED BY <1>1, <1>2, <1>3, <2>1 DEF SameText, CallType
<1>4. CASE call' = [call EXCEPT ![c] = [@ EXCEPT !.pc = pc, !.linked = l]]
  <2>1. call'[c] = [call[c] EXCEPT !.pc = pc, !.linked = l]
    BY <1>1, <1>4
  <2> QED BY <1>1, <1>2, <1>4, <2>1 DEF SameText, CallType
<1> QED BY <1>3, <1>4

LEMMA WriteStep ==
    ASSUME Core, NEW c \in Call, Write(c)
    PROVE  Core' /\ Frame
<1>1. HasNumber(c) /\ call[c].pc = "write"
  BY DEF Core, Calls, Progress, Write
<1>2. /\ call' \in [Call -> CallType] /\ \A d \in Call : d # c => call'[d] = call[d]
      /\ SameText(c) /\ call'[c].num = call[c].num /\ call'[c].pc = "ingest"
  <2>1. call[c].linked \in SUBSET Number
    BY DEF Core, TypeOK
  <2> QED BY <2>1, MovedCall DEF Core, Write
<1>3. locked' <=> \E d \in Engine : call'[d].pc = "graph"
  BY <1>1, <1>2 DEF Core, TypeOK, Write, Call
<1>4. \A d, e \in Engine : call'[d].pc = "graph" /\ call'[e].pc = "graph" => d = e
  BY <1>1, <1>2 DEF Core, TypeOK, Write, Call
<1> QED BY <1>1, <1>2, <1>3, <1>4, MoveStep DEF Write, Core, TypeOK

LEMMA LinkedTyped ==
    ASSUME TypeOK, NEW c \in Call
    PROVE  Linked(c) \in SUBSET Number
BY DEF TypeOK, Linked

\* An answer, or none.
LEMMA AnswersStep ==
    ASSUME Core, NEW c \in Call, NEW l \in SUBSET Number, Answers(c, l)
    PROVE  /\ call' \in [Call -> CallType] /\ \A d \in Call : d # c => call'[d] = call[d]
           /\ SameText(c) /\ call'[c].num = call[c].num
           /\ call'[c].pc \in {"answered", "failed"} /\ call'[c].linked = l
           /\ faults' \in 0 .. MaxFault
<1>1. CASE call' = [call EXCEPT ![c] = [@ EXCEPT !.pc = "answered", !.linked = l]]
           /\ UNCHANGED faults
  BY <1>1, MovedCall DEF Core, TypeOK
<1>2. CASE call' = [call EXCEPT ![c] = [@ EXCEPT !.pc = "failed", !.linked = l]]
           /\ Fault("lost_ack")
  <2>1. faults' \in 0 .. MaxFault
    BY <1>2, RememberAssumption DEF Core, TypeOK, Fault
  <2> QED BY <1>2, <2>1, MovedCall DEF Core
<1> QED BY <1>1, <1>2 DEF Answers

LEMMA CommitDoorStep ==
    ASSUME Core, NEW c \in Call, CommitDoor(c)
    PROVE  Core' /\ Frame
<1>1. HasNumber(c) /\ call[c].pc = "ingest" /\ call[c].num \in Number /\ c \notin Engine
      /\ files[call[c].num] # EmptyFile
  BY RememberAssumption DEF Core, Calls, Progress, Stored, CommitDoor, TypeOK, HasNumber, Number
<1>2. /\ call' \in [Call -> CallType] /\ \A d \in Call : d # c => call'[d] = call[d]
      /\ SameText(c) /\ call'[c].num = call[c].num
      /\ call'[c].pc \in {"answered", "failed"} /\ call'[c].linked = Linked(c)
      /\ faults' \in 0 .. MaxFault
  BY LinkedTyped, AnswersStep DEF CommitDoor, Core
<1>3. locked' <=> \E d \in Engine : call'[d].pc = "graph"
  BY <1>1, <1>2 DEF Core, TypeOK, CommitDoor, Call
<1>4. \A d, e \in Engine : call'[d].pc = "graph" /\ call'[e].pc = "graph" => d = e
  BY <1>1, <1>2 DEF Core, TypeOK, Call
<1>5. /\ docs' = [docs EXCEPT ![call[c].num] = call[c].note]
      /\ graph' = graph \cup {call[c].num}
      /\ edges' = edges \cup {call[c].num} \X Linked(c)
      /\ UNCHANGED <<files, locked, gone, used>>
  BY DEF CommitDoor, Stores
<1>6. edges \subseteq edges' /\ edges' \subseteq Number \X Number
      /\ {call[c].num} \X call'[c].linked \subseteq edges'
  BY <1>1, <1>2, <1>5, LinkedTyped DEF Core, TypeOK
<1>7. docs'[call[c].num] = call[c].note /\ call[c].num \in graph' /\ locked' \in BOOLEAN
  BY <1>1, <1>5 DEF Core, TypeOK
<1>8. /\ files' = files
      /\ docs' \in [Number -> Note \cup {NoNote}]
      /\ \A n \in Number : docs'[n] = docs[n] \/ (n = call[c].num /\ docs'[n] = call[c].note)
      /\ graph' = graph \/ graph' = graph \cup {call[c].num}
      /\ UNCHANGED <<gone, used>>
  BY <1>1, <1>5 DEF Core, TypeOK, Calls, Progress, Sent
<1> QED BY <1>1, <1>2, <1>3, <1>4, <1>6, <1>7, <1>8, MoveStep

LEMMA CommitDoorHalfStep ==
    ASSUME Core, NEW c \in Call, CommitDoorHalf(c)
    PROVE  Core' /\ Frame
<1>1. HasNumber(c) /\ call[c].pc = "ingest" /\ c \notin Engine
  BY RememberAssumption DEF Core, Calls, Progress, CommitDoorHalf
<1>2. /\ call' \in [Call -> CallType] /\ \A d \in Call : d # c => call'[d] = call[d]
      /\ SameText(c) /\ call'[c].num = call[c].num /\ call'[c].pc = "failed"
  <2>1. call[c].linked \in SUBSET Number
    BY DEF Core, TypeOK
  <2> QED BY <2>1, MovedCall DEF Core, CommitDoorHalf
<1>3. locked' <=> \E d \in Engine : call'[d].pc = "graph"
  BY <1>1, <1>2 DEF Core, TypeOK, CommitDoorHalf, Call
<1>4. \A d, e \in Engine : call'[d].pc = "graph" /\ call'[e].pc = "graph" => d = e
  BY <1>1, <1>2 DEF Core, TypeOK, Call
<1>5. /\ docs' = [docs EXCEPT ![call[c].num] = call[c].note]
      /\ UNCHANGED <<files, graph, edges, locked, gone, used>>
      /\ faults' \in 0 .. MaxFault
  BY RememberAssumption DEF CommitDoorHalf, Fault, Core, TypeOK
<1>6. edges \subseteq edges' /\ edges' \subseteq Number \X Number /\ locked' \in BOOLEAN
  BY <1>5 DEF Core, TypeOK
<1>7. /\ files' = files
      /\ docs' \in [Number -> Note \cup {NoNote}]
      /\ \A n \in Number : docs'[n] = docs[n] \/ (n = call[c].num /\ docs'[n] = call[c].note)
      /\ graph' = graph \/ graph' = graph \cup {call[c].num}
      /\ UNCHANGED <<gone, used>> /\ faults' \in 0 .. MaxFault
  BY <1>1, <1>5 DEF Core, TypeOK, Calls, Progress, Sent
<1> QED BY <1>1, <1>2, <1>3, <1>4, <1>6, <1>7, MoveStep

LEMMA IngestDocumentStep ==
    ASSUME Core, NEW c \in Call, IngestDocument(c)
    PROVE  Core' /\ Frame
<1>1. HasNumber(c) /\ call[c].pc = "ingest" /\ call[c].num \in Number /\ c \in Engine
      /\ files[call[c].num] # EmptyFile /\ ~locked
  BY RememberAssumption
  DEF Core, Calls, Progress, Stored, IngestDocument, TypeOK, HasNumber, Number
<1>2. /\ call' \in [Call -> CallType] /\ \A d \in Call : d # c => call'[d] = call[d]
      /\ SameText(c) /\ call'[c].num = call[c].num /\ call'[c].pc = "graph"
  <2>1. call[c].linked \in SUBSET Number
    BY DEF Core, TypeOK
  <2> QED BY <2>1, MovedCall DEF Core, IngestDocument
<1>3. /\ docs' = [docs EXCEPT ![call[c].num] = call[c].note] /\ locked' = TRUE
      /\ UNCHANGED <<files, graph, edges, faults, gone, used>>
  BY DEF IngestDocument
<1>4. locked' <=> \E d \in Engine : call'[d].pc = "graph"
  BY <1>1, <1>2, <1>3
<1>5. \A d, e \in Engine : call'[d].pc = "graph" /\ call'[e].pc = "graph" => d = e
  BY <1>1, <1>2 DEF Core, TypeOK, Call
<1>6. /\ edges \subseteq edges' /\ edges' \subseteq Number \X Number
      /\ faults' \in 0 .. MaxFault /\ locked' \in BOOLEAN
  BY <1>3 DEF Core, TypeOK
<1>7. docs'[call[c].num] = call[c].note
  BY <1>1, <1>3 DEF Core, TypeOK
<1>8. /\ files' = files
      /\ docs' \in [Number -> Note \cup {NoNote}]
      /\ \A n \in Number : docs'[n] = docs[n] \/ (n = call[c].num /\ docs'[n] = call[c].note)
      /\ graph' = graph \/ graph' = graph \cup {call[c].num}
      /\ UNCHANGED <<gone, used>>
  BY <1>1, <1>3 DEF Core, TypeOK, Calls, Progress, Sent
<1> QED BY <1>1, <1>2, <1>4, <1>5, <1>6, <1>7, <1>8, MoveStep

LEMMA IngestGraphStep ==
    ASSUME Core, NEW c \in Call, IngestGraph(c)
    PROVE  Core' /\ Frame
<1>1. HasNumber(c) /\ call[c].pc = "graph" /\ call[c].num \in Number /\ c \in Engine
      /\ files[call[c].num] # EmptyFile /\ docs[call[c].num] = call[c].note
  BY RememberAssumption
  DEF Core, Calls, Progress, Stored, IngestGraph, TypeOK, HasNumber, Number
<1>2. /\ call' \in [Call -> CallType] /\ \A d \in Call : d # c => call'[d] = call[d]
      /\ SameText(c) /\ call'[c].num = call[c].num /\ call'[c].pc = "link"
  <2>1. call[c].linked \in SUBSET Number
    BY DEF Core, TypeOK
  <2> QED BY <2>1, MovedCall DEF Core, IngestGraph
<1>3. /\ graph' = graph \cup {call[c].num} /\ locked' = FALSE
      /\ UNCHANGED <<files, docs, edges, faults, gone, used>>
  BY DEF IngestGraph
<1>4. \A d \in Engine : call'[d].pc # "graph"
  BY <1>1, <1>2 DEF Core, TypeOK, Call
<1>5. locked' <=> \E d \in Engine : call'[d].pc = "graph"
  BY <1>3, <1>4
<1>6. \A d, e \in Engine : call'[d].pc = "graph" /\ call'[e].pc = "graph" => d = e
  BY <1>4
<1>7. /\ edges \subseteq edges' /\ edges' \subseteq Number \X Number
      /\ faults' \in 0 .. MaxFault /\ locked' \in BOOLEAN
  BY <1>3 DEF Core, TypeOK
<1>8. docs'[call[c].num] = call[c].note /\ call[c].num \in graph'
  BY <1>1, <1>3
<1>9. /\ files' = files
      /\ docs' \in [Number -> Note \cup {NoNote}]
      /\ \A n \in Number : docs'[n] = docs[n] \/ (n = call[c].num /\ docs'[n] = call[c].note)
      /\ graph' = graph \/ graph' = graph \cup {call[c].num}
      /\ UNCHANGED <<gone, used>>
  BY <1>1, <1>3 DEF Core, TypeOK
<1> QED BY <1>1, <1>2, <1>5, <1>6, <1>7, <1>8, <1>9, MoveStep

LEMMA LinkStep ==
    ASSUME Core, NEW c \in Call, Link(c)
    PROVE  Core' /\ Frame
<1>1. HasNumber(c) /\ call[c].pc = "link" /\ call[c].num \in Number
      /\ files[call[c].num] # EmptyFile /\ docs[call[c].num] = call[c].note
      /\ call[c].num \in graph
  BY RememberAssumption
  DEF Core, Calls, Progress, Stored, Link, TypeOK, HasNumber, Number
<1>2. /\ call' \in [Call -> CallType] /\ \A d \in Call : d # c => call'[d] = call[d]
      /\ SameText(c) /\ call'[c].num = call[c].num
      /\ call'[c].pc \in {"answered", "failed"} /\ call'[c].linked = Linked(c)
      /\ faults' \in 0 .. MaxFault
  BY LinkedTyped, AnswersStep DEF Link, Core
<1>3. /\ edges' = edges \cup {call[c].num} \X Linked(c)
      /\ UNCHANGED <<files, docs, graph, locked, gone, used>>
  BY DEF Link
<1>4. locked' <=> \E d \in Engine : call'[d].pc = "graph"
  BY <1>1, <1>2, <1>3 DEF Core, TypeOK, Call
<1>5. \A d, e \in Engine : call'[d].pc = "graph" /\ call'[e].pc = "graph" => d = e
  BY <1>1, <1>2 DEF Core, TypeOK, Call
<1>6. edges \subseteq edges' /\ edges' \subseteq Number \X Number
      /\ {call[c].num} \X call'[c].linked \subseteq edges'
  BY <1>1, <1>2, <1>3, LinkedTyped DEF Core, TypeOK
<1>7. docs'[call[c].num] = call[c].note /\ call[c].num \in graph' /\ locked' \in BOOLEAN
  BY <1>1, <1>3 DEF Core, TypeOK
<1>8. /\ files' = files
      /\ docs' \in [Number -> Note \cup {NoNote}]
      /\ \A n \in Number : docs'[n] = docs[n] \/ (n = call[c].num /\ docs'[n] = call[c].note)
      /\ graph' = graph \/ graph' = graph \cup {call[c].num}
      /\ UNCHANGED <<gone, used>>
  BY <1>1, <1>3 DEF Core, TypeOK
<1> QED BY <1>1, <1>2, <1>4, <1>5, <1>6, <1>7, <1>8, MoveStep

-----------------------------------------------------------------------------
(* Failures, the sync and the removal of a file.                           *)

\* Some calls end in a failure.
LEMMA FailingStep ==
    ASSUME Core, NEW S \in SUBSET Active,
           call' = [d \in Call |-> IF d \in S THEN [call[d] EXCEPT !.pc = "failed"] ELSE call[d]],
           faults' \in 0 .. MaxFault, locked' \in BOOLEAN,
           locked' <=> \E d \in Engine : call'[d].pc = "graph",
           UNCHANGED <<files, docs, graph, edges, gone, used>>
    PROVE  Core' /\ Frame
<1>1. call \in [Call -> CallType] /\ S \subseteq Call
  BY TypedCalls DEF Core, Active
<1>2. \A d \in Call : [call[d] EXCEPT !.pc = "failed"] \in CallType
  <2>1. 0 \in 0 .. MaxNumber /\ {} \in SUBSET Number
    BY RememberAssumption
  <2> QED BY <1>1, <2>1, Retyped
<1>3. call' \in [Call -> CallType]
  BY <1>1, <1>2
<1>4. \A d \in Call : /\ SameText(d) /\ call'[d].num = call[d].num /\ call'[d].linked = call[d].linked
                      /\ call'[d].pc = IF d \in S THEN "failed" ELSE call[d].pc
                      /\ call'[d].next = call[d].next
  BY <1>1 DEF CallType, SameText
<1>5. \A d \in S : call[d].pc \notin {"idle"} \cup Ended
  BY DEF Active
<1>6. TypeOK'
  <2>1. \A d, e \in Engine : call'[d].pc = "graph" /\ call'[e].pc = "graph" => d = e
    BY <1>4 DEF Core, TypeOK, Call
  <2>2. \A d, e \in Call : call'[d].num > 0 /\ call'[d].num = call'[e].num => d = e
    BY <1>4 DEF Core, TypeOK, HasNumber
  <2> QED BY <1>3, <2>1, <2>2 DEF Core, TypeOK, CallType, HasNumber
<1>7. Numbering'
  BY <1>4 DEF Core, Numbering, HasNumber
<1>8. Calls'
  BY <1>4, <1>5 DEF Core, Calls, Progress, Stored, Sent, Stores_, HasNumber, SameText, Ended
<1>9. Frame
  BY <1>4, <1>5 DEF Frame, Ended
<1> QED BY <1>6, <1>7, <1>8, <1>9 DEF Core

LEMMA FailStep ==
    ASSUME Core, NEW c \in Call, Fail(c)
    PROVE  Core' /\ Frame
<1>1. call' = [d \in Call |-> IF d \in {c} THEN [call[d] EXCEPT !.pc = "failed"] ELSE call[d]]
  BY TypedCalls DEF Fail, Core
<1>2. {c} \in SUBSET Active /\ faults' \in 0 .. MaxFault
  BY RememberAssumption DEF Fail, Fault, Core, TypeOK
<1>3. locked' \in BOOLEAN /\ (locked' <=> \E d \in Engine : call'[d].pc = "graph")
  <2>1. \A d \in Call : call'[d].pc = IF d = c THEN "failed" ELSE call[d].pc
    BY <1>1, TypedCalls DEF Core, CallType
  <2>2. call[c].pc = "graph" => c \in Engine
    BY DEF Core, Calls, Progress
  <2>3. locked' = (locked /\ call[c].pc # "graph")
    BY DEF Fail
  <2> QED BY <2>1, <2>2, <2>3 DEF Core, TypeOK, Call
<1>4. UNCHANGED <<files, docs, graph, edges, gone, used>>
  BY DEF Fail
<1> QED BY <1>1, <1>2, <1>3, <1>4, FailingStep

LEMMA RestartStep ==
    ASSUME Core, NEW calls \in {Door, Engine}, Restart(calls)
    PROVE  Core' /\ Frame
<1> DEFINE S == calls \cap Active
<1>1. call' = [d \in Call |-> IF d \in S THEN [call[d] EXCEPT !.pc = "failed"] ELSE call[d]]
  BY DEF Restart
<1>2. S \in SUBSET Active /\ faults' \in 0 .. MaxFault
  BY RememberAssumption DEF Restart, Fault, Core, TypeOK
<1>3. \A d \in Call : call'[d].pc = IF d \in S THEN "failed" ELSE call[d].pc
  BY <1>1, TypedCalls DEF Core, CallType
<1>4. \A d \in Engine : call[d].pc = "graph" => d \in Active
  BY DEF Active, Ended, Call
<1>5. CASE calls = Engine
  BY <1>1, <1>2, <1>3, <1>4, <1>5, FailingStep DEF Restart, Call
<1>6. CASE calls = Door
  <2>1. (Engine \cap S = {} /\ calls # Engine) \/ S = {}
    BY <1>6, RememberAssumption
  <2> QED BY <1>1, <1>2, <1>3, <1>4, <1>6, <2>1, FailingStep DEF Restart, Core, TypeOK, Call
<1> QED BY <1>5, <1>6

LEMMA SyncStep ==
    ASSUME Core, NEW n \in Number, Sync(n)
    PROVE  Core' /\ Frame
<1>1. files[n] \in Note /\ docs' = [docs EXCEPT ![n] = files[n]] /\ graph' = graph \cup {n}
      /\ UNCHANGED <<files, edges, call, locked, faults, gone, used>>
  BY DEF Sync, Rebuild
<1>2. TypeOK'
  BY <1>1 DEF Core, TypeOK, HasNumber
<1>3. Numbering'
  <2>1. \A k \in Number : k \in used <=> (files[k] # NoFile \/ docs'[k] # NoNote)
    BY <1>1, NoNotes DEF Core, TypeOK, Numbering
  <2> QED BY <1>1, <2>1 DEF Core, Numbering, HasNumber
<1>4. Calls'
  <2> SUFFICES ASSUME NEW d \in Call PROVE Progress(d)' /\ Stored(d)'
    BY DEF Calls
  <2>1. Progress(d)'
    BY <1>1 DEF Core, Calls, Progress, Sent, Stores_, HasNumber
  <2>2. Stored(d)'
    <3>1. HasNumber(d) /\ call[d].num = n => files[n] = call[d].note
      BY <1>1, NoNotes DEF Core, Calls, Stored
    <3>2. call[d].num \in Number => docs'[call[d].num] \in {docs[call[d].num], files[n]}
                  /\ (call[d].num # n => docs'[call[d].num] = docs[call[d].num])
                  /\ (call[d].num = n => docs'[call[d].num] = files[n])
      BY <1>1 DEF Core, TypeOK
    <3>3. HasNumber(d) => call[d].num \in Number
      BY RememberAssumption DEF Core, TypeOK, HasNumber, Number
    <3> QED BY <1>1, <3>1, <3>2, <3>3 DEF Core, Calls, Stored, HasNumber
  <2> QED BY <2>1, <2>2
<1>5. Frame
  BY <1>1 DEF Frame, SameText
<1> QED BY <1>2, <1>3, <1>4, <1>5 DEF Core

LEMMA RemoveFileStep ==
    ASSUME Core, NEW n \in Number, RemoveFile(n)
    PROVE  Core' /\ Frame
<1>1. /\ files[n] \in Note /\ docs[n] = files[n] /\ Active = {}
      /\ files' = [files EXCEPT ![n] = NoFile] /\ gone' = gone \cup {files[n]}
      /\ UNCHANGED <<docs, graph, edges, call, locked, used>>
      /\ faults' \in 0 .. MaxFault
  BY RememberAssumption DEF RemoveFile, Fault, Core, TypeOK
<1>2. TypeOK'
  BY <1>1 DEF Core, TypeOK, HasNumber
<1>3. \A d \in Call : call[d].pc \in {"idle"} \cup Ended
  BY <1>1 DEF Active
<1>4. Numbering'
  <2>1. \A k \in Number : k \in used <=> (files'[k] # NoFile \/ docs[k] # NoNote)
    BY <1>1, NoNotes DEF Core, TypeOK, Numbering
  <2>2. \A d \in Call : call[d].pc # "create"
    BY <1>3 DEF Ended
  <2> QED BY <1>1, <2>1, <2>2 DEF Core, Numbering, HasNumber
<1>5. Calls'
  <2> SUFFICES ASSUME NEW d \in Call PROVE Progress(d)' /\ Stored(d)'
    BY DEF Calls
  <2>1. Progress(d)'
    BY <1>1 DEF Core, Calls, Progress, Sent, Stores_, HasNumber
  <2>2. Stored(d)'
    <3>1. HasNumber(d) /\ call[d].num = n => files[n] = call[d].note
      BY <1>1, NoNotes DEF Core, Calls, Stored
    <3>2. call[d].num \in Number => files'[call[d].num] =
              IF call[d].num = n THEN NoFile ELSE files[call[d].num]
      BY <1>1 DEF Core, TypeOK
    <3>3. HasNumber(d) => call[d].num \in Number
      BY RememberAssumption DEF Core, TypeOK, HasNumber, Number
    <3>4. call[d].pc # "write"
      BY <1>3 DEF Ended
    <3> QED BY <1>1, <3>1, <3>2, <3>3, <3>4, NoNotes DEF Core, Calls, Stored, HasNumber
  <2> QED BY <2>1, <2>2
<1>6. Frame
  BY <1>1 DEF Core, TypeOK, Frame, SameText
<1> QED BY <1>2, <1>4, <1>5, <1>6 DEF Core

-----------------------------------------------------------------------------
(* An arrival.                                                             *)

\* The record of a call that has just been decided.
Decision(m, owner, seen, pc, branch, outcome, targets) ==
    [pc |-> pc, note |-> m, owner |-> owner, seen |-> seen, branch |-> branch,
     outcome |-> outcome, targets |-> targets, next |-> 0, num |-> 0, linked |-> {}]

SeenBy(m) == IF m.session = NoSession THEN {} ELSE Written

\* Refused, stored without a match, or decided by the match f.
Arrived(c, m, owner, targets) ==
    \/ call'[c] = Decision(m, owner, SeenBy(m), "answered", "none", "refused", {})
    \/ /\ m.fix \/ Found(c, m) = {}
       /\ call'[c] = Decision(m, owner, SeenBy(m), "look", "none", "stored", targets)
    \/ /\ ~m.fix
       /\ \E f \in Found(c, m) :
             \/ /\ dedup_gate(m, owner, f) = "skipped"
                /\ call'[c] = Decision(m, owner, SeenBy(m), "answered", f.branch, "skipped", {})
             \/ /\ dedup_gate(m, owner, f) = "stored"
                /\ call'[c] = Decision(m, owner, SeenBy(m), "look", f.branch, "stored", {})
             \/ /\ dedup_gate(m, owner, f) = "superseded"
                /\ call'[c] = Decision(m, owner, SeenBy(m), "look", f.branch, "superseded", {f.num})

LEMMA FoundTyped ==
    ASSUME NEW c \in Call, NEW m \in Note, NEW f \in Found(c, m)
    PROVE  f.num \in Number
           /\ f.branch \in {"same_session", "probable_session", "exact_title", "embedding"}
<1>1. \A g \in Matches(c, m) : g.num \in Number
            /\ g.branch \in {"same_session", "probable_session", "exact_title"}
  BY DEF Matches, Written
<1>2. CASE Matches(c, m) # {}
  BY <1>1, <1>2 DEF Found, pick_duplicate, Newest
<1>3. CASE Matches(c, m) = {}
  BY <1>3 DEF Found, HasDoc
<1> QED BY <1>2, <1>3

LEMMA ArriveShape ==
    ASSUME Core, NEW c \in Call, NEW m \in Note, NEW owner \in BOOLEAN,
           NEW targets \in SUBSET Number, Arrive(c, m, owner, targets)
    PROVE  /\ call[c].pc = "idle" /\ Sendable(m)
           /\ call' \in [Call -> CallType] /\ \A d \in Call : d # c => call'[d] = call[d]
           /\ Arrived(c, m, owner, targets)
           /\ UNCHANGED <<files, docs, graph, edges, locked, faults, gone, used>>
<1> DEFINE sent == [Idle EXCEPT !.note = m, !.owner = owner,
                                !.seen = IF m.session = NoSession THEN {} ELSE Written]
<1>1. sent = Decision(m, owner, SeenBy(m), "idle", "none", "none", {})
  <2> DEFINE r1 == [Idle EXCEPT !.note = m]
             r2 == [r1 EXCEPT !.owner = owner]
             r3 == [r2 EXCEPT !.seen = SeenBy(m)]
  <2>0. PICK no : no = FALSE
    OBVIOUS
  <2>1. Idle = Decision(NoNote, no, {}, "idle", "none", "none", {})
    BY <2>0 DEF Idle, Decision
  <2>5. r1 = Decision(m, no, {}, "idle", "none", "none", {})
    BY <2>1 DEF Decision
  <2>2. sent = r3
    BY DEF SeenBy
  <2> HIDE DEF r1, sent
  <2>3. r2 = Decision(m, owner, {}, "idle", "none", "none", {})
    BY <2>5 DEF Decision
  <2> HIDE DEF r2
  <2>4. r3 = Decision(m, owner, SeenBy(m), "idle", "none", "none", {})
    BY <2>3 DEF Decision
  <2> QED BY <2>2, <2>4
<1> HIDE DEF sent
<1>2. /\ [sent EXCEPT !.pc = "answered", !.outcome = "refused"]
            = Decision(m, owner, SeenBy(m), "answered", "none", "refused", {})
      /\ [sent EXCEPT !.pc = "look", !.outcome = "stored", !.targets = targets]
            = Decision(m, owner, SeenBy(m), "look", "none", "stored", targets)
  <2> DEFINE r1 == [sent EXCEPT !.pc = "answered"]
             r2 == [r1 EXCEPT !.outcome = "refused"]
             s1 == [sent EXCEPT !.pc = "look"]
             s2 == [s1 EXCEPT !.outcome = "stored"]
             s3 == [s2 EXCEPT !.targets = targets]
  <2>1. r2 = [sent EXCEPT !.pc = "answered", !.outcome = "refused"]
    OBVIOUS
  <2>2. s3 = [sent EXCEPT !.pc = "look", !.outcome = "stored", !.targets = targets]
    OBVIOUS
  <2>3. r1 = Decision(m, owner, SeenBy(m), "answered", "none", "none", {})
    BY <1>1 DEF Decision
  <2>4. s1 = Decision(m, owner, SeenBy(m), "look", "none", "none", {})
    BY <1>1 DEF Decision
  <2> HIDE DEF r1, s1
  <2>5. r2 = Decision(m, owner, SeenBy(m), "answered", "none", "refused", {})
    BY <2>3 DEF Decision
  <2>6. s2 = Decision(m, owner, SeenBy(m), "look", "none", "stored", {})
    BY <2>4 DEF Decision
  <2> HIDE DEF s2
  <2>7. s3 = Decision(m, owner, SeenBy(m), "look", "none", "stored", targets)
    BY <2>6 DEF Decision
  <2> QED BY <2>1, <2>2, <2>5, <2>7
<1>3. ASSUME NEW b, NEW o
      PROVE  /\ [[sent EXCEPT !.branch = b, !.outcome = o] EXCEPT !.pc = "answered"]
                   = Decision(m, owner, SeenBy(m), "answered", b, o, {})
             /\ [[sent EXCEPT !.branch = b, !.outcome = o] EXCEPT !.pc = "look"]
                   = Decision(m, owner, SeenBy(m), "look", b, o, {})
  <2> DEFINE r1 == [sent EXCEPT !.branch = b]
             found == [sent EXCEPT !.branch = b, !.outcome = o]
  <2>1. r1 = Decision(m, owner, SeenBy(m), "idle", b, "none", {})
    BY <1>1 DEF Decision
  <2>2. found = [r1 EXCEPT !.outcome = o]
    OBVIOUS
  <2> HIDE DEF r1, found
  <2>3. [r1 EXCEPT !.outcome = o] = Decision(m, owner, SeenBy(m), "idle", b, o, {})
    BY <2>1 DEF Decision
  <2>4. found = Decision(m, owner, SeenBy(m), "idle", b, o, {})
    BY <2>2, <2>3
  <2>5. [found EXCEPT !.pc = "look"] = Decision(m, owner, SeenBy(m), "look", b, o, {})
    BY <2>4 DEF Decision
  <2>6. [found EXCEPT !.pc = "answered"] = Decision(m, owner, SeenBy(m), "answered", b, o, {})
    BY <2>4 DEF Decision
  <2> QED BY <2>5, <2>6 DEF found
<1>4. call \in [Call -> CallType]
  BY TypedCalls DEF Core
<1>5. call[c].pc = "idle" /\ Sendable(m)
      /\ UNCHANGED <<files, docs, graph, edges, locked, faults, gone, used>>
  <2>1. call[c].pc = "idle" /\ Sendable(m)
    BY DEF Arrive
  <2>2. UNCHANGED <<files, docs, graph, edges, locked, faults, gone, used>>
    BY DEF Arrive, Decided
  <2> QED BY <2>1, <2>2
<1>6. \E decision : call' = [call EXCEPT ![c] = decision] /\ call'[c] = decision
  BY <1>4 DEF Arrive, Decided
<1>7. Arrived(c, m, owner, targets)
  <2>1. CASE Refused(m, owner, targets)
    BY <1>2, <1>4, <2>1 DEF Arrive, Decided, sent, Arrived
  <2>2. CASE ~Refused(m, owner, targets) /\ (m.fix \/ Found(c, m) = {})
    BY <1>2, <1>4, <2>2 DEF Arrive, Decided, sent, Arrived
  <2>3. CASE ~Refused(m, owner, targets) /\ ~(m.fix \/ Found(c, m) = {})
    <3>1. PICK f \in Found(c, m) :
            LET outcome == dedup_gate(m, owner, f)
                found == [sent EXCEPT !.branch = f.branch, !.outcome = outcome]
            IN Decided(c, CASE outcome = "skipped" -> [found EXCEPT !.pc = "answered"]
                            [] outcome = "stored" -> [found EXCEPT !.pc = "look"]
                            [] OTHER -> [found EXCEPT !.pc = "look", !.targets = {f.num}])
      BY <2>3 DEF Arrive, sent
    <3>2. dedup_gate(m, owner, f) \in {"skipped", "stored", "superseded"}
      BY DEF dedup_gate
    <3>3. CASE dedup_gate(m, owner, f) = "skipped"
      <4>1. call'[c] = Decision(m, owner, SeenBy(m), "answered", f.branch, "skipped", {})
        BY <1>3, <1>4, <3>1, <3>3 DEF Decided
      <4> QED BY <2>3, <3>3, <4>1 DEF Arrived
    <3>4. CASE dedup_gate(m, owner, f) = "stored"
      <4>1. call'[c] = Decision(m, owner, SeenBy(m), "look", f.branch, "stored", {})
        BY <1>3, <1>4, <3>1, <3>4 DEF Decided
      <4> QED BY <2>3, <3>4, <4>1 DEF Arrived
    <3>5. CASE dedup_gate(m, owner, f) = "superseded"
      <4>1. call'[c] = Decision(m, owner, SeenBy(m), "look", f.branch, "superseded", {f.num})
        <5> DEFINE found == [sent EXCEPT !.branch = f.branch, !.outcome = "superseded"]
        <5>1. Decided(c, [found EXCEPT !.pc = "look", !.targets = {f.num}])
          BY <3>1, <3>5
        <5>2. [found EXCEPT !.pc = "look", !.targets = {f.num}]
                 = Decision(m, owner, SeenBy(m), "look", f.branch, "superseded", {f.num})
          <6> DEFINE r1 == [sent EXCEPT !.branch = f.branch]
                     s1 == [found EXCEPT !.pc = "look"]
          <6>1. r1 = Decision(m, owner, SeenBy(m), "idle", f.branch, "none", {})
            BY <1>1 DEF Decision
          <6>2. found = [r1 EXCEPT !.outcome = "superseded"]
            OBVIOUS
          <6> HIDE DEF r1, found
          <6>3. [r1 EXCEPT !.outcome = "superseded"]
                  = Decision(m, owner, SeenBy(m), "idle", f.branch, "superseded", {})
            BY <6>1 DEF Decision
          <6>7. found = Decision(m, owner, SeenBy(m), "idle", f.branch, "superseded", {})
            BY <6>2, <6>3
          <6>4. s1 = Decision(m, owner, SeenBy(m), "look", f.branch, "superseded", {})
            BY <6>7 DEF Decision
          <6>5. [found EXCEPT !.pc = "look", !.targets = {f.num}] = [s1 EXCEPT !.targets = {f.num}]
            OBVIOUS
          <6> HIDE DEF s1
          <6>6. [s1 EXCEPT !.targets = {f.num}]
                  = Decision(m, owner, SeenBy(m), "look", f.branch, "superseded", {f.num})
            BY <6>4 DEF Decision
          <6> QED BY <6>5, <6>6
        <5> HIDE DEF found
        <5>3. Decided(c, Decision(m, owner, SeenBy(m), "look", f.branch, "superseded", {f.num}))
          BY <5>1, <5>2
        <5> QED BY <1>4, <5>3 DEF Decided
      <4> QED BY <2>3, <3>5, <4>1 DEF Arrived
    <3> QED BY <3>2, <3>3, <3>4, <3>5
  <2> QED BY <2>1, <2>2, <2>3
<1>8. call'[c] \in CallType
  <2>1. SeenBy(m) \in SUBSET Number
    BY DEF SeenBy, Written
  <2>2. \A pc \in {"answered", "look"}, o \in {"refused", "stored", "superseded", "skipped"},
           b \in {"none", "same_session", "probable_session", "exact_title", "embedding"},
           ts \in SUBSET Number :
             Decision(m, owner, SeenBy(m), pc, b, o, ts) \in CallType
    BY <2>1, RememberAssumption DEF Decision, CallType, Ended
  <2>3. \A f \in Found(c, m) : {f.num} \in SUBSET Number
           /\ f.branch \in {"none", "same_session", "probable_session", "exact_title", "embedding"}
    BY FoundTyped
  <2> QED BY <1>7, <2>2, <2>3 DEF Arrived
<1>9. call' \in [Call -> CallType] /\ \A d \in Call : d # c => call'[d] = call[d]
  BY <1>4, <1>6, <1>8
<1> QED BY <1>5, <1>7, <1>9

LEMMA ArriveStep ==
    ASSUME Core, NEW c \in Call, NEW m \in Note, NEW owner \in BOOLEAN,
           NEW targets \in SUBSET Number, Arrive(c, m, owner, targets)
    PROVE  Core'
<1>1. /\ call[c].pc = "idle" /\ Sendable(m)
      /\ call' \in [Call -> CallType] /\ \A d \in Call : d # c => call'[d] = call[d]
      /\ Arrived(c, m, owner, targets)
      /\ UNCHANGED <<files, docs, graph, edges, locked, faults, gone, used>>
  BY ArriveShape
<1>2. call[c].num = 0
  BY <1>1 DEF Core, Calls, Progress, HasNumber, TypeOK
<1>3. /\ call'[c].num = 0 /\ call'[c].linked = {} /\ call'[c].note = m
      /\ \/ call'[c].pc = "look" /\ call'[c].outcome \in {"stored", "superseded"}
         \/ call'[c].pc = "answered" /\ call'[c].outcome \in {"refused", "skipped"}
      /\ call'[c].outcome \in {"superseded", "skipped"} => call'[c].branch # "none"
  BY <1>1, FoundTyped DEF Arrived, Decision
<1>4. \A d \in Call : call'[d].num = call[d].num
  BY <1>1, <1>2, <1>3
<1>5. TypeOK'
  <2>1. locked' <=> \E d \in Engine : call'[d].pc = "graph"
    BY <1>1, <1>3 DEF Core, TypeOK, Call
  <2>2. \A d, e \in Engine : call'[d].pc = "graph" /\ call'[e].pc = "graph" => d = e
    BY <1>1, <1>3 DEF Core, TypeOK, Call
  <2>3. \A d, e \in Call : call'[d].num > 0 /\ call'[d].num = call'[e].num => d = e
    BY <1>4 DEF Core, TypeOK, HasNumber
  <2> QED BY <1>1, <2>1, <2>2, <2>3 DEF Core, TypeOK, CallType, HasNumber
<1>6. Numbering'
  <2>1. \A d \in Call : call'[d].pc = "create" => d # c
    BY <1>3
  <2> QED BY <1>1, <1>4, <2>1 DEF Core, Numbering, HasNumber
<1>7. Calls'
  <2> SUFFICES ASSUME NEW d \in Call PROVE Progress(d)' /\ Stored(d)'
    BY DEF Calls
  <2>1. CASE d = c
    <3>1. Progress(c)'
      BY <1>1, <1>3 DEF Progress, Sent, Stores_, HasNumber, Ended
    <3>2. Stored(c)'
      BY <1>3 DEF Stored, HasNumber
    <3> QED BY <2>1, <3>1, <3>2
  <2>2. CASE d # c
    BY <1>1, <2>2 DEF Core, Calls, Progress, Stored, Sent, Stores_, HasNumber
  <2> QED BY <2>1, <2>2
<1> QED BY <1>5, <1>6, <1>7 DEF Core

-----------------------------------------------------------------------------
(* The sessions and the duplicate check under the other steps.             *)

LEMMA FrameKeeps ==
    ASSUME IInv, Core', Frame
    PROVE  IInv'
<1>1. /\ \A c \in Call : Sent(c)' <=> Sent(c)
      /\ \A c, d \in Call : Mates(c, d)' <=> Mates(c, d)
  BY DEF Frame, SameText, Sent, Mates
<1>2. \A c \in Call : HasNumber(c) => HasNumber(c)' /\ call'[c].num = call[c].num
  BY DEF Frame, HasNumber
<1>3. \A c, d \in Call : HasNumber(c)' /\ call'[c].num \in call[d].seen
                            => HasNumber(c) /\ call'[c].num = call[c].num
  BY DEF IInv, Sightings, Frame, HasNumber
<1>4. Sessions'
  <2>1. \A c \in Call : Answered(c) => Answered(c)'
    BY DEF Answered, Frame, SameText
  <2> QED BY <1>1, <2>1 DEF IInv, Sessions, Frame, SameText
<1>5. Sightings'
  <2>1. ASSUME NEW d \in Call
        PROVE  call'[d].seen \subseteq used' /\ (HasNumber(d)' => \A n \in call'[d].seen : n < call'[d].num)
    BY DEF IInv, Sightings, Frame, SameText, HasNumber
  <2>2. \A c, d \in Call : Mates(c, d)' /\ HasNumber(c)' /\ call'[c].num \in call'[d].seen
          => call'[c].note.since <= call'[d].note.since
    BY <1>1, <1>3 DEF IInv, Sightings, Frame, SameText
  <2> QED BY <2>1, <2>2 DEF Sightings
<1>6. Dedup'
  <2> SUFFICES ASSUME NEW d \in Call, Sent(d)
               PROVE  SkippedIsKept(d)' /\ SupersededIsSame(d)' /\ RetellingSupersedes(d)'
    BY <1>1 DEF Dedup
  <2>1. SkippedIsKept(d)'
    <3>1. \A k \in Note : Kept(k) => Kept(k)'
      BY NoNotes DEF Kept, Frame
    <3> QED BY <3>1 DEF IInv, Dedup, SkippedIsKept, Frame, SameText, Same
  <2>2. SupersededIsSame(d)'
    <3>1. \A t \in used : files[t] # EmptyFile => files'[t] \in {files[t], NoFile}
      BY RememberAssumption DEF Frame, IInv, Core, TypeOK, Number
    <3>2. call[d].targets \subseteq Number
      BY DEF IInv, Core, TypeOK
    <3> QED BY <3>1, <3>2, NoNotes DEF IInv, Dedup, SupersededIsSame, Frame, SameText, Same
  <2>3. RetellingSupersedes(d)'
    <3> SUFFICES ASSUME Stores_(d), ~call[d].owner, ~call[d].note.fix, NEW c \in Call,
                        Mates(c, d), HasNumber(c)', call'[c].num \in call[d].seen,
                        call[c].note.since = call[d].note.since
                 PROVE  /\ call[d].outcome = "superseded"
                        /\ \E e \in Call : /\ call[d].targets = {call'[e].num}
                                           /\ call'[e].num \in call[d].seen
                                           /\ call'[c].num <= call'[e].num /\ Mates(e, d)
      BY <1>1 DEF RetellingSupersedes, Stores_, Frame, SameText
    <3>1. HasNumber(c) /\ call'[c].num = call[c].num
      BY <1>3
    <3>2. /\ call[d].outcome = "superseded"
          /\ \E e \in Call : /\ call[d].targets = {call[e].num} /\ call[e].num \in call[d].seen
                             /\ call[c].num <= call[e].num /\ Mates(e, d)
      BY <3>1 DEF IInv, Dedup, RetellingSupersedes
    <3>3. \A e \in Call : call[e].num \in call[d].seen => call'[e].num = call[e].num
      <4>1. \A n \in call[d].seen : n > 0
        BY DEF IInv, Core, TypeOK, Number
      <4> QED BY <1>2, <4>1 DEF HasNumber
    <3> QED BY <3>1, <3>2, <3>3
  <2> QED BY <2>1, <2>2, <2>3
<1> QED BY <1>4, <1>5, <1>6 DEF IInv

-----------------------------------------------------------------------------
(* The sessions and the duplicate check under an arrival.                  *)

\* A note of the session whose file is written belongs to a call with an earlier
\* text, or the same.
LEMMA WrittenIsEarlier ==
    ASSUME IInv, NEW m \in Note, m.session # NoSession, Sendable(m),
           NEW n \in Written, files[n].session = m.session
    PROVE  \E a \in Call : /\ HasNumber(a) /\ call[a].num = n /\ call[a].note = files[n]
                           /\ a \in OfSession(m)
                           /\ call[a].note.since <= m.since
<1>1. n \in Number /\ files[n] \in Note /\ n \in used
  BY NoNotes DEF Written, IInv, Core, Numbering
<1>2. PICK a \in Call : call[a].num = n
  BY <1>1 DEF IInv, Core, Numbering
<1>3. HasNumber(a) /\ Sent(a) /\ call[a].note = files[n]
  <2>1. HasNumber(a)
    BY <1>1, <1>2 DEF HasNumber, Number
  <2>2. files[n] = call[a].note
    BY <1>1, <1>2, <2>1, NoNotes DEF IInv, Core, Calls, Stored
  <2> QED BY <1>1, <2>1, <2>2 DEF Sent
<1>4. a \in OfSession(m)
  BY <1>3, NoNotes DEF OfSession, Sent
<1>5. call[a].note.since <= m.since
  <2>1. call[a].note.since \in Nat /\ m.since \in Nat
    BY <1>1, <1>3, RememberAssumption
  <2>2. CASE call[a].note.since > 0
    <3>1. PICK d \in Call : Mates(a, d) /\ Answered(d) /\ call[d].note.upto = call[a].note.since
      BY <1>3, <2>2 DEF IInv, Sessions
    <3>2. d \in OfSession(m)
      BY <1>3, <3>1, NoNotes DEF OfSession, Mates, Sent
    <3>3. call[d].note.upto <= m.since
      BY <3>1, <3>2 DEF Sendable
    <3> QED BY <3>1, <3>3
  <2> QED BY <2>1, <2>2
<1> QED BY <1>2, <1>3, <1>4, <1>5

\* A match of the same session comes before every other.
LEMMA NewestOfSession ==
    ASSUME NEW c \in Call, NEW m \in Note, NEW f \in Found(c, m), f.branch # "embedding"
    PROVE  /\ f.num \in Written
           /\ f.branch = "same_session" => SameSession(c, m, files[f.num])
           /\ \A n \in Written : SameSession(c, m, files[n])
                 => f.branch = "same_session" /\ n <= f.num
<1> DEFINE same == {g \in Matches(c, m) : g.branch = "same_session"}
<1>1. f \in Newest(IF same # {} THEN same ELSE Matches(c, m))
  BY DEF Found, pick_duplicate
<1>2. f \in Matches(c, m)
  BY <1>1 DEF Newest
<1>3. f.num \in Written /\ (f.branch = "same_session" => SameSession(c, m, files[f.num]))
  BY <1>2 DEF Matches
<1>4. ASSUME NEW n \in Written, SameSession(c, m, files[n])
      PROVE  f.branch = "same_session" /\ n <= f.num
  <2> DEFINE g == [num |-> n, branch |-> "same_session"]
  <2>1. g \in Matches(c, m)
    BY <1>4 DEF Matches
  <2>2. g \in same
    BY <2>1
  <2>3. f \in same /\ g.num <= f.num
    BY <1>1, <2>2 DEF Newest
  <2> QED BY <2>3
<1> QED BY <1>3, <1>4

\* Where something matches, something is found.
LEMMA NewestExists ==
    ASSUME NEW matches, matches # {}, \A g \in matches : g.num \in Number
    PROVE  Newest(matches) # {}
<1> DEFINE S == {MaxNumber - g.num : g \in matches}
<1>1. S \in SUBSET Nat /\ S # {}
  BY RememberAssumption DEF Number
<1> HIDE DEF S
<1>2. PICK x \in S : \A y \in S : x <= y
  BY <1>1, LeastExists
<1> USE DEF S
<1>3. PICK g \in matches : x = MaxNumber - g.num
  OBVIOUS
<1>4. \A h \in matches : MaxNumber - g.num <= MaxNumber - h.num
  BY <1>2, <1>3
<1>5. \A h \in matches : h.num <= g.num
  BY <1>4, RememberAssumption DEF Number
<1> QED BY <1>3, <1>5 DEF Newest

LEMMA MatchIsFound ==
    ASSUME NEW c \in Call, NEW m \in Note, Matches(c, m) # {}
    PROVE  Found(c, m) # {}
<1> DEFINE same == {g \in Matches(c, m) : g.branch = "same_session"}
           chosen == IF same # {} THEN same ELSE Matches(c, m)
<1>1. \A g \in chosen : g.num \in Number
  BY DEF Matches, Written
<1>2. chosen # {}
  OBVIOUS
<1> HIDE DEF chosen
<1>3. Newest(chosen) # {}
  BY <1>1, <1>2, NewestExists
<1> QED BY <1>3 DEF Found, pick_duplicate, chosen

LEMMA ArriveKeeps ==
    ASSUME IInv, NEW c \in Call, NEW m \in Note, NEW owner \in BOOLEAN,
           NEW targets \in SUBSET Number, Arrive(c, m, owner, targets)
    PROVE  IInv'
<1>1. /\ call[c].pc = "idle" /\ Sendable(m)
      /\ call' \in [Call -> CallType] /\ \A d \in Call : d # c => call'[d] = call[d]
      /\ Arrived(c, m, owner, targets)
      /\ UNCHANGED <<files, docs, graph, edges, locked, faults, gone, used>>
  BY ArriveShape DEF IInv
<1>2. Core'
  BY ArriveStep DEF IInv
<1>3. call[c].num = 0 /\ call'[c].num = 0
  BY <1>1 DEF IInv, Core, Calls, Progress, HasNumber, TypeOK, Arrived, Decision
<1>4. \A d \in Call : call'[d].num = call[d].num /\ (HasNumber(d)' <=> HasNumber(d))
  BY <1>1, <1>3 DEF HasNumber
<1>5. call'[c].note = m /\ call'[c].seen = SeenBy(m) /\ call'[c].owner = owner
  BY <1>1 DEF Arrived, Decision
<1>6. Sent(c)' /\ \A d \in Call : d # c => (Sent(d)' <=> Sent(d))
  BY <1>1, <1>5 DEF Sent
<1>7. \A d \in Call : d # c /\ Mates(d, c)' => d \in OfSession(m) /\ m.session # NoSession
  BY <1>1, <1>5, <1>6, NoNotes DEF Mates, OfSession, Sent
<1>8. \A d, e \in Call : d # c /\ e # c => (Mates(d, e)' <=> Mates(d, e))
  BY <1>1, <1>6 DEF Mates
<1>9. SeenBy(m) \subseteq used /\ (m.session # NoSession => SeenBy(m) = Written)
  BY NoNotes DEF SeenBy, Written, IInv, Core, Numbering
<1>10. \A d \in Call : Mates(c, d)' <=> Mates(d, c)'
  BY DEF Mates
<1>11. \A d, e \in Call : call[d].num \in call[e].seen => HasNumber(d) /\ d # c
  BY <1>3 DEF IInv, Core, TypeOK, HasNumber, Number
<1>12. \A d \in Call : call[d].num \in SeenBy(m) => HasNumber(d) /\ d # c
  BY <1>3, <1>9 DEF IInv, Core, TypeOK, HasNumber, Number
<1>13. Sessions'
  <2>1. ASSUME NEW d \in Call, NEW e \in Call, Mates(d, e)',
               call'[d].note.since = call'[e].note.since
        PROVE  call'[d].note.upto = call'[e].note.upto
    <3>1. CASE d # c /\ e # c
      BY <1>1, <1>8, <2>1, <3>1 DEF IInv, Sessions
    <3>2. CASE d = c /\ e = c
      BY <3>2
    <3>3. CASE d # c /\ e = c
      BY <1>1, <1>5, <1>7, <2>1, <3>3 DEF Sendable
    <3>4. CASE d = c /\ e # c
      BY <1>1, <1>5, <1>7, <1>10, <2>1, <3>4 DEF Sendable
    <3> QED BY <3>1, <3>2, <3>3, <3>4
  <2>2. ASSUME NEW d \in Call, Sent(d)', call'[d].note.session # NoSession, call'[d].note.since > 0
        PROVE  \E e \in Call : Mates(d, e)' /\ Answered(e)' /\ call'[e].note.upto = call'[d].note.since
    <3>1. \A e \in Call : Answered(e) => e # c
      BY <1>1 DEF Answered
    <3>2. \A e \in Call : Answered(e) => Answered(e)'
      BY <1>1, <3>1 DEF Answered
    <3>3. CASE d = c
      <4>1. PICK e \in OfSession(m) : Answered(e) /\ call[e].note.upto = m.since
        BY <1>1, <1>5, <2>2, <3>3 DEF Sendable
      <4>2. e \in Call /\ e # c /\ call'[e] = call[e] /\ Sent(e)
        BY <1>1, <3>1, <4>1 DEF OfSession, Sent, IInv, Core, TypeOK
      <4>3. Mates(c, e)'
        BY <1>5, <1>6, <2>2, <3>3, <4>1, <4>2 DEF Mates, OfSession
      <4> QED BY <1>5, <3>2, <3>3, <4>1, <4>2, <4>3
    <3>4. CASE d # c
      <4>1. PICK e \in Call : Mates(d, e) /\ Answered(e) /\ call[e].note.upto = call[d].note.since
        BY <1>1, <1>6, <2>2, <3>4 DEF IInv, Sessions
      <4> QED BY <1>1, <1>8, <3>1, <3>2, <3>4, <4>1
    <3> QED BY <3>3, <3>4
  <2> QED BY <2>1, <2>2 DEF Sessions
\* What the call has seen of its session is of no later text.
<1>14. ASSUME NEW n \in Written, files[n].session = m.session, m.session # NoSession
       PROVE  files[n].since <= m.since /\ (files[n].since = m.since => files[n].upto = m.upto)
  <2>1. PICK a \in Call : /\ HasNumber(a) /\ call[a].num = n /\ call[a].note = files[n]
                          /\ a \in OfSession(m) /\ call[a].note.since <= m.since
    BY <1>1, <1>14, WrittenIsEarlier
  <2> QED BY <1>1, <1>14, <2>1 DEF Sendable
<1>15. \A a \in Call : call[a].num \in Written => call[a].note = files[call[a].num] /\ HasNumber(a)
  BY NoNotes, RememberAssumption DEF Written, IInv, Core, Calls, Stored, TypeOK, HasNumber, Number
<1>16. Sightings'
  <2>1. ASSUME NEW d \in Call
        PROVE  call'[d].seen \subseteq used' /\ (HasNumber(d)' => \A n \in call'[d].seen : n < call'[d].num)
    <3>1. CASE d = c
      BY <1>1, <1>3, <1>4, <1>5, <1>9, <3>1 DEF HasNumber
    <3>2. CASE d # c
      BY <1>1, <3>2 DEF IInv, Sightings, HasNumber
    <3> QED BY <3>1, <3>2
  <2>2. ASSUME NEW a \in Call, NEW d \in Call, Mates(a, d)', HasNumber(a)', call'[a].num \in call'[d].seen
        PROVE  call'[a].note.since <= call'[d].note.since
    <3>1. a # c
      BY <1>3, <2>2 DEF HasNumber
    <3>2. CASE d = c
      <4>1. a \in OfSession(m) /\ m.session # NoSession /\ call[a].num \in Written
        BY <1>4, <1>5, <1>7, <1>9, <2>2, <3>1, <3>2
      <4> QED BY <1>1, <1>5, <1>14, <1>15, <3>1, <3>2, <4>1 DEF OfSession
    <3>3. CASE d # c
      BY <1>1, <1>8, <2>2, <3>1, <3>3 DEF IInv, Sightings, HasNumber
    <3> QED BY <3>2, <3>3
  <2> QED BY <2>1, <2>2 DEF Sightings
<1>17. ASSUME NEW d \in Call, d # c, Sent(d)'
       PROVE  SkippedIsKept(d)' /\ SupersededIsSame(d)' /\ RetellingSupersedes(d)'
  <2>1. Sent(d) /\ call'[d] = call[d]
    BY <1>1, <1>6, <1>17
  <2>2. SkippedIsKept(d)'
    BY <1>1, <2>1 DEF IInv, Dedup, SkippedIsKept, Kept, Same
  <2>3. SupersededIsSame(d)'
    BY <1>1, <2>1 DEF IInv, Dedup, SupersededIsSame, Same
  <2>4. RetellingSupersedes(d)'
    <3> SUFFICES ASSUME Stores_(d), ~call[d].owner, ~call[d].note.fix, NEW a \in Call,
                        Mates(a, d)', HasNumber(a)', call'[a].num \in call[d].seen,
                        call'[a].note.since = call[d].note.since
                 PROVE  /\ call[d].outcome = "superseded"
                        /\ \E e \in Call : /\ call[d].targets = {call'[e].num}
                                           /\ call'[e].num \in call[d].seen
                                           /\ call'[a].num <= call'[e].num /\ Mates(e, d)'
      BY <2>1 DEF RetellingSupersedes, Stores_
    <3>1. a # c /\ HasNumber(a) /\ call[a].num \in call[d].seen /\ Mates(a, d) /\ call'[a] = call[a]
      BY <1>1, <1>3, <1>4, <1>8, <1>17 DEF HasNumber
    <3>2. /\ call[d].outcome = "superseded"
          /\ \E e \in Call : /\ call[d].targets = {call[e].num} /\ call[e].num \in call[d].seen
                             /\ call[a].num <= call[e].num /\ Mates(e, d)
      BY <2>1, <3>1 DEF IInv, Dedup, RetellingSupersedes
    <3> QED BY <1>4, <1>8, <1>11, <1>17, <3>2
  <2> QED BY <2>2, <2>3, <2>4
\* Now the new call itself.
<1>18. \A f \in Found(c, m) : f.branch # "embedding" /\ SameSession(c, m, files[f.num])
          => f.num \in Written /\ f.num \in SeenBy(m)
             /\ (c \in Door => Same(files[f.num], m))
  <2> SUFFICES ASSUME NEW f \in Found(c, m), f.branch # "embedding", SameSession(c, m, files[f.num])
               PROVE  f.num \in Written /\ f.num \in SeenBy(m)
                      /\ (c \in Door => Same(files[f.num], m))
    OBVIOUS
  <2>1. f.num \in Written /\ m.session # NoSession /\ files[f.num].session = m.session
    BY NewestOfSession DEF SameSession
  <2>2. c \in Door => files[f.num].since >= m.since
    <3>1. files[f.num].since \in Nat /\ m.since \in Nat
      BY <2>1, RememberAssumption DEF Written
    <3> QED BY <3>1 DEF SameSession, Continues
  <2>3. files[f.num].since \in Nat /\ m.since \in Nat
    BY <2>1, RememberAssumption DEF Written
  <2> QED BY <1>9, <1>14, <2>1, <2>2, <2>3 DEF Same
<1>19. SkippedIsKept(c)'
  <2> SUFFICES ASSUME c \in Door, call'[c].branch = "same_session", call'[c].outcome = "skipped"
               PROVE  \E k \in Note : Kept(k)' /\ Same(k, m)
    BY <1>5 DEF SkippedIsKept
  <2>1. PICK f \in Found(c, m) : f.branch = "same_session"
    BY <1>1 DEF Arrived, Decision
  <2>2. SameSession(c, m, files[f.num]) /\ f.num \in Written
    BY <2>1, NewestOfSession
  <2>3. Same(files[f.num], m)
    BY <1>18, <2>1, <2>2
  <2> QED BY <1>1, <2>2, <2>3 DEF Kept, Written
<1>20. SupersededIsSame(c)'
  <2> SUFFICES ASSUME c \in Door, call'[c].branch = "same_session", call'[c].outcome = "superseded",
                      NEW t \in call'[c].targets
               PROVE  /\ t \in used /\ files[t] # EmptyFile
                      /\ files[t] \in Note => Same(files[t], m)
    BY <1>1, <1>5 DEF SupersededIsSame, Same
  <2>1. PICK f \in Found(c, m) : f.branch = "same_session" /\ t = f.num
    BY <1>1 DEF Arrived, Decision
  <2>2. SameSession(c, m, files[f.num]) /\ f.num \in Written
    BY <2>1, NewestOfSession
  <2>3. Same(files[f.num], m) /\ f.num \in SeenBy(m)
    BY <1>18, <2>1, <2>2
  <2> QED BY <1>9, <2>1, <2>2, <2>3, NoNotes DEF Written
<1>21. RetellingSupersedes(c)'
  <2> SUFFICES ASSUME call'[c].outcome \in {"stored", "superseded"}, ~owner, ~m.fix, NEW a \in Call,
                      Mates(a, c)', HasNumber(a)', call'[a].num \in SeenBy(m),
                      call'[a].note.since = m.since
               PROVE  /\ call'[c].outcome = "superseded"
                      /\ \E e \in Call : /\ call'[c].targets = {call'[e].num}
                                         /\ call'[e].num \in SeenBy(m)
                                         /\ call'[a].num <= call'[e].num /\ Mates(e, c)'
    BY <1>5 DEF RetellingSupersedes, Stores_
  <2> DEFINE n == call[a].num
  <2>1. a # c /\ call'[a] = call[a] /\ a \in OfSession(m) /\ m.session # NoSession
        /\ n \in Written /\ files[n] = call[a].note
    BY <1>1, <1>4, <1>7, <1>9, <1>12, <1>15
  <2>2. SameSession(c, m, files[n])
    BY <2>1, RememberAssumption DEF SameSession, OfSession, Continues, Written
  <2>3. Matches(c, m) # {}
    BY <2>1, <2>2 DEF Matches
  <2>4. Found(c, m) # {}
    <3>1. CASE Found(c, m) = {}
      <4>1. call'[c].outcome = "stored"
        BY <1>1, <3>1 DEF Arrived, Decision
      <4> QED BY <2>3, <3>1, MatchIsFound
    <3> QED BY <3>1
  <2>5. PICK f \in Found(c, m) :
           \/ /\ dedup_gate(m, owner, f) = "stored"
           \/ /\ dedup_gate(m, owner, f) = "superseded"
              /\ call'[c].outcome = "superseded" /\ call'[c].targets = {f.num}
    BY <1>1, <2>4 DEF Arrived, Decision
  <2>6. dedup_gate(m, owner, f) # "stored"
    BY DEF dedup_gate
  <2>7. f.branch # "embedding"
    BY <2>5, <2>6 DEF dedup_gate
  <2>8. f.branch = "same_session" /\ n <= f.num /\ f.num \in Written
        /\ SameSession(c, m, files[f.num])
    BY <2>1, <2>2, <2>7, NewestOfSession
  <2>9. f.num \in SeenBy(m) /\ m.session # NoSession /\ files[f.num].session = m.session
    BY <1>18, <2>7, <2>8 DEF SameSession
  <2>10. PICK e \in Call : /\ HasNumber(e) /\ call[e].num = f.num /\ call[e].note = files[f.num]
                           /\ e \in OfSession(m)
    BY <1>1, <2>8, <2>9, WrittenIsEarlier
  <2>11. e # c /\ call'[e] = call[e] /\ Sent(e)
    BY <1>1, <1>3, <2>8, <2>10 DEF HasNumber, Sent, Written
  <2>12. Mates(e, c)'
    BY <1>5, <1>6, <2>9, <2>10, <2>11 DEF Mates
  <2> QED BY <1>4, <2>5, <2>6, <2>8, <2>9, <2>10, <2>12
<1>22. Dedup'
  BY <1>17, <1>19, <1>20, <1>21 DEF Dedup
<1> QED BY <1>2, <1>13, <1>16, <1>22 DEF IInv

-----------------------------------------------------------------------------
(* The invariant.                                                          *)

LEMMA InitIInv == Init => IInv
<1> SUFFICES ASSUME Init PROVE IInv
  OBVIOUS
<1>1. \A c \in Call : call[c] = Idle
  BY DEF Init
<1>2. Idle \in CallType
  BY RememberAssumption DEF Idle, CallType, Ended
<1>3. \A c \in Call : /\ call[c].pc = "idle" /\ call[c].note = NoNote /\ call[c].num = 0
                      /\ call[c].outcome = "none" /\ call[c].seen = {}
  BY <1>1 DEF Idle
<1>4. TypeOK
  <2>1. call \in [Call -> CallType]
    BY <1>2 DEF Init
  <2>2. \A c, d \in Call : ~HasNumber(c) /\ call[c].pc # "graph"
    BY <1>3 DEF HasNumber
  <2>3. /\ files \in [Number -> Note \cup {NoFile, EmptyFile}] /\ docs \in [Number -> Note \cup {NoNote}]
        /\ graph \subseteq Number /\ edges \subseteq Number \X Number /\ locked = FALSE
        /\ faults \in 0 .. MaxFault /\ gone \subseteq Note /\ used \subseteq Number
    BY RememberAssumption DEF Init
  <2>4. ~ \E c \in Engine : call[c].pc = "graph"
    BY <2>2 DEF Call
  <2>5. /\ locked \in BOOLEAN /\ (locked <=> \E c \in Engine : call[c].pc = "graph")
        /\ \A c, d \in Engine : call[c].pc = "graph" /\ call[d].pc = "graph" => c = d
        /\ \A c, d \in Call : HasNumber(c) /\ call[c].num = call[d].num => c = d
    BY <2>2, <2>3, <2>4
  <2> QED BY <2>1, <2>3, <2>5 DEF TypeOK, CallType
<1>5. Numbering
  <2>1. used = 1 .. 0 /\ 0 \in 0 .. MaxNumber
    BY RememberAssumption DEF Init
  <2> QED BY <1>3, <2>1 DEF Init, Numbering, HasNumber
<1>6. Calls
  BY <1>3 DEF Calls, Progress, Stored, Stores_, HasNumber, Ended
<1>7. \A c \in Call : ~Sent(c)
  BY <1>3, NoNotes DEF Sent
<1> QED BY <1>3, <1>4, <1>5, <1>6, <1>7 DEF IInv, Core, Sessions, Sightings, Dedup, Mates, HasNumber

\* What the properties of steps need of a step.
LEMMA StepShape ==
    ASSUME IInv, Next
    PROVE  IInv' /\ (Frame \/ UNCHANGED files)
<1>1. CASE \E c \in Call, m \in Note, owner \in BOOLEAN, targets \in {{}} \cup {{n} : n \in used} :
             Arrive(c, m, owner, targets)
  <2>1. PICK c \in Call, m \in Note, owner \in BOOLEAN, targets \in {{}} \cup {{n} : n \in used} :
           Arrive(c, m, owner, targets)
    BY <1>1
  <2>2. targets \in SUBSET Number
    BY DEF IInv, Core, TypeOK
  <2>3. UNCHANGED files
    BY <2>1, <2>2, ArriveShape DEF IInv
  <2> QED BY <2>1, <2>2, <2>3, ArriveKeeps
<1>2. ASSUME NEW c \in Call, Advance(c)
      PROVE  Core' /\ Frame
  BY <1>2, LookStep, CreateStep, WriteStep, CommitDoorStep, IngestDocumentStep, IngestGraphStep,
     LinkStep DEF Advance, IInv
<1>3. CASE \E c \in Call : Advance(c) \/ CommitDoorHalf(c) \/ Fail(c)
  BY <1>2, <1>3, CommitDoorHalfStep, FailStep, FrameKeeps DEF IInv
<1>4. CASE \E calls \in {Door, Engine} : Restart(calls)
  BY <1>4, RestartStep, FrameKeeps DEF IInv
<1>5. CASE \E n \in Number : Sync(n) \/ RemoveFile(n)
  BY <1>5, SyncStep, RemoveFileStep, FrameKeeps DEF IInv
<1> QED BY <1>1, <1>3, <1>4, <1>5 DEF Next

LEMMA StutterIInv == IInv /\ UNCHANGED vars => IInv'
<1> SUFFICES ASSUME IInv, UNCHANGED vars PROVE IInv'
  OBVIOUS
<1> USE DEF vars
<1>1. TypeOK'
  BY DEF IInv, Core, TypeOK, HasNumber
<1>2. Numbering' /\ Calls'
  BY DEF IInv, Core, Numbering, Calls, Progress, Stored, Sent, Stores_, HasNumber
<1>3. Sessions' /\ Sightings'
  BY DEF IInv, Sessions, Sightings, Mates, Sent, HasNumber, Answered
<1>4. Dedup'
  <2>1. \A c, d \in Call : Mates(c, d)' <=> Mates(c, d)
    BY DEF Mates, Sent
  <2>2. \A d \in Call : SkippedIsKept(d) => SkippedIsKept(d)'
    BY DEF SkippedIsKept, Kept, Same
  <2>3. \A d \in Call : SupersededIsSame(d) => SupersededIsSame(d)'
    BY DEF SupersededIsSame, Same
  <2>4. \A d \in Call : RetellingSupersedes(d) => RetellingSupersedes(d)'
    BY <2>1 DEF RetellingSupersedes, HasNumber, Stores_
  <2> QED BY <2>2, <2>3, <2>4 DEF IInv, Dedup, Sent
<1> QED BY <1>1, <1>2, <1>3, <1>4 DEF IInv, Core

LEMMA Invariant == Spec => []IInv
<1>1. IInv /\ [Next]_vars => IInv'
  BY StepShape, StutterIInv
<1> QED BY InitIInv, <1>1, PTL DEF Spec

\* The write path keeps its types: one engine call holds the lock, and no two calls
\* have one number.
THEOREM TypeCorrect == Spec => []TypeOK
<1>1. IInv => TypeOK
  BY DEF IInv, Core
<1> QED BY <1>1, Invariant, PTL

\* A new file takes a number above every number ever used (next_wiki_id), however the
\* calls of the door and the engine interleave and whichever files were removed.
THEOREM NumbersGrowAlways == Spec => NumbersGrow
<1> DEFINE A == \A n \in Number : files[n] = NoFile /\ files'[n] # NoFile => \A k \in used : k < n
<1>1. IInv /\ [Next]_vars => [A]_vars
  <2> SUFFICES ASSUME IInv, Next PROVE A
    OBVIOUS
  <2>1. Frame \/ UNCHANGED files
    BY StepShape
  <2> QED BY <2>1, NoNotes DEF Frame
<1> QED BY <1>1, Invariant, PTL DEF Spec, NumbersGrow

\* What a call has answered is in the database, with its graph and its edges, and
\* stays there (remember_note: "recallable now").
THEOREM AnswerHoldsAlways == Spec => []AnswerHolds
<1>1. IInv => AnswerHolds
  BY DEF IInv, Core, Calls, Progress, Stored, AnswerHolds
<1> QED BY <1>1, Invariant, PTL

\* The door's same-session check drops no turn of a text it has answered.
THEOREM TurnsKeptAlways == Spec => []TurnsKept
<1>1. IInv => TurnsKept
  <2> SUFFICES ASSUME IInv, NEW c \in Door, Answered(c), call[c].branch \in {"none", "same_session"}
               PROVE  /\ Turns(call[c].note) \subseteq TurnsOf(call[c].note.session)
                      /\ call[c].outcome = "superseded" =>
                            \A t \in call[c].targets \cap Written :
                               Turns(files[t]) \subseteq Turns(call[c].note)
    BY DEF TurnsKept
  <2>1. c \in Call /\ Progress(c) /\ Stored(c)
    BY DEF IInv, Core, Calls, Call
  <2>2. Sent(c) /\ SkippedIsKept(c) /\ SupersededIsSame(c)
    BY <2>1 DEF Progress, Answered, IInv, Dedup
  <2>3. call[c].outcome \in {"stored", "superseded", "skipped"}
    BY <2>1 DEF Progress, Answered, IInv, Core, TypeOK
  <2>4. \A k \in Note : Kept(k) /\ k.session = call[c].note.session
           => Turns(k) \subseteq TurnsOf(call[c].note.session)
    BY DEF Kept, TurnsOf, Written
  <2>5. CASE call[c].outcome = "skipped"
    <3>1. PICK k \in Note : Kept(k) /\ Same(k, call[c].note)
      BY <2>1, <2>2, <2>5 DEF SkippedIsKept, Progress
    <3> QED BY <2>4, <2>5, <3>1 DEF Same, Turns
  <2>6. CASE call[c].outcome \in {"stored", "superseded"}
    <3>1. HasNumber(c)
      BY <2>1, <2>6 DEF Progress, Answered, Stores_
    <3>2. call[c].num \in Number
      BY <2>1, <3>1, RememberAssumption DEF IInv, Core, TypeOK, HasNumber, Number
    <3>3. Kept(call[c].note)
      BY <2>1, <3>1, <3>2 DEF Stored, Answered, Kept
    <3>4. Turns(call[c].note) \subseteq TurnsOf(call[c].note.session)
      BY <2>2, <2>4, <3>3 DEF Sent
    <3>5. ASSUME call[c].outcome = "superseded", NEW t \in call[c].targets \cap Written
          PROVE  Turns(files[t]) \subseteq Turns(call[c].note)
      <4>1. call[c].branch = "same_session"
        BY <2>1, <3>5 DEF Progress
      <4>2. Same(files[t], call[c].note)
        BY <2>2, <3>5, <4>1 DEF SupersededIsSame, Written
      <4> QED BY <4>2 DEF Same, Turns
    <3> QED BY <3>4, <3>5
  <2> QED BY <2>3, <2>5, <2>6
<1> QED BY <1>1, Invariant, PTL

-----------------------------------------------------------------------------
(* One live note.                                                          *)

LEMMA AtMostOne ==
    ASSUME NEW S, \A x, y \in S : x = y
    PROVE  Cardinality(S) <= 1
<1>1. CASE S = {}
  BY <1>1, FS_EmptySet
<1>2. CASE S # {}
  <2>1. PICK x \in S : S = {x}
    BY <1>2
  <2> QED BY <2>1, FS_Singleton
<1> QED BY <1>1, <1>2

\* The older of two notes of one text is superseded.
LEMMA OlderIsSuperseded ==
    ASSUME IInv, NEW m \in Note, m.session # NoSession, Orderly(m),
           NEW c \in Tellings(m), NEW d \in Tellings(m), call[c].num < call[d].num
    PROVE  ~Live(call[c].num)
<1> DEFINE Later == {call[e].num : e \in {x \in Tellings(m) : call[c].num < call[x].num}}
<1>1. \A x \in Tellings(m) : /\ x \in Call /\ HasNumber(x) /\ Sent(x) /\ call[x].num \in Number
                             /\ call[x].note.session = m.session /\ call[x].note.since = m.since
  BY RememberAssumption DEF Tellings, OfSession, Sent, IInv, Core, TypeOK, HasNumber, Number
<1>2. PICK e \in Tellings(m) : /\ call[c].num < call[e].num
                               /\ \A x \in Tellings(m) : call[c].num < call[x].num
                                                           => call[e].num <= call[x].num
  <2>1. Later \in SUBSET Nat /\ Later # {}
    BY <1>1 DEF Number
  <2> HIDE DEF Later
  <2>2. PICK n \in Later : \A k \in Later : n <= k
    BY <2>1, LeastExists
  <2> QED BY <2>2 DEF Later
<1>3. Mates(c, e)
  BY <1>1 DEF Mates
<1>4. call[c].num \in call[e].seen
  BY <1>1, <1>2 DEF Orderly, Tellings
<1>5. /\ call[e].pc = "answered" /\ ~call[e].owner /\ ~call[e].note.fix
      /\ call[e].linked = call[e].targets
  BY DEF Orderly
<1>6. PICK g \in Call : /\ call[e].targets = {call[g].num} /\ call[g].num \in call[e].seen
                        /\ call[c].num <= call[g].num /\ Mates(g, e)
  <2>1. Stores_(e)
    BY <1>1 DEF IInv, Core, Calls, Progress
  <2> QED BY <1>1, <1>3, <1>4, <1>5, <2>1 DEF IInv, Dedup, RetellingSupersedes
<1>7. HasNumber(g) /\ call[g].num < call[e].num
  <2>1. call[g].num \in Number
    BY <1>1, <1>6 DEF IInv, Core, TypeOK
  <2> QED BY <1>1, <1>6, <2>1 DEF IInv, Sightings, HasNumber, Number
<1>8. call[g].num = call[c].num
  <2>0. call[c].num \in Nat /\ call[g].num \in Nat
    BY <1>1, <1>6 DEF IInv, Core, TypeOK, Number
  <2> SUFFICES ASSUME call[c].num < call[g].num PROVE FALSE
    BY <1>6, <2>0
  <2>1. g \in OfSession(m)
    BY <1>1, <1>6, NoNotes DEF Mates, OfSession, Sent
  <2>2. call[c].num \in call[g].seen
    BY <1>7, <2>1 DEF Orderly
  <2>3. Mates(c, g)
    BY <1>1, <1>3, <1>6 DEF Mates
  <2>4. call[c].note.since <= call[g].note.since
    BY <1>1, <2>2, <2>3 DEF IInv, Sightings
  <2>5. call[g].note.since <= call[e].note.since
    BY <1>1, <1>6, <1>7 DEF IInv, Sightings
  <2>6. g \in Tellings(m)
    <3>1. call[g].note.since \in Nat /\ m.since \in Nat
      BY <1>6, RememberAssumption DEF Mates, Sent
    <3> QED BY <1>1, <1>7, <2>1, <2>4, <2>5, <3>1 DEF Tellings
  <2>7. call[e].num <= call[g].num
    BY <1>2, <2>6
  <2> QED BY <1>1, <1>7, <2>6, <2>7 DEF Number
<1>9. <<call[e].num, call[c].num>> \in edges
  <2>1. {call[e].num} \X call[e].linked \subseteq edges
    BY <1>1, <1>5 DEF IInv, Core, Calls, Progress
  <2> QED BY <1>5, <1>6, <1>8, <2>1
<1> QED BY <1>1, <1>9 DEF Live

\* Of one text, however often it was distilled, one note is live (newest_match), for
\* any number of calls, of the door and of the engine.
THEOREM OneLiveAlways == Spec => []OneLive
<1>1. IInv => OneLive
  <2> SUFFICES ASSUME IInv, NEW m \in Note, m.session # NoSession, Orderly(m)
               PROVE  Cardinality({c \in Tellings(m) : Live(call[c].num)}) <= 1
    BY DEF OneLive
  <2>1. ASSUME NEW c \in Tellings(m), NEW d \in Tellings(m), Live(call[c].num), Live(call[d].num)
        PROVE  c = d
    <3>1. ~(call[c].num < call[d].num) /\ ~(call[d].num < call[c].num)
      BY <2>1, OlderIsSuperseded
    <3>2. c \in Call /\ d \in Call /\ HasNumber(c) /\ HasNumber(d)
      BY DEF Tellings, OfSession
    <3>3. call[c].num \in Nat /\ call[d].num \in Nat
      BY <3>2 DEF IInv, Core, TypeOK
    <3> QED BY <3>1, <3>2, <3>3 DEF IInv, Core, TypeOK
  <2> QED BY <2>1, AtMostOne
<1> QED BY <1>1, Invariant, PTL
=============================================================================
