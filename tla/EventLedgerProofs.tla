------------------------- MODULE EventLedgerProofs -------------------------
(***************************************************************************)
(* The event ledger for any events, replays, sink modes and failures: type *)
(* correctness, no recorded event is lost, and a second row has a cause.   *)
(***************************************************************************)
EXTENDS EventLedger, TLAPS

-----------------------------------------------------------------------------
(* The inductive invariant.                                                *)

\* No line occurs twice.
Distinct(s) == \A i, j \in 1 .. Len(s) : s[i] = s[j] => i = j

Asked ==
    /\ \A e \in Event : recorder[e] = "posting" => request[e] # "none"
    /\ \A r \in Replay : ~Open(r) => replay[r] = IdleReplay

\* What a client was told is stored, is stored.
Inserted ==
    /\ \A c \in Client : request[c] = "stored" => Stored(Row(c))
    /\ \A r \in Replay : \A e \in replay[r].taken : Stored(e)

\* While nothing overlapped, the one open replay accounts for every line of the
\* spool: still to post, refused, or taken.
Carries(p) ==
    /\ ToSet(p.todo) \cup ToSet(p.remaining) \subseteq ToSet(spool.lines)
    /\ ToSet(spool.lines) \subseteq ToSet(p.todo) \cup ToSet(p.remaining) \cup p.taken
    /\ Distinct(p.todo) /\ Distinct(p.remaining)
    /\ \A e \in ToSet(p.todo) : e \notin ToSet(p.remaining)
    /\ p.pc = "replace" =>
          p.todo = <<>> /\ replaying = [exists |-> TRUE, lines |-> p.remaining]

Alone ==
    ~overlapped =>
        /\ \A q, r \in Replay : Open(q) /\ Open(r) => q = r
        /\ \A r \in Replay : Open(r) => Carries(replay[r])
        /\ Distinct(spool.lines)
        /\ \A e \in ToSet(spool.lines) : recorder[e] = "recorded"

\* The replay has posted e and the row is in the table.
Passed(r, e) ==
    \/ e \in replay[r].taken
    \/ request[r] = "stored" /\ Row(r) = e

\* With the default sink, an event no client is in doubt about has at most one row,
\* and none as long as somebody may still post it.
Clean(e) ==
    /\ late[e] = 0 /\ table[e] <= 1
    /\ recorder[e] \in {"unsaid", "spooling"} => table[e] = 0
    /\ recorder[e] = "posting" /\ request[e] = "sent" => table[e] = 0
    /\ \A r \in Replay : e \in ToSet(replay[r].remaining) => table[e] = 0
    /\ \A r \in Replay : e \in ToSet(replay[r].todo) =>
          table[e] = 0 \/ (request[r] = "stored" /\ Row(r) = e)
    /\ Spooled(e) /\ Stored(e) => \E r \in Replay : Open(r) /\ Passed(r, e)

Copies == mode = "db" /\ ~overlapped => \A e \in Event \ doubtful : Clean(e)

IInv == TypeOK /\ Asked /\ Inserted /\ Alone /\ NothingIsLost /\ Copies

-----------------------------------------------------------------------------
(* Lines.                                                                  *)

LEMMA NoLineAtAll ==
    /\ <<>> \in Lines /\ ToSet(<<>>) = {} /\ Distinct(<<>>)
BY DEF Lines, ToSet, Distinct

LEMMA FirstLine ==
    ASSUME NEW s \in Lines, s # <<>>
    PROVE  /\ Head(s) \in Event /\ Tail(s) \in Lines
           /\ ToSet(s) = {Head(s)} \cup ToSet(Tail(s))
           /\ Distinct(s) => Distinct(Tail(s)) /\ Head(s) \notin ToSet(Tail(s))
<1>1. /\ Len(s) \in Nat \ {0} /\ DOMAIN s = 1 .. Len(s) /\ Head(s) = s[1]
      /\ \A i \in 1 .. Len(s) : s[i] \in Event
  BY DEF Lines
<1>2. /\ Tail(s) \in Lines /\ Len(Tail(s)) = Len(s) - 1
      /\ DOMAIN Tail(s) = 1 .. Len(s) - 1
      /\ \A i \in 1 .. Len(s) - 1 : Tail(s)[i] = s[i + 1]
  BY <1>1 DEF Lines
<1>3. ToSet(s) = {Head(s)} \cup ToSet(Tail(s))
  <2>1. ASSUME NEW x \in ToSet(s) PROVE x \in {Head(s)} \cup ToSet(Tail(s))
    <3>1. PICK i \in 1 .. Len(s) : x = s[i]
      BY <1>1 DEF ToSet
    <3>2. i = 1 \/ (i - 1 \in 1 .. Len(s) - 1 /\ s[i] = Tail(s)[i - 1])
      BY <1>1, <1>2
    <3> QED
      BY <1>1, <1>2, <3>1, <3>2 DEF ToSet
  <2>2. ASSUME NEW x \in ToSet(Tail(s)) PROVE x \in ToSet(s)
    <3>1. PICK i \in 1 .. Len(s) - 1 : x = s[i + 1]
      BY <1>2 DEF ToSet
    <3> QED
      BY <1>1, <3>1 DEF ToSet
  <2>3. Head(s) \in ToSet(s)
    BY <1>1 DEF ToSet
  <2> QED
    BY <2>1, <2>2, <2>3
<1>4. ASSUME Distinct(s) PROVE Distinct(Tail(s)) /\ Head(s) \notin ToSet(Tail(s))
  <2>1. Distinct(Tail(s))
    <3> SUFFICES ASSUME NEW i \in 1 .. Len(s) - 1, NEW j \in 1 .. Len(s) - 1,
                        Tail(s)[i] = Tail(s)[j]
                 PROVE  i = j
      BY <1>2 DEF Distinct
    <3>1. i + 1 \in 1 .. Len(s) /\ j + 1 \in 1 .. Len(s) /\ s[i + 1] = s[j + 1]
      BY <1>1, <1>2
    <3> QED
      BY <1>4, <3>1 DEF Distinct
  <2>2. \A i \in 1 .. Len(s) - 1 : Tail(s)[i] # Head(s)
    <3> SUFFICES ASSUME NEW i \in 1 .. Len(s) - 1, Tail(s)[i] = Head(s) PROVE FALSE
      OBVIOUS
    <3>1. i + 1 \in 1 .. Len(s) /\ 1 \in 1 .. Len(s) /\ s[i + 1] = s[1]
      BY <1>1, <1>2
    <3>2. i + 1 = 1
      BY <1>4, <3>1 DEF Distinct
    <3> QED
      BY <3>2
  <2> QED
    BY <1>2, <2>1, <2>2 DEF ToSet
<1> QED
  BY <1>1, <1>2, <1>3, <1>4

LEMMA LastLine ==
    ASSUME NEW s \in Lines, NEW e \in Event
    PROVE  /\ Append(s, e) \in Lines
           /\ ToSet(Append(s, e)) = ToSet(s) \cup {e}
           /\ Distinct(s) /\ e \notin ToSet(s) => Distinct(Append(s, e))
<1>1. /\ Len(s) \in Nat /\ DOMAIN s = 1 .. Len(s)
      /\ Append(s, e) \in Lines /\ Len(Append(s, e)) = Len(s) + 1
      /\ DOMAIN Append(s, e) = 1 .. Len(s) + 1
      /\ \A i \in 1 .. Len(s) + 1 : Append(s, e)[i] = IF i <= Len(s) THEN s[i] ELSE e
  BY DEF Lines
<1>2. ToSet(Append(s, e)) = ToSet(s) \cup {e}
  <2>1. ASSUME NEW x \in ToSet(Append(s, e)) PROVE x \in ToSet(s) \cup {e}
    <3>1. PICK i \in 1 .. Len(s) + 1 : x = Append(s, e)[i]
      BY <1>1 DEF ToSet
    <3>2. (i \in 1 .. Len(s) /\ x = s[i]) \/ x = e
      BY <1>1, <3>1
    <3> QED
      BY <1>1, <3>2 DEF ToSet
  <2>2. ASSUME NEW x \in ToSet(s) PROVE x \in ToSet(Append(s, e))
    <3>1. PICK i \in 1 .. Len(s) : x = s[i]
      BY <1>1 DEF ToSet
    <3>2. i \in 1 .. Len(s) + 1 /\ x = Append(s, e)[i]
      BY <1>1, <3>1
    <3> QED
      BY <1>1, <3>2 DEF ToSet
  <2>3. e \in ToSet(Append(s, e))
    <3>1. Len(s) + 1 \in 1 .. Len(s) + 1 /\ e = Append(s, e)[Len(s) + 1]
      BY <1>1
    <3> QED
      BY <1>1, <3>1 DEF ToSet
  <2> QED
    BY <2>1, <2>2, <2>3
<1>3. ASSUME Distinct(s), e \notin ToSet(s) PROVE Distinct(Append(s, e))
  <2> SUFFICES ASSUME NEW i \in 1 .. Len(s) + 1, NEW j \in 1 .. Len(s) + 1,
                      Append(s, e)[i] = Append(s, e)[j]
               PROVE  i = j
    BY <1>1 DEF Distinct
  <2>1. \A k \in 1 .. Len(s) : s[k] # e
    BY <1>1, <1>3 DEF ToSet
  <2>2. \A k, l \in 1 .. Len(s) : s[k] = s[l] => k = l
    BY <1>3 DEF Distinct
  <2>3. CASE i <= Len(s) /\ j <= Len(s)
    <3>1. i \in 1 .. Len(s) /\ j \in 1 .. Len(s) /\ s[i] = s[j]
      BY <1>1, <2>3
    <3> QED
      BY <2>2, <3>1
  <2>4. CASE ~(i <= Len(s) /\ j <= Len(s))
    BY <1>1, <2>1, <2>4
  <2> QED
    BY <2>3, <2>4
<1> QED
  BY <1>1, <1>2, <1>3

-----------------------------------------------------------------------------
(* The replays' records.                                                   *)

ReplayState == [pc : {"idle", "rows", "replace"}, todo : Lines,
                remaining : Lines, taken : SUBSET Event]

LEMMA StateTyped ==
    ASSUME TypeOK
    PROVE  /\ mode \in Mode /\ faults \in 0 .. MaxFault
           /\ recorder \in [Event -> {"unsaid", "posting", "spooling", "recorded"}]
           /\ request \in [Client -> {"none", "sent", "stored"}]
           /\ late \in [Event -> Nat] /\ table \in [Event -> Nat]
           /\ spool.exists \in BOOLEAN /\ spool.lines \in Lines
           /\ replaying.exists \in BOOLEAN /\ replaying.lines \in Lines
           /\ doubtful \subseteq Event /\ overlapped \in BOOLEAN
           /\ \A e \in Event : request[e] # "none" => recorder[e] = "posting"
BY DEF TypeOK

LEMMA SpoolTyped == TypeOK => ToSet(spool.lines) \subseteq Event
BY DEF TypeOK, Lines, ToSet

LEMMA ReplayTyped ==
    ASSUME TypeOK, NEW r \in Replay
    PROVE  /\ replay[r].pc \in {"idle", "rows", "replace"}
           /\ replay[r].todo \in Lines /\ replay[r].remaining \in Lines
           /\ replay[r].taken \subseteq Event
           /\ request[r] # "none" => replay[r].pc = "rows" /\ replay[r].todo # <<>>
BY DEF TypeOK

LEMMA IdleReplayTyped ==
    /\ IdleReplay \in ReplayState
    /\ IdleReplay.pc = "idle" /\ IdleReplay.todo = <<>>
    /\ IdleReplay.remaining = <<>> /\ IdleReplay.taken = {}
BY NoLineAtAll DEF IdleReplay, ReplayState

LEMMA RowTyped == ASSUME TypeOK, NEW c \in Client, request[c] # "none" PROVE Row(c) \in Event
<1>1. CASE c \in Event
  BY <1>1 DEF Row
<1>2. CASE c \in Replay
  BY <1>2, ReplayTyped, FirstLine, LedgerAssumption DEF Row
<1> QED
  BY <1>1, <1>2 DEF Client

\* One replay goes on to p.
LEMMA OneReplay ==
    ASSUME TypeOK, NEW r \in Replay, NEW p \in ReplayState,
           replay' = [replay EXCEPT ![r] = p]
    PROVE  /\ replay' \in [Replay -> ReplayState]
           /\ replay'[r] = p /\ \A q \in Replay : q # r => replay'[q] = replay[q]
BY DEF TypeOK, ReplayState

LEMMA ReplayReturned ==
    ASSUME TypeOK, NEW r \in Replay, NEW ok \in BOOLEAN,
           replay[r].pc = "rows", replay[r].todo # <<>>, Returned(r, ok)
    PROVE  /\ recorder' = recorder /\ request' = [request EXCEPT ![r] = "none"]
           /\ AfterRow(replay[r], ok) \in ReplayState
           /\ replay' = [replay EXCEPT ![r] = AfterRow(replay[r], ok)]
<1>1. /\ replay[r] \in ReplayState /\ r \notin Event
      /\ Head(replay[r].todo) \in Event /\ Tail(replay[r].todo) \in Lines
  BY FirstLine, LedgerAssumption DEF TypeOK, ReplayState
<1>2. Append(replay[r].remaining, Head(replay[r].todo)) \in Lines
  BY <1>1, LastLine DEF ReplayState
<1>3. AfterRow(replay[r], ok) \in ReplayState
  BY <1>1, <1>2 DEF AfterRow, Kept, ReplayState
<1> QED
  BY <1>1, <1>3 DEF Returned

LEMMA EventReturned ==
    ASSUME TypeOK, NEW e \in Event, NEW ok \in BOOLEAN, Returned(e, ok)
    PROVE  /\ replay' = replay /\ request' = [request EXCEPT ![e] = "none"]
           /\ recorder' = [recorder EXCEPT ![e] =
                  IF SpoolsAlways \/ ~ok THEN "spooling" ELSE "recorded"]
BY DEF Returned

-----------------------------------------------------------------------------
(* An answer, and what becomes of the row.                                 *)

\* A client may go on with the answer ok.
CanReturn(c) ==
    /\ c \in Event => recorder[c] = "posting"
    /\ c \in Replay => replay[c].pc = "rows" /\ replay[c].todo # <<>>

LEMMA AskedCanReturn ==
    ASSUME TypeOK, NEW c \in Client, request[c] # "none"
    PROVE  CanReturn(c)
BY DEF TypeOK, CanReturn

LEMMA ReturnedTyped ==
    ASSUME TypeOK, NEW c \in Client, NEW ok \in BOOLEAN, CanReturn(c), Returned(c, ok),
           late' \in [Event -> Nat], doubtful' \subseteq Event, faults' \in 0 .. MaxFault,
           UNCHANGED <<mode, table, spool, replaying, overlapped>>
    PROVE  TypeOK'
<1>1. CASE c \in Event
  <2>1. c \notin Replay
    BY <1>1, LedgerAssumption
  <2>2. /\ replay' = replay /\ request' = [request EXCEPT ![c] = "none"]
        /\ recorder' = [recorder EXCEPT ![c] =
               IF SpoolsAlways \/ ~ok THEN "spooling" ELSE "recorded"]
    BY <1>1, EventReturned
  <2>3. /\ request' \in [Client -> {"none", "sent", "stored"}]
        /\ recorder' \in [Event -> {"unsaid", "posting", "spooling", "recorded"}]
        /\ \A e \in Event : request'[e] # "none" => recorder'[e] = "posting"
    BY <1>1, <2>2, StateTyped DEF Client
  <2>4. \A r \in Replay : request'[r] # "none" => replay'[r].pc = "rows" /\ replay'[r].todo # <<>>
    BY <2>1, <2>2, StateTyped, ReplayTyped DEF Client
  <2> QED
    BY <2>2, <2>3, <2>4 DEF TypeOK
<1>2. CASE c \in Replay
  <2>1. c \notin Event
    BY <1>2, LedgerAssumption
  <2>2. /\ recorder' = recorder /\ request' = [request EXCEPT ![c] = "none"]
        /\ replay' \in [Replay -> ReplayState]
        /\ \A q \in Replay : q # c => replay'[q] = replay[q]
    BY <1>2, ReplayReturned, OneReplay DEF CanReturn
  <2>3. \A r \in Replay : request'[r] # "none" => replay'[r].pc = "rows" /\ replay'[r].todo # <<>>
    BY <1>2, <2>2, StateTyped, ReplayTyped DEF Client
  <2>4. request' \in [Client -> {"none", "sent", "stored"}]
    BY <2>2, StateTyped
  <2>5. \A e \in Event : request'[e] # "none" => recorder'[e] = "posting"
    BY <2>1, <2>2, StateTyped DEF Client
  <2> QED
    BY <2>2, <2>3, <2>4, <2>5 DEF TypeOK, ReplayState
<1> QED
  BY <1>1, <1>2 DEF Client

\* The caller believes what is true of the row, or is in doubt about it.
Justified(c, ok) ==
    /\ ok => Stored(Row(c))
    /\ ~ok /\ mode = "db" /\ ~overlapped => Row(c) \in doubtful' \/ table[Row(c)] = 0

AfterAnswer(c, ok) ==
    /\ CanReturn(c) /\ Returned(c, ok) /\ Justified(c, ok)
    /\ late' \in [Event -> Nat] /\ doubtful \subseteq doubtful' /\ doubtful' \subseteq Event
    /\ \A e \in Event \ doubtful' : late'[e] = late[e]
    /\ faults' \in 0 .. MaxFault
    /\ UNCHANGED <<mode, table, spool, replaying, overlapped>>

LEMMA EventAnswerKeeps ==
    ASSUME IInv, NEW c \in Event, NEW ok \in BOOLEAN, AfterAnswer(c, ok)
    PROVE  IInv'
<1>1. TypeOK'
  BY ReturnedTyped DEF IInv, AfterAnswer, Client
<1>2. /\ replay' = replay /\ request' = [request EXCEPT ![c] = "none"]
      /\ recorder' = [recorder EXCEPT ![c] = IF SpoolsAlways \/ ~ok THEN "spooling" ELSE "recorded"]
      /\ c \notin Replay /\ recorder[c] = "posting" /\ Row(c) = c
      /\ UNCHANGED <<mode, table, spool, replaying, overlapped>>
  BY EventReturned, LedgerAssumption DEF IInv, AfterAnswer, CanReturn, Row
<1>3. /\ recorder \in [Event -> {"unsaid", "posting", "spooling", "recorded"}]
      /\ request \in [Client -> {"none", "sent", "stored"}]
  BY StateTyped DEF IInv
<1>4. \A q \in Client : q # c => request'[q] = request[q] /\ Row(q)' = Row(q)
  BY <1>2, <1>3 DEF Row
<1>5. Asked'
  BY <1>2, <1>3, <1>4 DEF IInv, Asked, Client, Open
<1>6. Inserted'
  BY <1>2, <1>3, <1>4 DEF IInv, Inserted, Client, Stored
<1>7. Alone'
  BY <1>2, <1>3 DEF IInv, Alone, Carries, Open
<1>8. NothingIsLost'
  BY <1>2, <1>3 DEF IInv, NothingIsLost, AfterAnswer, Justified, Stored, Spooled, SpoolsAlways
<1>9. Copies'
  <2> SUFFICES ASSUME mode = "db", ~overlapped, NEW e \in Event \ doubtful' PROVE Clean(e)'
    BY <1>2 DEF Copies
  <2>1. Clean(e) /\ late'[e] = late[e] /\ table' = table
    BY <1>2 DEF IInv, Copies, AfterAnswer
  <2>2. recorder'[e] \in {"unsaid", "spooling"} => table'[e] = 0
    BY <1>2, <1>3, <2>1 DEF Clean, AfterAnswer, Justified, SpoolsAlways, Stored
  <2>3. recorder'[e] = "posting" /\ request'[e] = "sent" => table'[e] = 0
    BY <1>2, <1>3, <1>4, <2>1 DEF Clean, Client
  <2>4. \A r \in Replay : /\ request'[r] = request[r] /\ Row(r)' = Row(r)
                          /\ replay'[r] = replay[r] /\ Open(r)' = Open(r)
    BY <1>2, <1>4 DEF Client, Open
  <2> QED
    BY <1>2, <2>1, <2>2, <2>3, <2>4 DEF Clean, Spooled, Stored, Passed
<1> QED
  BY <1>1, <1>5, <1>6, <1>7, <1>8, <1>9 DEF IInv

LEMMA ReplayAnswerKeeps ==
    ASSUME IInv, NEW c \in Replay, NEW ok \in BOOLEAN, AfterAnswer(c, ok)
    PROVE  IInv'
<1> DEFINE p == replay[c]
<1>1. TypeOK'
  BY ReturnedTyped DEF IInv, AfterAnswer, Client
<1>2. /\ recorder' = recorder /\ request' = [request EXCEPT ![c] = "none"]
      /\ replay'[c] = AfterRow(p, ok) /\ \A q \in Replay : q # c => replay'[q] = replay[q]
      /\ c \notin Event /\ p.pc = "rows" /\ p.todo # <<>> /\ Row(c) = Head(p.todo)
      /\ UNCHANGED <<mode, table, spool, replaying, overlapped>>
  BY ReplayReturned, OneReplay, LedgerAssumption DEF IInv, AfterAnswer, CanReturn, Row
<1>3. /\ request \in [Client -> {"none", "sent", "stored"}]
      /\ p.todo \in Lines /\ p.remaining \in Lines
  BY StateTyped, ReplayTyped DEF IInv
<1>4. \A q \in Client : q # c => request'[q] = request[q] /\ Row(q)' = Row(q)
  BY <1>2, <1>3, LedgerAssumption DEF Row, Client
<1>5. \A q \in Replay : Open(q)' = Open(q)
  BY <1>2 DEF Open, AfterRow
<1>6. /\ Row(c) \in Event /\ ToSet(p.todo) = {Row(c)} \cup ToSet(replay'[c].todo)
      /\ Distinct(p.todo) => Distinct(replay'[c].todo) /\ Row(c) \notin ToSet(replay'[c].todo)
      /\ replay'[c].pc = "rows"
  BY <1>2, <1>3, FirstLine DEF AfterRow
<1>7. CASE ok
  <2>1. /\ replay'[c].remaining = p.remaining /\ replay'[c].taken = p.taken \cup {Row(c)}
        /\ Stored(Row(c))
    BY <1>2, <1>7 DEF AfterRow, Kept, AfterAnswer, Justified
  <2>2. Asked'
    BY <1>2, <1>3, <1>4, <1>5 DEF IInv, Asked, Client, Open
  <2>3. Inserted'
    BY <1>2, <1>3, <1>4, <2>1 DEF IInv, Inserted, Client, Stored
  <2>4. Alone'
    <3>1. ~overlapped => Carries(replay[c])
      BY <1>2 DEF IInv, Alone, Open
    <3>2. ~overlapped => Carries(replay[c])'
      BY <1>2, <1>6, <2>1, <3>1 DEF Carries
    <3> QED
      BY <1>2, <1>5, <3>2 DEF IInv, Alone, Carries
  <2>5. NothingIsLost'
    BY <1>2 DEF IInv, NothingIsLost, Stored, Spooled
  <2>6. Copies'
    <3> SUFFICES ASSUME mode = "db", ~overlapped, NEW e \in Event \ doubtful' PROVE Clean(e)'
      BY <1>2 DEF Copies
    <3>1. Clean(e) /\ late'[e] = late[e] /\ table' = table /\ Carries(p)
      BY <1>2 DEF IInv, Copies, AfterAnswer, Alone, Open
    <3>2. e \in Client /\ e # c /\ request'[e] = request[e]
      BY <1>2, <1>4 DEF Client
    <3>3. \A r \in Replay : Passed(r, e) => Passed(r, e)'
      <4> SUFFICES ASSUME NEW r \in Replay, Passed(r, e) PROVE Passed(r, e)'
        OBVIOUS
      <4>1. CASE r = c
        BY <2>1, <4>1 DEF Passed
      <4>2. CASE r # c
        BY <1>2, <1>4, <4>2 DEF Passed, Client
      <4> QED
        BY <4>1, <4>2
    <3>4. \A r \in Replay : e \in ToSet(replay'[r].todo) =>
             table[e] = 0 \/ (request'[r] = "stored" /\ Row(r)' = e)
      <4> SUFFICES ASSUME NEW r \in Replay, e \in ToSet(replay'[r].todo)
                   PROVE  table[e] = 0 \/ (request'[r] = "stored" /\ Row(r)' = e)
        OBVIOUS
      <4>1. CASE r = c
        BY <1>6, <3>1, <4>1 DEF Clean, Carries
      <4>2. CASE r # c
        BY <1>2, <1>4, <3>1, <4>2 DEF Clean, Client
      <4> QED
        BY <4>1, <4>2
    <3>5. \A r \in Replay : e \in ToSet(replay'[r].remaining) => table[e] = 0
      BY <1>2, <2>1, <3>1 DEF Clean
    <3> QED
      BY <1>2, <1>5, <3>1, <3>2, <3>3, <3>4, <3>5 DEF Clean, Spooled, Stored
  <2> QED
    BY <1>1, <2>2, <2>3, <2>4, <2>5, <2>6 DEF IInv
<1>8. CASE ~ok
  <2>1. /\ replay'[c].taken = p.taken
        /\ ToSet(replay'[c].remaining) = ToSet(p.remaining) \cup {Row(c)}
        /\ Distinct(p.remaining) /\ Row(c) \notin ToSet(p.remaining)
              => Distinct(replay'[c].remaining)
    BY <1>2, <1>3, <1>6, <1>8, LastLine DEF AfterRow, Kept
  <2>2. Asked'
    BY <1>2, <1>3, <1>4, <1>5 DEF IInv, Asked, Client, Open
  <2>3. Inserted'
    BY <1>2, <1>3, <1>4, <2>1 DEF IInv, Inserted, Client, Stored
  <2>4. Alone'
    <3>1. ~overlapped => Carries(replay[c])
      BY <1>2 DEF IInv, Alone, Open
    <3>2. ~overlapped => Carries(replay[c])'
      BY <1>2, <1>6, <2>1, <3>1 DEF Carries
    <3> QED
      BY <1>2, <1>5, <3>2 DEF IInv, Alone, Carries
  <2>5. NothingIsLost'
    BY <1>2 DEF IInv, NothingIsLost, Stored, Spooled
  <2>6. Copies'
    <3> SUFFICES ASSUME mode = "db", ~overlapped, NEW e \in Event \ doubtful' PROVE Clean(e)'
      BY <1>2 DEF Copies
    <3>1. Clean(e) /\ late'[e] = late[e] /\ table' = table /\ Carries(p)
      BY <1>2 DEF IInv, Copies, AfterAnswer, Alone, Open
    <3>2. e \in Client /\ e # c /\ request'[e] = request[e]
      BY <1>2, <1>4 DEF Client
    <3>3. Row(c) = e => table[e] = 0
      BY <1>8 DEF AfterAnswer, Justified
    <3>4. \A r \in Replay : Passed(r, e) /\ Stored(e) => Passed(r, e)'
      <4> SUFFICES ASSUME NEW r \in Replay, Passed(r, e), Stored(e) PROVE Passed(r, e)'
        OBVIOUS
      <4>1. CASE r = c
        BY <2>1, <3>3, <4>1 DEF Passed, Stored
      <4>2. CASE r # c
        BY <1>2, <1>4, <4>2 DEF Passed, Client
      <4> QED
        BY <4>1, <4>2
    <3>5. \A r \in Replay : e \in ToSet(replay'[r].todo) =>
             table[e] = 0 \/ (request'[r] = "stored" /\ Row(r)' = e)
      <4> SUFFICES ASSUME NEW r \in Replay, e \in ToSet(replay'[r].todo)
                   PROVE  table[e] = 0 \/ (request'[r] = "stored" /\ Row(r)' = e)
        OBVIOUS
      <4>1. CASE r = c
        BY <1>6, <3>1, <4>1 DEF Clean, Carries
      <4>2. CASE r # c
        BY <1>2, <1>4, <3>1, <4>2 DEF Clean, Client
      <4> QED
        BY <4>1, <4>2
    <3>6. \A r \in Replay : e \in ToSet(replay'[r].remaining) => table[e] = 0
      BY <1>2, <2>1, <3>1, <3>3 DEF Clean
    <3> QED
      BY <1>2, <1>5, <3>1, <3>2, <3>4, <3>5, <3>6 DEF Clean, Spooled, Stored
  <2> QED
    BY <1>1, <2>2, <2>3, <2>4, <2>5, <2>6 DEF IInv
<1> QED
  BY <1>7, <1>8

LEMMA AnswerKeeps ==
    ASSUME IInv, NEW c \in Client, NEW ok \in BOOLEAN, AfterAnswer(c, ok)
    PROVE  IInv'
BY EventAnswerKeeps, ReplayAnswerKeeps DEF Client

-----------------------------------------------------------------------------
(* The clients' actions.                                                   *)

LEMMA TakenKeeps == ASSUME IInv, NEW c \in Client, Taken(c) PROVE IInv'
<1>1. AfterAnswer(c, TRUE)
  <2>1. CanReturn(c)
    BY AskedCanReturn DEF IInv, Taken
  <2> QED
    BY <2>1, StateTyped DEF IInv, Taken, AfterAnswer, Justified, Inserted
<1> QED
  BY <1>1, AnswerKeeps

\* A row that was sent and not inserted has no copy, unless somebody is in doubt.
LEMMA SentIsFirst ==
    ASSUME IInv, NEW c \in Client, request[c] = "sent", mode = "db", ~overlapped,
           Row(c) \notin doubtful
    PROVE  table[Row(c)] = 0
<1>1. Row(c) \in Event /\ CanReturn(c)
  BY RowTyped, AskedCanReturn DEF IInv
<1>2. Clean(Row(c))
  BY <1>1 DEF IInv, Copies
<1>3. CASE c \in Event
  BY <1>1, <1>2, <1>3 DEF Clean, CanReturn, Row
<1>4. CASE c \in Replay
  <2>1. Row(c) \in ToSet(replay[c].todo)
    BY <1>1, <1>4, ReplayTyped, FirstLine, LedgerAssumption DEF IInv, CanReturn, Row
  <2> QED
    BY <1>2, <1>4, <2>1 DEF Clean
<1> QED
  BY <1>3, <1>4 DEF Client

LEMMA RefusedRowKeeps == ASSUME IInv, NEW c \in Client, RefusedRow(c) PROVE IInv'
<1>1. AfterAnswer(c, FALSE)
  <2>1. CanReturn(c)
    BY AskedCanReturn DEF IInv, RefusedRow
  <2>2. Justified(c, FALSE)
    BY SentIsFirst DEF RefusedRow, Justified
  <2>3. faults' \in 0 .. MaxFault
    BY StateTyped, LedgerAssumption DEF IInv, RefusedRow, Fault
  <2> QED
    BY <2>1, <2>2, <2>3, StateTyped DEF IInv, RefusedRow, AfterAnswer
<1> QED
  BY <1>1, AnswerKeeps

LEMMA TimedOutKeeps == ASSUME IInv, NEW c \in Client, TimedOut(c) PROVE IInv'
<1>1. AfterAnswer(c, FALSE)
  <2>1. CanReturn(c) /\ Row(c) \in Event
    BY AskedCanReturn, RowTyped DEF IInv, TimedOut
  <2>2. faults' \in 0 .. MaxFault
    BY StateTyped, LedgerAssumption DEF IInv, TimedOut, Fault
  <2>3. /\ late' \in [Event -> Nat] /\ doubtful' = doubtful \cup {Row(c)}
        /\ \A e \in Event \ doubtful' : late'[e] = late[e]
    BY <2>1, StateTyped DEF IInv, TimedOut
  <2> QED
    BY <2>1, <2>2, <2>3, StateTyped DEF IInv, TimedOut, AfterAnswer, Justified
<1> QED
  BY <1>1, AnswerKeeps

LEMMA PostRowKeeps == ASSUME IInv, NEW r \in Replay, PostRow(r) PROVE IInv'
<1>1. r \in Client /\ r \notin Event /\ CanReturn(r)
  BY LedgerAssumption DEF PostRow, Client, CanReturn
<1>2. CASE mode = "spool"
  <2>1. AfterAnswer(r, FALSE)
    BY <1>1, <1>2, StateTyped DEF IInv, PostRow, AfterAnswer, Justified
  <2> QED
    BY <1>1, <2>1, AnswerKeeps
<1>3. CASE mode # "spool"
  <2>1. /\ request' = [request EXCEPT ![r] = "sent"] /\ request[r] = "none"
        /\ UNCHANGED <<mode, recorder, replay, late, table, spool, replaying, faults,
                       doubtful, overlapped>>
    BY <1>3 DEF PostRow
  <2>2. request \in [Client -> {"none", "sent", "stored"}]
    BY StateTyped DEF IInv
  <2>3. TypeOK'
    BY <1>1, <2>1, <2>2 DEF IInv, TypeOK, PostRow, Client
  <2>4. Asked' /\ Inserted'
    BY <1>1, <2>1, <2>2 DEF IInv, Asked, Inserted, Client, Open, Row, Stored
  <2>5. Alone' /\ NothingIsLost'
    BY <2>1 DEF IInv, Alone, Carries, Open, NothingIsLost, Stored, Spooled
  <2>6. \A e \in Event : Clean(e) => Clean(e)'
    BY <1>1, <2>1, <2>2 DEF Clean, Passed, Open, Row, Spooled, Stored, Client
  <2> QED
    BY <2>1, <2>3, <2>4, <2>5, <2>6 DEF IInv, Copies
<1> QED
  BY <1>2, <1>3

LEMMA BeginKeeps == ASSUME IInv, NEW e \in Event, Begin(e) PROVE IInv'
<1>1. /\ e \in Client /\ e \notin Replay /\ recorder[e] = "unsaid"
      /\ UNCHANGED <<mode, replay, late, table, spool, replaying, faults, doubtful, overlapped>>
  BY LedgerAssumption DEF Begin, Client
<1>2. /\ request \in [Client -> {"none", "sent", "stored"}]
      /\ recorder \in [Event -> {"unsaid", "posting", "spooling", "recorded"}]
      /\ request[e] = "none"
  BY <1>1, StateTyped DEF IInv
<1>3. /\ recorder' = [recorder EXCEPT ![e] = recorder'[e]]
      /\ request' = [request EXCEPT ![e] = request'[e]]
      /\ \/ recorder'[e] = "spooling" /\ request'[e] = "none" /\ mode = "spool"
         \/ recorder'[e] = "posting" /\ request'[e] = "sent" /\ mode # "spool"
  BY <1>1, <1>2 DEF Begin
<1>4. TypeOK'
  <2>1. /\ request' \in [Client -> {"none", "sent", "stored"}]
        /\ recorder' \in [Event -> {"unsaid", "posting", "spooling", "recorded"}]
        /\ \A x \in Event : request'[x] # "none" => recorder'[x] = "posting"
    BY <1>1, <1>2, <1>3, StateTyped DEF IInv, Client
  <2>2. \A r \in Replay : request'[r] = request[r]
    BY <1>1, <1>2, <1>3 DEF Client
  <2> QED
    BY <1>1, <2>1, <2>2 DEF IInv, TypeOK
<1>5. Asked' /\ Inserted'
  BY <1>1, <1>2, <1>3 DEF IInv, Asked, Inserted, Client, Open, Row, Stored
<1>6. Alone' /\ NothingIsLost'
  BY <1>1, <1>2, <1>3, SpoolTyped DEF IInv, Alone, Carries, Open, NothingIsLost, Stored, Spooled
<1>7. \A x \in Event : Clean(x) => Clean(x)'
  BY <1>1, <1>2, <1>3 DEF Clean, Passed, Open, Row, Spooled, Stored, Client
<1> QED
  BY <1>1, <1>4, <1>5, <1>6, <1>7 DEF IInv, Copies

LEMMA AppendLineKeeps == ASSUME IInv, NEW e \in Event, AppendLine(e) PROVE IInv'
<1>1. /\ recorder[e] = "spooling" /\ recorder' = [recorder EXCEPT ![e] = "recorded"]
      /\ spool' = [exists |-> TRUE, lines |-> Append(spool.lines, e)]
      /\ overlapped' = (overlapped \/ \E r \in Replay : Open(r))
      /\ UNCHANGED <<mode, replay, request, late, table, replaying, faults, doubtful>>
  BY DEF AppendLine
<1>2. /\ recorder \in [Event -> {"unsaid", "posting", "spooling", "recorded"}]
      /\ overlapped \in BOOLEAN /\ ToSet(spool.lines) \subseteq Event
      /\ spool'.lines = Append(spool.lines, e) /\ spool'.lines \in Lines
      /\ ToSet(spool'.lines) = ToSet(spool.lines) \cup {e}
      /\ Distinct(spool.lines) /\ e \notin ToSet(spool.lines) => Distinct(spool'.lines)
  BY <1>1, StateTyped, SpoolTyped, LastLine DEF IInv
<1>3. /\ \A x \in Event : x # e => recorder'[x] = recorder[x]
      /\ recorder'[e] = "recorded" /\ recorder' \in [Event -> {"unsaid", "posting", "spooling", "recorded"}]
  BY <1>1, <1>2
<1>4. TypeOK'
  <2>1. overlapped' \in BOOLEAN /\ spool' \in [exists : BOOLEAN, lines : Lines]
    BY <1>1, <1>2
  <2>2. \A x \in Event : request[x] # "none" => recorder'[x] = "posting"
    BY <1>1, <1>3, StateTyped DEF IInv
  <2> QED
    BY <1>1, <1>3, <2>1, <2>2 DEF IInv, TypeOK
<1>5. Asked' /\ Inserted'
  BY <1>1, <1>2, <1>3 DEF IInv, Asked, Inserted, Open, Row, Stored
<1>6. ~overlapped' => ~overlapped /\ \A r \in Replay : ~Open(r) /\ ~Open(r)'
  BY <1>1 DEF Open
<1>7. Alone'
  BY <1>1, <1>2, <1>3, <1>6 DEF IInv, Alone
<1>8. NothingIsLost'
  BY <1>1, <1>2, <1>3 DEF IInv, NothingIsLost, Stored, Spooled
<1>9. Copies'
  <2> SUFFICES ASSUME mode = "db", ~overlapped', NEW x \in Event \ doubtful PROVE Clean(x)'
    BY <1>1 DEF Copies
  <2>1. Clean(x)
    BY <1>6 DEF IInv, Copies
  <2>2. Stored(x) => x # e /\ ~Spooled(x)
    BY <1>1, <1>6, <2>1 DEF Clean, Stored
  <2>3. ~(Spooled(x) /\ Stored(x))'
    BY <1>1, <1>2, <2>2 DEF Spooled, Stored
  <2> QED
    BY <1>1, <1>3, <2>1, <2>3 DEF Clean, Row
<1> QED
  BY <1>4, <1>5, <1>7, <1>8, <1>9 DEF IInv

LEMMA ReadSpoolKeeps == ASSUME IInv, NEW r \in Replay, ReadSpool(r) PROVE IInv'
<1> DEFINE p == [IdleReplay EXCEPT !.pc = "rows", !.todo = spool.lines]
<1>1. /\ replay' = [replay EXCEPT ![r] = p] /\ ~Open(r)
      /\ overlapped' = (overlapped \/ \E q \in Replay : Open(q))
      /\ UNCHANGED <<mode, recorder, request, late, table, spool, replaying, faults, doubtful>>
  <2>1. replay[r] = IdleReplay
    BY DEF IInv, Asked, ReadSpool
  <2> QED
    BY <2>1 DEF ReadSpool
<1>2. /\ spool.lines \in Lines /\ overlapped \in BOOLEAN
      /\ request \in [Client -> {"none", "sent", "stored"}]
  BY StateTyped DEF IInv
<1>3. /\ p \in ReplayState /\ p.pc = "rows" /\ p.todo = spool.lines
      /\ p.remaining = <<>> /\ p.taken = {}
  BY <1>2, IdleReplayTyped DEF ReplayState, IdleReplay
<1>4. /\ replay' \in [Replay -> ReplayState] /\ replay'[r] = p
      /\ \A q \in Replay : q # r => replay'[q] = replay[q]
  BY <1>1, <1>3, OneReplay DEF IInv
<1> HIDE DEF p
<1>5. request[r] = "none" /\ r \notin Event
  BY <1>1, ReplayTyped, LedgerAssumption DEF IInv, Open
<1>6. TypeOK'
  <2>1. \A q \in Replay : request[q] # "none" => replay'[q].pc = "rows" /\ replay'[q].todo # <<>>
    BY <1>4, <1>5, ReplayTyped DEF IInv
  <2>2. overlapped' \in BOOLEAN
    BY <1>1, <1>2
  <2> QED
    BY <1>1, <1>4, <2>1, <2>2 DEF IInv, TypeOK, ReplayState
<1>7. \A c \in Client : request[c] # "none" => Row(c)' = Row(c)
  BY <1>1, <1>4, <1>5, LedgerAssumption DEF Row, Client
<1>8. Asked' /\ Inserted'
  BY <1>1, <1>3, <1>4, <1>5, <1>7 DEF IInv, Asked, Inserted, Open, Stored
<1>9. ~overlapped' => ~overlapped /\ \A q \in Replay : ~Open(q) /\ (Open(q)' => q = r)
  BY <1>1, <1>4 DEF Open
<1>10. Alone' /\ NothingIsLost'
  <2>1. ~overlapped' => Carries(replay[r])'
    BY <1>1, <1>3, <1>4, <1>9, NoLineAtAll DEF IInv, Alone, Carries
  <2> QED
    BY <1>1, <1>4, <1>9, <2>1 DEF IInv, Alone, NothingIsLost, Stored, Spooled, Carries
<1>11. Copies'
  <2> SUFFICES ASSUME mode = "db", ~overlapped', NEW e \in Event \ doubtful PROVE Clean(e)'
    BY <1>1 DEF Copies
  <2>1. Clean(e) /\ ~(Spooled(e) /\ Stored(e))
    BY <1>9 DEF IInv, Copies, Clean
  <2>2. e \in ToSet(p.todo) => table[e] = 0
    BY <1>2, <1>3, <2>1, StateTyped DEF Spooled, Stored, IInv
  <2>3. e \notin ToSet(p.remaining)
    BY <1>3, NoLineAtAll
  <2>4. \A q \in Replay : request[q] = "stored" => Row(q)' = Row(q)
    BY <1>7 DEF Client
  <2> QED
    BY <1>1, <1>4, <2>1, <2>2, <2>3, <2>4 DEF Clean, Spooled, Stored
<1> QED
  BY <1>6, <1>8, <1>10, <1>11 DEF IInv

LEMMA WriteRemainingKeeps == ASSUME IInv, NEW r \in Replay, WriteRemaining(r) PROVE IInv'
<1> DEFINE p == [replay[r] EXCEPT !.pc = "replace"]
<1>1. /\ replay[r].pc = "rows" /\ replay[r].todo = <<>> /\ Open(r)
      /\ replay' = [replay EXCEPT ![r] = p]
      /\ replaying' = [exists |-> TRUE, lines |-> replay[r].remaining]
      /\ UNCHANGED <<mode, recorder, request, late, table, spool, faults, doubtful, overlapped>>
  BY DEF WriteRemaining, Open
<1>2. /\ p \in ReplayState /\ p.pc = "replace" /\ p.todo = replay[r].todo
      /\ p.remaining = replay[r].remaining /\ p.taken = replay[r].taken
  <2>1. replay[r] \in ReplayState
    BY DEF IInv, TypeOK, ReplayState
  <2> QED
    BY <2>1 DEF ReplayState
<1>3. /\ replay' \in [Replay -> ReplayState] /\ replay'[r] = p
      /\ \A q \in Replay : q # r => replay'[q] = replay[q]
  BY <1>1, <1>2, OneReplay DEF IInv
<1> HIDE DEF p
<1>4. /\ request[r] = "none" /\ replay[r].remaining \in Lines
      /\ \A q \in Replay : Open(q)' = Open(q) /\ Row(q)' = Row(q)
      /\ \A q \in Client : Row(q)' = Row(q)
  BY <1>1, <1>2, <1>3, ReplayTyped DEF IInv, Open, Row, Client
<1>5. TypeOK'
  <2>1. \A q \in Replay : request[q] # "none" => replay'[q].pc = "rows" /\ replay'[q].todo # <<>>
    BY <1>3, <1>4, ReplayTyped DEF IInv
  <2>2. replaying' \in [exists : BOOLEAN, lines : Lines]
    BY <1>1, <1>4
  <2> QED
    BY <1>1, <1>3, <2>1, <2>2 DEF IInv, TypeOK, ReplayState
<1>6. Asked' /\ Inserted'
  BY <1>1, <1>2, <1>3, <1>4 DEF IInv, Asked, Inserted, Stored
<1>7. Alone' /\ NothingIsLost'
  <2>1. ~overlapped => Carries(replay[r])
    BY <1>1 DEF IInv, Alone
  <2>2. ~overlapped => Carries(replay[r])'
    BY <1>1, <1>2, <1>3, <2>1 DEF Carries
  <2> QED
    BY <1>1, <1>3, <1>4, <2>2 DEF IInv, Alone, NothingIsLost, Stored, Spooled, Carries
<1>8. \A e \in Event : Clean(e) => Clean(e)'
  BY <1>1, <1>2, <1>3, <1>4 DEF Clean, Passed, Spooled, Stored
<1> QED
  BY <1>1, <1>5, <1>6, <1>7, <1>8 DEF IInv, Copies

\* A replay ends, or is killed.
LEMMA ReplayEnds ==
    ASSUME IInv, NEW r \in Replay, replay' = [replay EXCEPT ![r] = IdleReplay]
    PROVE  /\ replay' \in [Replay -> ReplayState]
           /\ replay'[r] = IdleReplay /\ ~Open(r)'
           /\ \A q \in Replay : q # r => replay'[q] = replay[q] /\ Open(q)' = Open(q)
           /\ \A q \in Client : q # r => Row(q)' = Row(q)
<1>1. /\ replay' \in [Replay -> ReplayState] /\ replay'[r] = IdleReplay
      /\ \A q \in Replay : q # r => replay'[q] = replay[q]
  BY OneReplay, IdleReplayTyped DEF IInv
<1> QED
  BY <1>1, IdleReplayTyped DEF Open, Row, Client

LEMMA ReplaceSpoolKeeps == ASSUME IInv, NEW r \in Replay, ReplaceSpool(r) PROVE IInv'
<1>1. /\ replay[r].pc = "replace" /\ Open(r) /\ replay' = [replay EXCEPT ![r] = IdleReplay]
      /\ \/ replaying.exists /\ spool' = replaying /\ replaying' = NoLines
         \/ ~replaying.exists /\ spool' = spool /\ replaying' = replaying
      /\ UNCHANGED <<mode, recorder, request, late, table, faults, doubtful, overlapped>>
  BY DEF ReplaceSpool, Open
<1>2. /\ replay' \in [Replay -> ReplayState]
      /\ replay'[r] = IdleReplay /\ ~Open(r)' /\ request[r] = "none" /\ r \notin Event
      /\ \A q \in Replay : q # r => replay'[q] = replay[q] /\ Open(q)' = Open(q)
      /\ \A q \in Client : q # r => Row(q)' = Row(q)
  BY <1>1, ReplayEnds, ReplayTyped, LedgerAssumption DEF IInv
<1>3. TypeOK'
  <2>1. \A q \in Replay : request[q] # "none" => replay'[q].pc = "rows" /\ replay'[q].todo # <<>>
    BY <1>2, ReplayTyped DEF IInv
  <2>2. NoLines \in [exists : BOOLEAN, lines : Lines]
    BY NoLineAtAll DEF NoLines
  <2>3. spool' \in [exists : BOOLEAN, lines : Lines] /\ replaying' \in [exists : BOOLEAN, lines : Lines]
    BY <1>1, <2>2 DEF IInv, TypeOK
  <2> QED
    BY <1>1, <1>2, <2>1, <2>3 DEF IInv, TypeOK, ReplayState
<1>4. Asked' /\ Inserted'
  BY <1>1, <1>2, IdleReplayTyped DEF IInv, Asked, Inserted, Stored
<1>5. ~overlapped =>
         /\ \A q \in Replay : q # r => ~Open(q)
         /\ Carries(replay[r]) /\ spool'.lines = replay[r].remaining
         /\ ToSet(replay[r].todo) = {}
  BY <1>1, NoLineAtAll DEF IInv, Alone, Carries
<1>6. Alone'
  BY <1>1, <1>2, <1>5 DEF IInv, Alone, Carries
<1>7. NothingIsLost'
  BY <1>1, <1>5 DEF IInv, NothingIsLost, Inserted, Stored, Spooled, Carries
<1>8. Copies'
  <2> SUFFICES ASSUME mode = "db", ~overlapped, NEW e \in Event \ doubtful PROVE Clean(e)'
    BY <1>1 DEF Copies
  <2>1. Clean(e) /\ table[e] \in Nat
    BY StateTyped DEF IInv, Copies
  <2>2. e \in ToSet(spool'.lines) => table[e] = 0
    BY <1>5, <2>1 DEF Clean
  <2>3. \A q \in Replay : /\ e \in ToSet(replay'[q].remaining) => table[e] = 0
                          /\ e \in ToSet(replay'[q].todo) =>
                                 table[e] = 0 \/ (request[q] = "stored" /\ Row(q)' = e)
    BY <1>2, <2>1, IdleReplayTyped, NoLineAtAll DEF Clean, Client
  <2>4. ~(Spooled(e) /\ Stored(e))'
    BY <1>1, <2>2 DEF Spooled, Stored
  <2> QED
    BY <1>1, <2>1, <2>3, <2>4 DEF Clean
<1> QED
  BY <1>3, <1>4, <1>6, <1>7, <1>8 DEF IInv

LEMMA KillReplayKeeps == ASSUME IInv, NEW r \in Replay, KillReplay(r) PROVE IInv'
<1>1. /\ Open(r) /\ replay' = [replay EXCEPT ![r] = IdleReplay]
      /\ request' = [request EXCEPT ![r] = "none"]
      /\ doubtful' = doubtful \cup replay[r].taken
                              \cup (IF request[r] = "none" THEN {} ELSE {Row(r)})
      /\ UNCHANGED <<mode, recorder, table, spool, replaying, overlapped>>
      /\ r \in Client /\ r \notin Event
  BY LedgerAssumption DEF KillReplay, Client
<1>2. /\ replay' \in [Replay -> ReplayState]
      /\ replay'[r] = IdleReplay /\ ~Open(r)'
      /\ \A q \in Replay : q # r => replay'[q] = replay[q] /\ Open(q)' = Open(q)
      /\ \A q \in Client : q # r => Row(q)' = Row(q)
  BY <1>1, ReplayEnds
<1>3. /\ request \in [Client -> {"none", "sent", "stored"}] /\ late \in [Event -> Nat]
      /\ request' \in [Client -> {"none", "sent", "stored"}] /\ request'[r] = "none"
      /\ \A q \in Client : q # r => request'[q] = request[q]
      /\ request[r] # "none" => Row(r) \in Event
  BY <1>1, StateTyped, RowTyped DEF IInv
<1>4. /\ late' \in [Event -> Nat]
      /\ \A e \in Event \ doubtful' : late'[e] = late[e]
  BY <1>1, <1>3 DEF KillReplay
<1>5. TypeOK'
  <2>1. faults' \in 0 .. MaxFault
    BY StateTyped, LedgerAssumption DEF IInv, KillReplay, Fault
  <2>2. \A q \in Replay : request'[q] # "none" => replay'[q].pc = "rows" /\ replay'[q].todo # <<>>
    BY <1>2, <1>3, ReplayTyped DEF IInv, Client
  <2>3. doubtful' \subseteq Event
    BY <1>1, <1>3, StateTyped, ReplayTyped DEF IInv
  <2>4. \A e \in Event : request'[e] # "none" => recorder[e] = "posting"
    BY <1>1, <1>3, StateTyped DEF IInv, Client
  <2> QED
    BY <1>1, <1>2, <1>3, <1>4, <2>1, <2>2, <2>3, <2>4 DEF IInv, TypeOK, ReplayState
<1>6. Asked' /\ Inserted'
  BY <1>1, <1>2, <1>3, IdleReplayTyped DEF IInv, Asked, Inserted, Stored, Client
<1>7. Alone' /\ NothingIsLost'
  BY <1>1, <1>2 DEF IInv, Alone, Carries, NothingIsLost, Stored, Spooled
<1>8. Copies'
  <2> SUFFICES ASSUME mode = "db", ~overlapped, NEW e \in Event \ doubtful' PROVE Clean(e)'
    BY <1>1 DEF Copies
  <2>1. Clean(e) /\ late'[e] = late[e] /\ request'[e] = request[e]
    BY <1>1, <1>3, <1>4 DEF IInv, Copies, Client
  <2>2. ~Passed(r, e)
    BY <1>1 DEF Passed
  <2>3. \A q \in Replay : q # r => ~Open(q)
    BY <1>1 DEF IInv, Alone
  <2>4. ~(Spooled(e) /\ Stored(e))
    BY <2>1, <2>2, <2>3 DEF Clean
  <2>5. \A q \in Replay : /\ e \in ToSet(replay'[q].remaining) => table[e] = 0
                          /\ e \in ToSet(replay'[q].todo) =>
                                 table[e] = 0 \/ (request'[q] = "stored" /\ Row(q)' = e)
    BY <1>2, <1>3, <2>1, IdleReplayTyped, NoLineAtAll DEF Clean, Client
  <2> QED
    BY <1>1, <2>1, <2>4, <2>5 DEF Clean, Spooled, Stored, KillReplay
<1> QED
  BY <1>5, <1>6, <1>7, <1>8 DEF IInv

-----------------------------------------------------------------------------
(* The server's actions.                                                   *)

LEMMA InsertKeeps == ASSUME IInv, NEW c \in Client, Insert(c) PROVE IInv'
<1>1. /\ request[c] = "sent" /\ request' = [request EXCEPT ![c] = "stored"]
      /\ table' = [table EXCEPT ![Row(c)] = @ + 1]
      /\ UNCHANGED <<mode, recorder, replay, late, spool, replaying, faults, doubtful, overlapped>>
  BY DEF Insert, log_event
<1>2. /\ request \in [Client -> {"none", "sent", "stored"}] /\ table \in [Event -> Nat]
      /\ Row(c) \in Event
  BY <1>1, StateTyped, RowTyped DEF IInv
<1>3. /\ table' \in [Event -> Nat] /\ request' \in [Client -> {"none", "sent", "stored"}]
      /\ \A e \in Event : Stored(e) => Stored(e)'
      /\ Stored(Row(c))'
      /\ \A q \in Client : Row(q)' = Row(q)
  BY <1>1, <1>2 DEF Stored, Row
<1>4. TypeOK'
  <2>1. /\ \A e \in Event : request'[e] # "none" => recorder[e] = "posting"
        /\ \A r \in Replay : request'[r] # "none" => replay[r].pc = "rows" /\ replay[r].todo # <<>>
    BY <1>1, <1>2, StateTyped, ReplayTyped DEF IInv, Client
  <2> QED
    BY <1>1, <1>3, <2>1 DEF IInv, TypeOK
<1>5. Asked'
  BY <1>1, <1>2 DEF IInv, Asked, Client, Open
<1>6. Inserted'
  <2>1. \A q \in Client : request'[q] = "stored" => Stored(Row(q))'
    BY <1>1, <1>2, <1>3, RowTyped DEF IInv, Inserted
  <2>2. \A r \in Replay : \A e \in replay[r].taken : Stored(e)'
    BY <1>3, ReplayTyped DEF IInv, Inserted
  <2> QED
    BY <1>1, <1>3, <2>1, <2>2 DEF Inserted
<1>7. Alone' /\ NothingIsLost'
  BY <1>1, <1>3 DEF IInv, Alone, Carries, Open, NothingIsLost, Spooled
<1>8. Copies'
  <2> SUFFICES ASSUME mode = "db", ~overlapped, NEW e \in Event \ doubtful PROVE Clean(e)'
    BY <1>1 DEF Copies
  <2>1. Clean(e)
    BY DEF IInv, Copies
  <2>2. CASE e # Row(c)
    <3>1. /\ table'[e] = table[e]
          /\ request'[e] = request[e] \/ (e = c /\ request'[e] = "stored")
      BY <1>1, <1>2, <2>2 DEF Client
    <3>2. \A r \in Replay : request[r] = "stored" => request'[r] = "stored"
      BY <1>1, <1>2 DEF Client
    <3> QED
      BY <1>1, <1>3, <2>1, <3>1, <3>2 DEF Clean, Open, Passed, Spooled, Stored, Client
  <2>3. CASE e = Row(c)
    <3>1. table[e] = 0 /\ table'[e] = 1
      BY <1>1, <1>2, <2>3, SentIsFirst
    <3>2. CASE c \in Event
      <4>1. /\ e = c /\ recorder[e] = "posting" /\ request'[e] = "stored" /\ ~Spooled(e)
        BY <1>1, <1>2, <2>3, <3>2, StateTyped DEF IInv, Alone, Spooled, Row
      <4>2. \A r \in Replay : e \notin ToSet(replay[r].todo) \cup ToSet(replay[r].remaining)
        <5> SUFFICES ASSUME NEW r \in Replay PROVE e \notin ToSet(replay[r].todo) \cup ToSet(replay[r].remaining)
          OBVIOUS
        <5>1. CASE Open(r)
          BY <4>1, <5>1 DEF IInv, Alone, Carries, Spooled
        <5>2. CASE ~Open(r)
          BY <5>2, IdleReplayTyped, NoLineAtAll DEF IInv, Asked
        <5> QED
          BY <5>1, <5>2
      <4> QED
        BY <1>1, <2>1, <3>1, <4>1, <4>2 DEF Clean, Spooled
    <3>3. CASE c \in Replay
      <4>1. /\ replay[c].pc = "rows" /\ replay[c].todo # <<>> /\ Open(c)
            /\ e = Head(replay[c].todo) /\ Carries(replay[c])
        BY <1>1, <2>3, <3>3, ReplayTyped, LedgerAssumption DEF IInv, Open, Row, Alone
      <4>2. /\ e \in ToSet(replay[c].todo) /\ e \notin ToSet(replay[c].remaining)
            /\ recorder[e] = "recorded"
        BY <3>3, <4>1, ReplayTyped, FirstLine DEF IInv, Alone, Carries
      <4>3. Open(c)' /\ Passed(c, e)'
        BY <1>1, <1>2, <1>3, <2>3, <4>1 DEF Open, Passed
      <4>4. \A r \in Replay : r # c => replay[r] = IdleReplay
        BY <3>3, <4>1 DEF IInv, Alone, Asked
      <4>5. \A r \in Replay : e \notin ToSet(replay[r].remaining)
        BY <4>2, <4>4, IdleReplayTyped, NoLineAtAll
      <4>6. \A r \in Replay : e \in ToSet(replay[r].todo) => r = c
        BY <4>4, IdleReplayTyped, NoLineAtAll
      <4>7. request'[c] = "stored" /\ Row(c)' = e
        BY <1>1, <1>2, <1>3, <2>3
      <4> QED
        BY <1>1, <2>1, <3>1, <3>3, <4>2, <4>3, <4>5, <4>6, <4>7 DEF Clean
    <3> QED
      BY <3>2, <3>3 DEF Client
  <2> QED
    BY <2>2, <2>3
<1> QED
  BY <1>4, <1>5, <1>6, <1>7, <1>8 DEF IInv

LEMMA InsertLateKeeps == ASSUME IInv, NEW e \in Event, InsertLate(e) PROVE IInv'
<1>1. /\ late[e] > 0 /\ late' = [late EXCEPT ![e] = @ - 1]
      /\ table' = [table EXCEPT ![e] = @ + 1] \/ table' = table
      /\ UNCHANGED <<mode, recorder, replay, request, spool, replaying, faults, doubtful, overlapped>>
  BY DEF InsertLate, log_event
<1>2. late \in [Event -> Nat] /\ table \in [Event -> Nat]
  BY StateTyped DEF IInv
<1>3. /\ late' \in [Event -> Nat] /\ table' \in [Event -> Nat]
      /\ \A x \in Event : Stored(x) => Stored(x)'
      /\ \A x \in Event : x # e => table'[x] = table[x] /\ late'[x] = late[x]
      /\ \A q \in Client : Row(q)' = Row(q)
  BY <1>1, <1>2 DEF Stored, Row
<1>4. TypeOK'
  BY <1>1, <1>3 DEF IInv, TypeOK
<1>5. Asked'
  BY <1>1 DEF IInv, Asked, Open
<1>6. Inserted'
  BY <1>1, <1>3, RowTyped, ReplayTyped DEF IInv, Inserted
<1>7. Alone' /\ NothingIsLost'
  BY <1>1, <1>3 DEF IInv, Alone, Carries, Open, NothingIsLost, Spooled
<1>8. Copies'
  <2> SUFFICES ASSUME mode = "db", ~overlapped, NEW x \in Event \ doubtful PROVE Clean(x)'
    BY <1>1 DEF Copies
  <2>1. Clean(x) /\ late[x] = 0
    BY DEF IInv, Copies, Clean
  <2>2. x # e
    BY <1>1, <1>2, <2>1
  <2> QED
    BY <1>1, <1>3, <2>1, <2>2 DEF Clean, Open, Passed, Spooled, Stored, Client
<1> QED
  BY <1>4, <1>5, <1>6, <1>7, <1>8 DEF IInv

-----------------------------------------------------------------------------
(* The specification.                                                      *)

LEMMA InitIInv == Init => IInv
<1> SUFFICES ASSUME Init PROVE IInv
  OBVIOUS
<1> USE DEF Init
<1>1. \A r \in Replay : replay[r] = IdleReplay /\ ~Open(r)
  BY IdleReplayTyped DEF Open
<1>2. spool.lines = <<>> /\ ToSet(spool.lines) = {} /\ Distinct(spool.lines) /\ <<>> \in Lines
  BY NoLineAtAll DEF NoLines
<1>3. TypeOK
  <2>1. NoLines \in [exists : BOOLEAN, lines : Lines]
    BY NoLineAtAll DEF NoLines
  <2>2. replay \in [Replay -> ReplayState]
    BY IdleReplayTyped
  <2>3. \A c \in Client : request[c] = "none"
    OBVIOUS
  <2>4. /\ request \in [Client -> {"none", "sent", "stored"}]
        /\ recorder \in [Event -> {"unsaid", "posting", "spooling", "recorded"}]
        /\ late \in [Event -> Nat] /\ table \in [Event -> Nat]
        /\ faults \in 0 .. MaxFault
    BY LedgerAssumption
  <2> QED
    BY <2>1, <2>2, <2>3, <2>4 DEF TypeOK, ReplayState, Client
<1>4. Asked /\ Inserted
  BY <1>1, IdleReplayTyped DEF Asked, Inserted, Client
<1>5. Alone /\ NothingIsLost
  BY <1>1, <1>2 DEF Alone, NothingIsLost
<1>6. Copies
  BY <1>1, <1>2, IdleReplayTyped, NoLineAtAll DEF Copies, Clean, Stored, Spooled, Client
<1> QED
  BY <1>3, <1>4, <1>5, <1>6 DEF IInv

LEMMA NextIInv == IInv /\ [Next]_vars => IInv'
<1> SUFFICES ASSUME IInv, [Next]_vars PROVE IInv'
  OBVIOUS
<1>1. CASE \E c \in Client : Progress(c) \/ Fails(c)
  BY <1>1, InsertKeeps, TakenKeeps, RefusedRowKeeps, TimedOutKeeps DEF Progress, Fails
<1>2. CASE \E e \in Event : Begin(e) \/ Recording(e) \/ InsertLate(e)
  BY <1>2, BeginKeeps, AppendLineKeeps, InsertLateKeeps DEF Recording
<1>3. CASE \E r \in Replay : ReadSpool(r) \/ Replaying(r) \/ KillReplay(r)
  BY <1>3, ReadSpoolKeeps, PostRowKeeps, WriteRemainingKeeps, ReplaceSpoolKeeps,
     KillReplayKeeps DEF Replaying
<1>4. CASE UNCHANGED vars
  <2> USE <1>4 DEF vars
  <2>1. TypeOK'
    BY DEF IInv, TypeOK
  <2>2. Asked' /\ Inserted'
    BY DEF IInv, Asked, Inserted, Open, Row, Stored
  <2>3. Alone' /\ NothingIsLost'
    BY DEF IInv, Alone, Carries, Open, NothingIsLost, Stored, Spooled
  <2>4. \A e \in Event : Clean(e) => Clean(e)'
    BY DEF Clean, Passed, Open, Row, Stored, Spooled
  <2> QED
    BY <2>1, <2>2, <2>3, <2>4 DEF IInv, Copies
<1> QED
  BY <1>1, <1>2, <1>3, <1>4 DEF Next

LEMMA LedgerInvariant == Spec => []IInv
BY InitIInv, NextIInv, PTL DEF Spec

\* The variables stay in their types, and a client that waits has a row it waits for.
THEOREM TypeCorrect == Spec => []TypeOK
BY LedgerInvariant, PTL DEF IInv

\* Without overlap, a recorded event is in the table or in the spool (append_event,
\* replay_spool).
THEOREM RecordedIsKept == Spec => []NothingIsLost
BY LedgerInvariant, PTL DEF IInv

\* With the default sink, a second row comes from a cut POST or from overlap.
THEOREM SecondRowHasACause == Spec => []SecondRowIsDoubtful
<1>1. IInv => SecondRowIsDoubtful
  <2> SUFFICES ASSUME IInv, mode = "db", NEW e \in Event, table[e] > 1,
                      e \notin doubtful, ~overlapped
               PROVE  FALSE
    BY DEF SecondRowIsDoubtful
  <2>1. Clean(e) /\ table[e] \in Nat
    BY StateTyped DEF IInv, Copies
  <2> QED
    BY <2>1 DEF Clean
<1> QED
  BY <1>1, LedgerInvariant, PTL

=============================================================================
