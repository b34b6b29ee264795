-------------------------- MODULE ClaimStoreProofs --------------------------
(***************************************************************************)
(* The claim table for any notes, slots, values and concurrent calls: type *)
(* correctness with the primary key, SealsHold, and which rows of a slot   *)
(* are current (OldFactsAreSealed, ItemsKept).                             *)
(*                                                                         *)
(* A statement that unseals picks rows of live notes only, so a retired    *)
(* note's seals could be lost in one way: an insert whose key meets a      *)
(* sealed row rewrites it.  DiskInv, FileInv and RowsInv exclude that: a   *)
(* file's mtime belongs to one note and one content, so such an insert     *)
(* writes what is there.                                                   *)
(*                                                                         *)
(* SlotInv, second, is about one slot: under one kind, with each note's    *)
(* rows in the order of its writes, an insert adds the note's latest row,  *)
(* and every flip of seals leaves the slot as it must be.                  *)
(***************************************************************************)
EXTENDS ClaimStore, WellFoundedInduction, TLAPS

\* The row states what note n, with these claims, says in the row's slot.
Matches(r, n, claims) ==
    r.path = n /\ claims[r.slot] = [kind |-> r.kind, value |-> r.value]

\* An ingest that has a file holds it to the end; its document carries the
\* file's mtime from upsert_document on; it writes only slots the file claims.
IngestInv ==
    /\ ingest.pc # "idle" => ingest.file \in File
    /\ ingest.pc \notin {"idle", "document"} =>
          /\ doc[ingest.note] = ingest.file.mtime
          /\ \A s \in ingest.left : ingest.file.claims[s] # NoClaim
    /\ ingest.pc \in {"insert", "seal", "unseal"} => ingest.slot \in ingest.left

\* The files in the vault have been written, each at a time of its own.
DiskInv ==
    \A n \in Note : disk[n] # NoFile =>
        /\ disk[n].mtime <= now
        /\ \A m \in Note : disk[m] # NoFile /\ disk[m].mtime = disk[n].mtime => m = n

\* The file being ingested is the one in the vault, or was.
FileInv ==
    ingest.pc # "idle" =>
        /\ ingest.file.mtime <= now
        /\ \A n \in Note : disk[n] # NoFile /\ disk[n].mtime = ingest.file.mtime =>
              n = ingest.note /\ disk[n] = ingest.file

\* A row with a file's mtime is that file's claim.
RowsInv ==
    \A r \in rows :
        /\ r.from <= now
        /\ \A n \in Note : disk[n] # NoFile /\ disk[n].mtime = r.from =>
              Matches(r, n, disk[n].claims)
        /\ ingest.pc # "idle" /\ ingest.file.mtime = r.from =>
              Matches(r, ingest.note, ingest.file.claims)

IInv == TypeOK /\ IngestInv /\ DiskInv /\ FileInv /\ RowsInv

-----------------------------------------------------------------------------
(* Sealing and unsealing rows changes nothing else about them.             *)

Flipped(rs, b) == (rows \ rs) \cup {[r EXCEPT !.sealed = b] : r \in rs}

LEMMA FlipKeepsRows ==
    ASSUME TypeOK, NEW rs \in SUBSET rows, NEW b \in BOOLEAN
    PROVE  /\ Flipped(rs, b) \in SUBSET Row
           /\ \A r, o \in Flipped(rs, b) : r.slot = o.slot /\ r.from = o.from => r = o
           /\ \A r \in Flipped(rs, b) : \E o \in rows :
                 /\ r.slot = o.slot /\ r.from = o.from /\ r.path = o.path
                 /\ r.kind = o.kind /\ r.value = o.value
<1>1. \A r \in rows : r \in Row
  BY DEF TypeOK
<1>2. \A r \in Flipped(rs, b) : r \in Row /\ \E o \in rows :
         /\ r.slot = o.slot /\ r.from = o.from /\ r.path = o.path
         /\ r.kind = o.kind /\ r.value = o.value
         /\ r = IF o \in rs THEN [o EXCEPT !.sealed = b] ELSE o
  BY <1>1 DEF Flipped, Row
<1>3. \A r, o \in rows : r.slot = o.slot /\ r.from = o.from => r = o
  BY DEF TypeOK
<1> QED
  BY <1>2, <1>3

LEMMA FlipKeepsSeals ==
    ASSUME TypeOK, NEW rs \in SUBSET rows, NEW b \in BOOLEAN,
           NEW r \in rows, r.sealed, b \/ r \notin rs
    PROVE  r \in Flipped(rs, b)
<1>1. CASE r \notin rs
  BY <1>1 DEF Flipped
<1>2. CASE r \in rs
  <2>1. r \in Row
    BY DEF TypeOK
  <2>2. r.sealed = TRUE /\ b = TRUE
    BY <1>2, <2>1 DEF Row
  <2>3. [r EXCEPT !.sealed = b] = r
    BY <2>1, <2>2 DEF Row
  <2> QED
    BY <1>2, <2>3 DEF Flipped
<1> QED
  BY <1>1, <1>2

\* A step that only flips seals, with the vault and the ingested file as they
\* were or the ingest ended, keeps what is said of rows.
LEMMA FlipInv ==
    ASSUME IInv, NEW rs \in SUBSET rows, NEW b \in BOOLEAN,
           rows' = Flipped(rs, b), UNCHANGED <<now, disk>>,
           \/ ingest'.pc = "idle"
           \/ ingest.pc # "idle" /\ ingest'.file = ingest.file /\ ingest'.note = ingest.note
    PROVE  /\ rows' \in SUBSET Row
           /\ (\A r, o \in rows : r.slot = o.slot /\ r.from = o.from => r = o)'
           /\ DiskInv' /\ FileInv' /\ RowsInv'
<1>1. TypeOK
  BY DEF IInv
<1>2. /\ rows' \in SUBSET Row
      /\ (\A r, o \in rows : r.slot = o.slot /\ r.from = o.from => r = o)'
  BY <1>1, FlipKeepsRows
<1>3. \A r \in rows' : \E o \in rows :
         /\ r.slot = o.slot /\ r.from = o.from /\ r.path = o.path
         /\ r.kind = o.kind /\ r.value = o.value
  BY <1>1, FlipKeepsRows
<1>4. DiskInv' /\ FileInv'
  BY DEF IInv, DiskInv, FileInv
<1>5. RowsInv'
  <2> SUFFICES ASSUME NEW r \in rows'
               PROVE  /\ r.from <= now
                      /\ \A n \in Note : disk[n] # NoFile /\ disk[n].mtime = r.from =>
                            Matches(r, n, disk[n].claims)
                      /\ ingest'.pc # "idle" /\ ingest'.file.mtime = r.from =>
                            Matches(r, ingest'.note, ingest'.file.claims)
    BY DEF RowsInv, Matches
  <2>1. PICK o \in rows : /\ r.slot = o.slot /\ r.from = o.from /\ r.path = o.path
                          /\ r.kind = o.kind /\ r.value = o.value
    BY <1>3
  <2> QED
    BY <2>1 DEF IInv, RowsInv, Matches
<1> QED
  BY <1>2, <1>4, <1>5

-----------------------------------------------------------------------------
(* The statements flip seals of rows that are there.                       *)

LEMMA SealingFlips == \A rs : Sealing(rs) = Flipped(rs, TRUE)
BY DEF Sealing, Flipped

LEMMA UnsealingFlips == \A rs : Unsealing(rs) = Flipped(rs, FALSE)
BY DEF Unsealing, Flipped

LEMMA IdleTyped == IngestIdle \in Ingest /\ RetireIdle \in Retire
                   /\ IngestIdle.pc = "idle" /\ IngestIdle.slot \in Slot
                   /\ RetireIdle.older \in Note
BY ConstantsAssumption DEF IngestIdle, RetireIdle, Ingest, Retire, IngestPc, RetirePc

\* Going on with the slots left ends the ingest or keeps its file.
LEMMA GoOnTyped ==
    ASSUME TypeOK, NEW left \in SUBSET Slot
    PROVE  /\ GoOn(left) \in Ingest
           /\ \/ GoOn(left).pc = "idle"
              \/ /\ GoOn(left).pc = "claims" /\ GoOn(left).left = left
                 /\ GoOn(left).file = ingest.file /\ GoOn(left).note = ingest.note
BY IdleTyped DEF GoOn, TypeOK, Ingest, IngestPc

LEMMA InitInv == Init => IInv
<1> SUFFICES ASSUME Init PROVE IInv
  OBVIOUS
<1>1. TypeOK
  BY IdleTyped, ConstantsAssumption DEF Init, TypeOK
<1>2. IngestInv /\ FileInv
  BY IdleTyped DEF Init, IngestInv, FileInv
<1>3. DiskInv /\ RowsInv
  BY DEF Init, DiskInv, RowsInv
<1> QED
  BY <1>1, <1>2, <1>3 DEF IInv

-----------------------------------------------------------------------------
(* The vault and the ingest.                                               *)

LEMMA EditInv ==
    ASSUME IInv, NEW n \in Note, Edit(n)
    PROVE  IInv'
<1> USE DEF IInv
<1>1. PICK c \in Claims : disk' = [disk EXCEPT ![n] = [claims |-> c, mtime |-> now + 1]]
  BY DEF Edit
<1>2. now < MaxTime /\ now' = now + 1 /\ now \in Nat /\ now' \in Time
  BY ConstantsAssumption DEF Edit, TypeOK, Time
<1>3. UNCHANGED <<doc, rows, edges, ingest, retire, cuts, unsealed>>
  BY DEF Edit
<1>4. disk' \in [Note -> File \cup {NoFile}]
  BY <1>1, <1>2 DEF TypeOK, File
<1>5. TypeOK'
  BY <1>2, <1>3, <1>4, ConstantsAssumption DEF TypeOK, Time
<1>6. \A m \in Note : disk[m] # NoFile => disk[m].mtime \in Nat /\ disk[m].mtime <= now
  BY DEF TypeOK, File, Time, DiskInv
<1>7. disk'[n].mtime = now + 1 /\ \A m \in Note \ {n} : disk'[m] = disk[m]
  BY <1>1 DEF TypeOK
<1>8. DiskInv'
  BY <1>2, <1>6, <1>7 DEF DiskInv
<1>9. IngestInv'
  BY <1>3 DEF IngestInv
<1>10. ingest.pc # "idle" => ingest.file.mtime \in Nat /\ ingest.file.mtime <= now
  BY DEF IngestInv, FileInv, File, Time
<1>11. FileInv'
  BY <1>2, <1>3, <1>7, <1>10 DEF FileInv
<1>12. \A r \in rows : r.from \in Nat /\ r.from <= now
  BY DEF RowsInv, TypeOK, Row, Time
<1>13. RowsInv'
  <2> SUFFICES ASSUME NEW r \in rows
               PROVE  /\ r.from <= now'
                      /\ \A m \in Note : disk'[m] # NoFile /\ disk'[m].mtime = r.from =>
                            Matches(r, m, disk'[m].claims)
                      /\ ingest.pc # "idle" /\ ingest.file.mtime = r.from =>
                            Matches(r, ingest.note, ingest.file.claims)
    BY <1>3 DEF RowsInv, Matches
  <2>1. r.from <= now' /\ r.from # now + 1
    BY <1>2, <1>12
  <2>2. ASSUME NEW m \in Note, disk'[m] # NoFile, disk'[m].mtime = r.from
        PROVE  Matches(r, m, disk'[m].claims)
    BY <1>7, <2>1, <2>2 DEF RowsInv
  <2> QED
    BY <2>1, <2>2 DEF RowsInv
<1> QED
  BY <1>5, <1>8, <1>9, <1>11, <1>13

LEMMA StartInv ==
    ASSUME IInv, NEW n \in Note, IngestStart(n)
    PROVE  IInv'
<1> USE DEF IInv
<1>1. UNCHANGED <<now, disk, doc, rows, edges, retire, cuts, unsealed>>
  BY DEF IngestStart, IngestUnchanged
<1>2. disk[n] # NoFile /\ disk[n] \in File
  BY DEF IngestStart, TypeOK
<1>3. /\ ingest' \in Ingest
      /\ ingest'.pc = "document" /\ ingest'.note = n /\ ingest'.file = disk[n]
  BY <1>2 DEF IngestStart, TypeOK, Ingest, IngestPc
<1>4. TypeOK'
  BY <1>1, <1>3 DEF TypeOK
<1>5. IngestInv'
  BY <1>2, <1>3 DEF IngestInv
<1>6. DiskInv' /\ FileInv'
  BY <1>1, <1>2, <1>3 DEF DiskInv, FileInv
<1>7. RowsInv'
  <2> SUFFICES ASSUME NEW r \in rows
               PROVE  /\ r.from <= now
                      /\ \A m \in Note : disk[m] # NoFile /\ disk[m].mtime = r.from =>
                            Matches(r, m, disk[m].claims)
                      /\ ingest'.file.mtime = r.from =>
                            Matches(r, ingest'.note, ingest'.file.claims)
    BY <1>1 DEF RowsInv, Matches
  <2> QED
    BY <1>2, <1>3 DEF RowsInv
<1> QED
  BY <1>4, <1>5, <1>6, <1>7

LEMMA DocumentInv ==
    ASSUME IInv, IngestDocument
    PROVE  IInv'
<1> USE DEF IInv
<1> DEFINE left == {s \in Slot : ingest.file.claims[s] # NoClaim}
<1>1. UNCHANGED <<now, disk, rows, edges, retire, cuts, unsealed>>
  BY DEF IngestDocument, IngestUnchanged
<1>2. ingest.pc = "document" /\ ingest' = GoOn(left)
      /\ doc' = [doc EXCEPT ![ingest.note] = ingest.file.mtime]
  BY DEF IngestDocument
<1>3. ingest.file \in File /\ ingest.note \in Note
  BY <1>2 DEF IngestInv, TypeOK, Ingest
<1>4. /\ ingest' \in Ingest
      /\ \/ ingest'.pc = "idle"
         \/ /\ ingest'.pc = "claims" /\ ingest'.left = left
            /\ ingest'.file = ingest.file /\ ingest'.note = ingest.note
  <2> left \in SUBSET Slot
    OBVIOUS
  <2> HIDE DEF left
  <2> QED
    BY <1>2, GoOnTyped
<1>5. doc' \in [Note -> Time \cup {NoDoc}] /\ doc'[ingest.note] = ingest.file.mtime
  BY <1>2, <1>3 DEF TypeOK, File
<1>6. TypeOK'
  BY <1>1, <1>4, <1>5 DEF TypeOK
<1>7. IngestInv'
  BY <1>3, <1>4, <1>5 DEF IngestInv
<1> HIDE DEF left
<1>8. DiskInv'
  BY <1>1 DEF DiskInv
<1>9. FileInv'
  BY <1>1, <1>2, <1>4 DEF FileInv
<1>10. RowsInv'
  BY <1>1, <1>2, <1>4 DEF RowsInv, Matches
<1> QED
  BY <1>6, <1>7, <1>8, <1>9, <1>10

LEMMA ProbeInv ==
    ASSUME IInv, NEW s \in Slot, IngestProbe(s)
    PROVE  IInv'
<1> USE DEF IInv
<1>1. UNCHANGED <<now, disk, doc, rows, edges, retire, cuts, unsealed>>
  BY DEF IngestProbe, IngestUnchanged
<1>2. ingest.pc = "claims" /\ s \in ingest.left /\ ingest.left \in SUBSET Slot
  BY DEF IngestProbe, TypeOK, Ingest
<1>3. /\ ingest' \in Ingest
      /\ \/ ingest'.pc = "idle"
         \/ /\ \/ ingest'.pc = "claims"
               \/ ingest'.pc = "insert" /\ ingest'.slot \in ingest'.left
            /\ ingest'.left \in SUBSET ingest.left
            /\ ingest'.file = ingest.file /\ ingest'.note = ingest.note
  <2>1. CASE ingest' = GoOn(ingest.left \ {s})
    <3> DEFINE left == ingest.left \ {s}
    <3>1. left \in SUBSET Slot /\ left \in SUBSET ingest.left /\ ingest' = GoOn(left)
      BY <1>2, <2>1
    <3> HIDE DEF left
    <3> QED
      BY <3>1, GoOnTyped
  <2>2. CASE ingest' = [ingest EXCEPT !.pc = "insert", !.slot = s]
    BY <1>2, <2>2 DEF TypeOK, Ingest, IngestPc
  <2> QED
    BY <2>1, <2>2 DEF IngestProbe
<1>4. TypeOK'
  BY <1>1, <1>3 DEF TypeOK
<1>5. IngestInv'
  BY <1>1, <1>2, <1>3 DEF IngestInv
<1>6. DiskInv'
  BY <1>1 DEF DiskInv
<1>7. FileInv'
  BY <1>1, <1>2, <1>3 DEF FileInv
<1>8. RowsInv'
  <2>1. RowsInv /\ UNCHANGED <<now, disk, rows>> /\ ingest.pc # "idle"
    BY <1>1, <1>2
  <2>2. \/ ingest'.pc = "idle"
        \/ ingest'.file = ingest.file /\ ingest'.note = ingest.note
    BY <1>3
  <2> QED
    BY ONLY <2>1, <2>2 DEF RowsInv, Matches
<1> QED
  BY <1>4, <1>5, <1>6, <1>7, <1>8

\* The row an insert writes.
NewRow(s, claim, clash) ==
    [slot |-> s, from |-> doc[ingest.note], path |-> ingest.note, kind |-> claim.kind,
     value |-> claim.value, sealed |-> \E r \in clash : r.sealed]

LEMMA InsertWrites ==
    ASSUME IInv, IngestInsert
    PROVE  \E clash \in SUBSET rows :
             LET s == ingest.slot
                 claim == ingest.file.claims[s]
                 new == NewRow(s, claim, clash)
             IN  /\ clash = {r \in rows : r.slot = s /\ r.from = ingest.file.mtime}
                 /\ rows' = (rows \ clash) \cup {new}
                 /\ s \in Slot /\ claim \in Claim /\ ingest.file \in File
                 /\ new \in Row /\ new.from = ingest.file.mtime
                 /\ new.slot = s /\ Matches(new, ingest.note, ingest.file.claims)
<1> USE DEF IInv
<1> DEFINE s == ingest.slot
           claim == ingest.file.claims[s]
           clash == {r \in rows : r.slot = s /\ r.from = ingest.file.mtime}
           new == NewRow(s, claim, clash)
<1>1. ingest.pc = "insert"
  BY DEF IngestInsert
<1>2. /\ ingest.file \in File /\ ingest.note \in Note /\ s \in Slot
      /\ s \in ingest.left /\ doc[ingest.note] = ingest.file.mtime
  BY <1>1 DEF IngestInv, TypeOK, Ingest
<1>3. claim # NoClaim
  BY <1>1, <1>2 DEF IngestInv
<1>4. claim \in Claim /\ ingest.file.mtime \in Time
  BY <1>2, <1>3 DEF File, Claims
<1>5. rows' = (rows \ clash) \cup {new}
  BY <1>2 DEF IngestInsert, SlotRows, NewRow
<1>6. new \in Row /\ new.from = ingest.file.mtime /\ new.slot = s
  BY <1>2, <1>4 DEF NewRow, Row, Claim
<1>7. claim = [kind |-> claim.kind, value |-> claim.value]
  BY <1>4 DEF Claim
<1>8. Matches(new, ingest.note, ingest.file.claims)
  BY <1>7 DEF Matches, NewRow
<1> QED
  BY <1>2, <1>4, <1>5, <1>6, <1>8

LEMMA InsertInv ==
    ASSUME IInv, IngestInsert
    PROVE  IInv'
<1> USE DEF IInv
<1>1. PICK clash \in SUBSET rows :
         LET s == ingest.slot
             new == NewRow(s, ingest.file.claims[s], clash)
         IN  /\ clash = {r \in rows : r.slot = s /\ r.from = ingest.file.mtime}
             /\ rows' = (rows \ clash) \cup {new}
             /\ s \in Slot /\ ingest.file \in File
             /\ new \in Row /\ new.from = ingest.file.mtime
             /\ new.slot = s /\ Matches(new, ingest.note, ingest.file.claims)
  BY InsertWrites
<1> DEFINE new == NewRow(ingest.slot, ingest.file.claims[ingest.slot], clash)
<1>2. /\ clash = {r \in rows : r.slot = ingest.slot /\ r.from = ingest.file.mtime}
      /\ rows' = (rows \ clash) \cup {new}
      /\ new \in Row /\ new.from = ingest.file.mtime
      /\ new.slot = ingest.slot /\ Matches(new, ingest.note, ingest.file.claims)
      /\ ingest.slot \in Slot
  BY <1>1
<1> HIDE DEF new
<1>3. UNCHANGED <<now, disk, doc, edges, retire, cuts>>
  BY DEF IngestInsert, IngestUnchanged
<1>4. /\ ingest.pc = "insert"
      /\ ingest' = [ingest EXCEPT !.pc = "seal"]
      /\ unsealed' = unsealed \cup {<<ingest.slot, ingest.note>>}
  BY DEF IngestInsert
<1>5. /\ ingest' \in Ingest /\ ingest'.pc = "seal" /\ ingest'.file = ingest.file
      /\ ingest'.note = ingest.note /\ ingest'.left = ingest.left /\ ingest'.slot = ingest.slot
  BY <1>4 DEF TypeOK, Ingest, IngestPc
<1>6. TypeOK'
  <2>1. unsealed' \in SUBSET (Slot \X Note)
    BY <1>2, <1>4 DEF TypeOK, Ingest
  <2>2. rows' \in SUBSET Row
        /\ (\A r, o \in rows : r.slot = o.slot /\ r.from = o.from => r = o)'
    BY <1>2 DEF TypeOK
  <2> QED
    BY <1>3, <1>5, <2>1, <2>2 DEF TypeOK
<1>7. IngestInv'
  BY <1>3, <1>4, <1>5 DEF IngestInv
<1>8. DiskInv' /\ FileInv'
  BY <1>3, <1>4, <1>5 DEF DiskInv, FileInv
<1>9. RowsInv'
  <2>1. /\ new.from <= now
        /\ \A n \in Note : disk[n] # NoFile /\ disk[n].mtime = new.from =>
              Matches(new, n, disk[n].claims)
    BY <1>2, <1>4 DEF FileInv
  <2> SUFFICES ASSUME NEW r \in rows'
               PROVE  /\ r.from <= now
                      /\ \A n \in Note : disk[n] # NoFile /\ disk[n].mtime = r.from =>
                            Matches(r, n, disk[n].claims)
                      /\ ingest.file.mtime = r.from =>
                            Matches(r, ingest.note, ingest.file.claims)
    BY <1>3, <1>5 DEF RowsInv, Matches
  <2>2. CASE r \in rows
    BY <1>4, <2>2 DEF RowsInv
  <2>3. CASE r = new
    BY <1>2, <2>1, <2>3
  <2> QED
    BY <1>2, <2>2, <2>3
<1> QED
  BY <1>6, <1>7, <1>8, <1>9

LEMMA SealInv ==
    ASSUME IInv, IngestSeal
    PROVE  IInv'
<1> USE DEF IInv
<1> DEFINE isFact == ingest.file.claims[ingest.slot].kind = "fact"
           rs == IF isFact THEN FactsToSeal(ingest.slot)
                 ELSE ItemsToSeal(ingest.slot, ingest.note)
<1>1. UNCHANGED <<now, disk, doc, edges, retire, cuts>> /\ rows' = Sealing(rs)
  BY DEF IngestSeal, IngestUnchanged
<1>2. rs \in SUBSET rows
  BY DEF FactsToSeal, ItemsToSeal, NoteRows, SlotRows
<1>3. /\ ingest.pc = "seal"
      /\ ingest' = [ingest EXCEPT !.pc = "unseal"]
      /\ unsealed' \in SUBSET unsealed
  BY DEF IngestSeal
<1>4. /\ ingest' \in Ingest /\ ingest'.pc = "unseal" /\ ingest'.file = ingest.file
      /\ ingest'.note = ingest.note /\ ingest'.left = ingest.left /\ ingest'.slot = ingest.slot
  BY <1>3 DEF TypeOK, Ingest, IngestPc
<1> HIDE DEF rs
<1>5. rows' = Flipped(rs, TRUE)
  BY <1>1, SealingFlips
<1>6. /\ rows' \in SUBSET Row
      /\ (\A r, o \in rows : r.slot = o.slot /\ r.from = o.from => r = o)'
      /\ DiskInv' /\ FileInv' /\ RowsInv'
  BY <1>1, <1>2, <1>3, <1>4, <1>5, FlipInv
<1>7. TypeOK'
  BY <1>1, <1>3, <1>4, <1>6 DEF TypeOK
<1>8. IngestInv'
  BY <1>1, <1>3, <1>4 DEF IngestInv
<1> QED
  BY <1>6, <1>7, <1>8

LEMMA UnsealInv ==
    ASSUME IInv, IngestUnseal
    PROVE  IInv'
<1> USE DEF IInv
<1> DEFINE isFact == ingest.file.claims[ingest.slot].kind = "fact"
           rs == IF isFact THEN FactsToUnseal(ingest.slot)
                 ELSE ItemsToUnseal(ingest.slot, ingest.note)
           left == ingest.left \ {ingest.slot}
<1>1. UNCHANGED <<now, disk, doc, edges, retire, cuts, unsealed>> /\ rows' = Unsealing(rs)
  BY DEF IngestUnseal, IngestUnchanged
<1>2. rs \in SUBSET rows
  BY DEF FactsToUnseal, ItemsToUnseal, LiveRows, NoteRows, SlotRows, Latest
<1>3. ingest.pc = "unseal" /\ ingest' = GoOn(left)
  BY DEF IngestUnseal
<1>4. left \in SUBSET Slot /\ left \in SUBSET ingest.left
  BY DEF TypeOK, Ingest
<1> HIDE DEF rs, left
<1>5. /\ ingest' \in Ingest
      /\ \/ ingest'.pc = "idle"
         \/ /\ ingest'.pc = "claims" /\ ingest'.left = left
            /\ ingest'.file = ingest.file /\ ingest'.note = ingest.note
  BY <1>3, <1>4, GoOnTyped
<1>6. rows' = Flipped(rs, FALSE)
  BY <1>1, UnsealingFlips
<1>7. /\ rows' \in SUBSET Row
      /\ (\A r, o \in rows : r.slot = o.slot /\ r.from = o.from => r = o)'
      /\ DiskInv' /\ FileInv' /\ RowsInv'
  BY <1>1, <1>2, <1>3, <1>5, <1>6, FlipInv
<1>8. TypeOK'
  BY <1>1, <1>5, <1>7 DEF TypeOK
<1>9. IngestInv'
  BY <1>1, <1>3, <1>4, <1>5 DEF IngestInv
<1> QED
  BY <1>7, <1>8, <1>9

-----------------------------------------------------------------------------
(* Sealing under edges, and calls cut short.                               *)

LEMMA NoRowsInv ==
    ASSUME IInv, UNCHANGED <<now, disk, doc, rows>>, UNCHANGED ingest \/ ingest' = IngestIdle
    PROVE  IngestInv' /\ DiskInv' /\ FileInv' /\ RowsInv'
<1> USE DEF IInv
<1>1. CASE UNCHANGED ingest
  BY <1>1 DEF IngestInv, DiskInv, FileInv, RowsInv, Matches
<1>2. CASE ingest' = IngestIdle
  <2>1. ingest'.pc = "idle"
    BY <1>2, IdleTyped
  <2> QED
    BY <2>1 DEF IngestInv, DiskInv, FileInv, RowsInv, Matches
<1> QED
  BY <1>1, <1>2

LEMMA RecordInv ==
    ASSUME IInv, NEW p \in Retirer, Record(p) \/ Sweep(p) \/ CutRetire(p)
    PROVE  IInv'
<1> USE DEF IInv
<1>1. UNCHANGED <<now, disk, doc, rows, ingest, unsealed>>
  BY DEF Record, Sweep, CutRetire, RetireUnchanged
<1>2. edges' \in SUBSET Edge /\ cuts' \in 0 .. MaxCut
  <2>1. CASE Record(p)
    BY <2>1 DEF Record, RetireUnchanged, TypeOK
  <2>2. CASE Sweep(p)
    BY <2>2 DEF Sweep, RetireUnchanged, TypeOK
  <2>3. CASE CutRetire(p)
    BY <2>3, ConstantsAssumption DEF CutRetire, TypeOK
  <2> QED
    BY <2>1, <2>2, <2>3
<1>3. retire' \in [Retirer -> Retire]
  <2>1. CASE Record(p)
    <3>1. PICK e \in Edge :
             retire' = [retire EXCEPT ![p] = [RetireIdle EXCEPT !.pc = "seal", !.left = {e}]]
      BY <2>1 DEF Record
    <3>2. [RetireIdle EXCEPT !.pc = "seal", !.left = {e}] \in Retire
      BY IdleTyped DEF Retire, RetirePc
    <3> QED
      BY <3>1, <3>2 DEF TypeOK
  <2>2. CASE Sweep(p)
    BY <2>2, IdleTyped DEF Sweep, TypeOK, Retire, RetirePc
  <2>3. CASE CutRetire(p)
    BY <2>3, IdleTyped DEF CutRetire, TypeOK
  <2> QED
    BY <2>1, <2>2, <2>3
<1> QED
  BY <1>1, <1>2, <1>3, NoRowsInv DEF TypeOK

LEMMA SealRetiredInv ==
    ASSUME IInv, NEW p \in Retirer, SealRetired(p)
    PROVE  IInv'
<1> USE DEF IInv
<1>1. PICK e \in retire[p].left :
         /\ rows' = Sealing({r \in rows : r.path = e.older /\ Retired(e.older)})
         /\ retire' = [retire EXCEPT ![p] = [pc |-> "hand", left |-> @.left \ {e},
                                             older |-> e.older]]
  BY DEF SealRetired
<1> DEFINE rs == {r \in rows : r.path = e.older /\ Retired(e.older)}
<1>2. UNCHANGED <<now, disk, doc, edges, ingest, cuts, unsealed>>
  BY DEF SealRetired, RetireUnchanged
<1>3. rs \in SUBSET rows /\ rows' = Sealing(rs)
  BY <1>1
<1> HIDE DEF rs
<1>4. retire' \in [Retirer -> Retire]
  BY <1>1 DEF TypeOK, Retire, RetirePc, Edge
<1>5. rows' = Flipped(rs, TRUE)
  BY <1>3, SealingFlips
<1>6. /\ rows' \in SUBSET Row
      /\ (\A r, o \in rows : r.slot = o.slot /\ r.from = o.from => r = o)'
      /\ DiskInv' /\ FileInv' /\ RowsInv'
  BY <1>2, <1>3, <1>5, FlipInv
<1> QED
  BY <1>2, <1>4, <1>6 DEF TypeOK, IngestInv

LEMMA HandOverInv ==
    ASSUME IInv, NEW p \in Retirer, HandOver(p)
    PROVE  IInv'
<1> USE DEF IInv
<1> DEFINE rs == HandedOver(retire[p].older)
<1>1. UNCHANGED <<now, disk, doc, edges, ingest, cuts, unsealed>>
  BY DEF HandOver, RetireUnchanged
<1>2. rs \in SUBSET rows /\ rows' = Unsealing(rs)
  BY DEF HandOver, HandedOver
<1> HIDE DEF rs
<1>3. retire' \in [Retirer -> Retire]
  BY IdleTyped DEF HandOver, TypeOK, Retire, RetirePc
<1>4. rows' = Flipped(rs, FALSE)
  BY <1>2, UnsealingFlips
<1>5. /\ rows' \in SUBSET Row
      /\ (\A r, o \in rows : r.slot = o.slot /\ r.from = o.from => r = o)'
      /\ DiskInv' /\ FileInv' /\ RowsInv'
  BY <1>1, <1>2, <1>4, FlipInv
<1> QED
  BY <1>1, <1>3, <1>5 DEF TypeOK, IngestInv

LEMMA CutInv ==
    ASSUME IInv, CutIngest
    PROVE  IInv'
<1> USE DEF IInv
<1>1. UNCHANGED <<now, disk, doc, rows, edges, retire, unsealed>> /\ ingest' = IngestIdle
  BY DEF CutIngest
<1>2. cuts' \in 0 .. MaxCut
  BY ConstantsAssumption DEF CutIngest, TypeOK
<1> QED
  BY <1>1, <1>2, NoRowsInv, IdleTyped DEF TypeOK

LEMMA RestartInv ==
    ASSUME IInv, Restart
    PROVE  IInv'
<1> USE DEF IInv
<1>1. /\ UNCHANGED <<now, disk, doc, edges, unsealed>> /\ ingest' = IngestIdle
      /\ rows' = Unsealing(ItemsToReopen) /\ retire' = [q \in Retirer |-> RetireIdle]
  BY DEF Restart
<1>2. cuts' \in 0 .. MaxCut
  BY ConstantsAssumption DEF Restart, TypeOK
<1>3. ItemsToReopen \in SUBSET rows
  BY DEF ItemsToReopen
<1>4. rows' = Flipped(ItemsToReopen, FALSE) /\ ingest'.pc = "idle" /\ ingest' \in Ingest
      /\ retire' \in [Retirer -> Retire]
  BY <1>1, UnsealingFlips, IdleTyped
<1>5. /\ rows' \in SUBSET Row
      /\ (\A r, o \in rows : r.slot = o.slot /\ r.from = o.from => r = o)'
      /\ DiskInv' /\ FileInv' /\ RowsInv'
  BY <1>1, <1>3, <1>4, FlipInv
<1> QED
  BY <1>1, <1>2, <1>4, <1>5 DEF TypeOK, IngestInv

LEMMA NextInv ==
    ASSUME IInv, [Next]_vars
    PROVE  IInv'
<1>1. CASE Next
  BY <1>1, EditInv, StartInv, DocumentInv, ProbeInv, InsertInv, SealInv, UnsealInv,
     RecordInv, SealRetiredInv, HandOverInv, CutInv, RestartInv
     DEF Next, IngestStep, RetireStep
<1>2. CASE UNCHANGED vars
  BY <1>2, NoRowsInv DEF vars, IInv, TypeOK
<1> QED
  BY <1>1, <1>2

LEMMA Invariance == Spec => []IInv
<1>1. IInv /\ [Next]_vars => IInv'
  BY NextInv
<1> QED
  BY InitInv, <1>1, PTL DEF Spec

\* The variables keep their types, and no two rows of a slot share a valid_from.
THEOREM TypeCorrect == Spec => []TypeOK
<1>1. IInv => TypeOK
  BY DEF IInv
<1> QED
  BY Invariance, <1>1, PTL

-----------------------------------------------------------------------------
(* No step reopens a row of a retired note.                                *)

\* An insert that meets a sealed row writes the same row.
LEMMA InsertKeepsSeals ==
    ASSUME IInv, IngestInsert, NEW r \in rows, r.sealed
    PROVE  r \in rows'
<1> USE DEF IInv
<1>1. PICK clash \in SUBSET rows :
         LET s == ingest.slot
             new == NewRow(s, ingest.file.claims[s], clash)
         IN  /\ clash = {o \in rows : o.slot = s /\ o.from = ingest.file.mtime}
             /\ rows' = (rows \ clash) \cup {new}
             /\ new \in Row /\ new.from = ingest.file.mtime
             /\ new.slot = s /\ Matches(new, ingest.note, ingest.file.claims)
  BY InsertWrites
<1> DEFINE new == NewRow(ingest.slot, ingest.file.claims[ingest.slot], clash)
<1>2. /\ clash = {o \in rows : o.slot = ingest.slot /\ o.from = ingest.file.mtime}
      /\ rows' = (rows \ clash) \cup {new}
      /\ new \in Row /\ new.from = ingest.file.mtime
      /\ new.slot = ingest.slot /\ Matches(new, ingest.note, ingest.file.claims)
  BY <1>1
<1>3. CASE r \notin clash
  BY <1>2, <1>3
<1>4. CASE r \in clash
  <2>1. new.sealed = TRUE
    BY <1>4 DEF NewRow
  <2> HIDE DEF new
  <2>2. ingest.pc # "idle" /\ r.slot = ingest.slot /\ r.from = ingest.file.mtime
    BY <1>2, <1>4 DEF IngestInsert
  <2>3. Matches(r, ingest.note, ingest.file.claims)
    BY <2>2 DEF RowsInv
  <2>4. r.path = new.path
        /\ [kind |-> r.kind, value |-> r.value] = [kind |-> new.kind, value |-> new.value]
    BY <1>2, <2>2, <2>3 DEF Matches
  <2>5. r.kind = new.kind /\ r.value = new.value
    BY <2>4
  <2>6. r \in Row /\ new \in Row /\ r.sealed = TRUE
    BY <1>2 DEF TypeOK, Row
  <2>7. r = new
    BY <1>2, <2>1, <2>2, <2>4, <2>5, <2>6 DEF Row
  <2> QED
    BY <1>2, <2>7
<1> QED
  BY <1>3, <1>4

\* A retired note's row is not the latest of its slot's live rows.
LEMMA RetiredIsNotLatestLive ==
    ASSUME NEW r, Retired(r.path), NEW s
    PROVE  r \notin Latest(LiveRows(s))
BY DEF Latest, LiveRows

LEMMA StepKeepsSeals ==
    ASSUME IInv, [Next]_vars, NEW r \in rows, r.sealed, Retired(r.path)
    PROVE  r \in rows'
<1> USE DEF IInv
<1>1. CASE UNCHANGED rows
  BY <1>1
<1>2. CASE IngestInsert
  BY <1>2, InsertKeepsSeals
<1>3. ASSUME NEW rs \in SUBSET rows, rows' = Sealing(rs)
      PROVE  r \in rows'
  BY <1>3, SealingFlips, FlipKeepsSeals
<1>4. ASSUME NEW rs \in SUBSET rows, rows' = Unsealing(rs), r \notin rs
      PROVE  r \in rows'
  BY <1>4, UnsealingFlips, FlipKeepsSeals
<1>5. CASE IngestSeal
  <2> DEFINE rs == IF ingest.file.claims[ingest.slot].kind = "fact"
                   THEN FactsToSeal(ingest.slot) ELSE ItemsToSeal(ingest.slot, ingest.note)
  <2>1. rs \in SUBSET rows
    BY DEF FactsToSeal, ItemsToSeal, NoteRows, SlotRows
  <2>2. rows' = Sealing(rs)
    BY <1>5 DEF IngestSeal
  <2> HIDE DEF rs
  <2> QED
    BY <2>1, <2>2, <1>3
<1>6. CASE IngestUnseal
  <2> DEFINE rs == IF ingest.file.claims[ingest.slot].kind = "fact"
                   THEN FactsToUnseal(ingest.slot) ELSE ItemsToUnseal(ingest.slot, ingest.note)
  <2>1. rs \in SUBSET rows
    BY DEF FactsToUnseal, ItemsToUnseal, LiveRows, NoteRows, SlotRows, Latest
  <2>2. rows' = Unsealing(rs)
    BY <1>6 DEF IngestUnseal
  <2>3. r \notin FactsToUnseal(ingest.slot)
    BY RetiredIsNotLatestLive DEF FactsToUnseal
  <2>4. r \notin ItemsToUnseal(ingest.slot, ingest.note)
    BY DEF ItemsToUnseal, Latest, NoteRows
  <2>5. r \notin rs
    BY <2>3, <2>4
  <2> HIDE DEF rs
  <2> QED
    BY <2>1, <2>2, <2>5, <1>4
<1>7. ASSUME NEW p \in Retirer, SealRetired(p)
      PROVE  r \in rows'
  <2>1. PICK e \in retire[p].left :
           rows' = Sealing({o \in rows : o.path = e.older /\ Retired(e.older)})
    BY <1>7 DEF SealRetired
  <2> DEFINE rs == {o \in rows : o.path = e.older /\ Retired(e.older)}
  <2>2. rs \in SUBSET rows /\ rows' = Sealing(rs)
    BY <2>1
  <2> HIDE DEF rs
  <2> QED
    BY <2>2, <1>3
<1>8. ASSUME NEW p \in Retirer, HandOver(p)
      PROVE  r \in rows'
  <2> DEFINE rs == HandedOver(retire[p].older)
  <2>1. rs \in SUBSET rows /\ rows' = Unsealing(rs)
    BY <1>8 DEF HandOver, HandedOver
  <2>2. r \notin rs
    BY RetiredIsNotLatestLive DEF HandedOver
  <2> HIDE DEF rs
  <2> QED
    BY <2>1, <2>2, <1>4
<1>9. CASE Restart
  <2>1. rows' = Unsealing(ItemsToReopen) /\ ItemsToReopen \in SUBSET rows
    BY <1>9 DEF Restart, ItemsToReopen
  <2>2. r \notin ItemsToReopen
    BY DEF ItemsToReopen
  <2> QED
    BY <2>1, <2>2, <1>4
<1>10. CASE Next /\ ~UNCHANGED rows /\ ~IngestInsert /\ ~IngestSeal /\ ~IngestUnseal /\ ~Restart
  <2>1. \E p \in Retirer : SealRetired(p) \/ HandOver(p)
    BY <1>10 DEF Next, Edit, IngestStart, IngestStep, IngestDocument, IngestProbe,
       Record, Sweep, RetireStep, CutRetire, CutIngest
  <2> QED
    BY <2>1, <1>7, <1>8
<1> QED
  BY <1>1, <1>2, <1>5, <1>6, <1>9, <1>10 DEF vars

\* Whatever ingests, sweeps, restarts and cut-off calls do and in whatever
\* order, a row of a retired note that is sealed stays as it is: RETIRED_NOTE
\* is tested by every statement that unseals.
THEOREM RetiredStaysSealed == Spec => SealsHold
<1>1. IInv /\ [Next]_vars => [\A r \in rows : r.sealed /\ Retired(r.path) => r \in rows']_vars
  BY StepKeepsSeals
<1> QED
  BY Invariance, <1>1, PTL DEF Spec, SealsHold

-----------------------------------------------------------------------------
(* What a slot's rows say: one current fact, and one current item a note.  *)

\* Somebody states the slot under kind k: a row, a file or the ingest at hand.
KindSaid(s, k) ==
    \/ \E r \in rows : r.slot = s /\ r.kind = k
    \/ \E n \in Note : /\ disk[n] # NoFile /\ disk[n].claims[s] # NoClaim
                       /\ disk[n].claims[s].kind = k
    \/ /\ ingest.pc # "idle" /\ ingest.file.claims[s] # NoClaim
       /\ ingest.file.claims[s].kind = k

KindInv ==
    /\ ingest.pc # "idle" => ingest.file # NoFile
    /\ \A s \in Slot : \A k, l \in Kind : KindSaid(s, k) /\ KindSaid(s, l) => k = l

\* A note's rows are no newer than the file being ingested, and that one no
\* newer than the file in the vault.
NewestInv ==
    /\ \A r \in rows : disk[r.path] # NoFile /\ r.from <= disk[r.path].mtime
    /\ ingest.pc # "idle" =>
          /\ disk[ingest.note] # NoFile /\ ingest.file.mtime <= disk[ingest.note].mtime
          /\ \A r \in rows : r.path = ingest.note => r.from <= ingest.file.mtime

\* What the probe found still holds at the insert.
ProbedInv ==
    ingest.pc = "insert" =>
        ~claim_is_unchanged(ingest.slot, ingest.note, ingest.file.claims[ingest.slot])

\* The row just inserted is the note's latest, and current.
FreshInv ==
    ingest.pc = "seal" /\ ~Retired(ingest.note) =>
        \A r \in Latest(NoteRows(ingest.slot, ingest.note)) : ~r.sealed

SlotInv == KindInv /\ NewestInv /\ ProbedInv /\ FreshInv /\ OldFactsAreSealed /\ ItemsKept

-----------------------------------------------------------------------------
(* Every row after a flip is the twin of a row before it.                  *)

Twin(r, o) ==
    /\ r.slot = o.slot /\ r.from = o.from /\ r.path = o.path
    /\ r.kind = o.kind /\ r.value = o.value

LEMMA FlipTwins ==
    ASSUME TypeOK, NEW rs \in SUBSET rows, NEW b \in BOOLEAN, rows' = Flipped(rs, b)
    PROVE  /\ \A r \in rows' : \E o \in rows :
                 Twin(r, o) /\ r.sealed = IF o \in rs THEN b ELSE o.sealed
           /\ \A o \in rows : \E r \in rows' : Twin(r, o)
<1>1. \A r \in rows : r \in Row
  BY DEF TypeOK
<1>2. ASSUME NEW r \in rows'
      PROVE  \E o \in rows : Twin(r, o) /\ r.sealed = IF o \in rs THEN b ELSE o.sealed
  <2>1. CASE r \in rows \ rs
    BY <2>1 DEF Twin
  <2>2. ASSUME NEW o \in rs, r = [o EXCEPT !.sealed = b]
        PROVE  Twin(r, o) /\ r.sealed = b
    BY <1>1, <2>2 DEF Row, Twin
  <2> QED
    BY <2>1, <2>2 DEF Flipped
<1>3. ASSUME NEW o \in rows
      PROVE  \E r \in rows' : Twin(r, o)
  <2>1. CASE o \notin rs
    BY <2>1 DEF Flipped, Twin
  <2>2. CASE o \in rs
    <3>1. [o EXCEPT !.sealed = b] \in rows'
      BY <2>2 DEF Flipped
    <3>2. Twin([o EXCEPT !.sealed = b], o)
      BY <1>1 DEF Row, Twin
    <3> QED
      BY <3>1, <3>2
  <2> QED
    BY <2>1, <2>2
<1> QED
  BY <1>2, <1>3

\* A twin is the latest where the row was.
LEMMA TwinsRankAlike ==
    ASSUME TypeOK, NEW rs \in SUBSET rows, NEW b \in BOOLEAN, rows' = Flipped(rs, b),
           UNCHANGED edges, NEW r \in rows', NEW o \in rows, Twin(r, o), NEW s, NEW n
    PROVE  /\ (r \in Latest(LiveRows(s))') <=> (o \in Latest(LiveRows(s)))
           /\ (r \in Latest(NoteRows(s, n))') <=> (o \in Latest(NoteRows(s, n)))
<1>1. \A q \in rows' : \E p \in rows : Twin(q, p)
  BY FlipTwins
<1>2. \A p \in rows : \E q \in rows' : Twin(q, p)
  BY FlipTwins
<1>3. \A m : Retired(m)' <=> Retired(m)
  BY DEF Retired
<1>4. (r \in Latest(LiveRows(s))') <=> (o \in Latest(LiveRows(s)))
  BY <1>1, <1>2, <1>3 DEF Latest, LiveRows, SlotRows, Twin
<1>5. (r \in Latest(NoteRows(s, n))') <=> (o \in Latest(NoteRows(s, n)))
  BY <1>1, <1>2 DEF Latest, NoteRows, SlotRows, Twin
<1> QED
  BY <1>4, <1>5

-----------------------------------------------------------------------------
(* What a flip must respect for the slots to stay right.                   *)

LEMMA FlipKeepsFacts ==
    ASSUME TypeOK, OldFactsAreSealed, UNCHANGED edges,
           NEW rs \in SUBSET rows, NEW b \in BOOLEAN, rows' = Flipped(rs, b),
           b \/ \A o \in rs : o.kind = "fact" => CurrentIsLatest(o),
           \A o \in rows \ rs : \A n \in Note :
               /\ ~o.sealed /\ o.kind = "fact" /\ ~Retired(o.path)
               /\ <<o.slot, n>> \in unsealed /\ <<o.slot, n>> \notin unsealed'
               => CurrentIsLatest(o)
    PROVE  OldFactsAreSealed'
<1> SUFFICES ASSUME NEW r \in rows', ~r.sealed, r.kind = "fact", ~Retired(r.path)',
                    \A n \in Note : <<r.slot, n>> \notin unsealed'
             PROVE  CurrentIsLatest(r)'
  BY DEF OldFactsAreSealed
<1>1. PICK o \in rows : Twin(r, o) /\ r.sealed = IF o \in rs THEN b ELSE o.sealed
  BY FlipTwins
<1>2. ~Retired(o.path) /\ o.kind = "fact" /\ o.slot = r.slot
  BY <1>1 DEF Twin, Retired
<1>3. CurrentIsLatest(o)
  <2>1. CASE o \in rs
    BY <1>1, <1>2, <2>1
  <2>2. CASE o \notin rs
    <3>1. ~o.sealed
      BY <1>1, <2>2
    <3> QED
      BY <1>2, <2>2, <3>1 DEF OldFactsAreSealed
  <2> QED
    BY <2>1, <2>2
<1>4. (r \in Latest(LiveRows(r.slot))') <=> (o \in Latest(LiveRows(r.slot)))
  BY <1>1, TwinsRankAlike
<1> QED
  BY <1>1, <1>2, <1>3, <1>4 DEF CurrentIsLatest, Twin

LEMMA FlipKeepsItems ==
    ASSUME TypeOK, ItemsKept, UNCHANGED edges,
           NEW rs \in SUBSET rows, NEW b \in BOOLEAN, rows' = Flipped(rs, b),
           \A o \in rs : o.kind = "item" /\ ~Retired(o.path) =>
               (~b <=> o \in Latest(NoteRows(o.slot, o.path))),
           \A o \in rows \ rs :
               /\ o.kind = "item" /\ ~Retired(o.path)
               /\ <<o.slot, o.path>> \in unsealed /\ <<o.slot, o.path>> \notin unsealed'
               => (~o.sealed <=> o \in Latest(NoteRows(o.slot, o.path)))
    PROVE  ItemsKept'
<1> SUFFICES ASSUME NEW r \in rows', r.kind = "item", ~Retired(r.path)',
                    <<r.slot, r.path>> \notin unsealed'
             PROVE  ~r.sealed <=> r \in Latest(NoteRows(r.slot, r.path))'
  BY DEF ItemsKept
<1>1. PICK o \in rows : Twin(r, o) /\ r.sealed = IF o \in rs THEN b ELSE o.sealed
  BY FlipTwins
<1>2. ~Retired(o.path) /\ o.kind = "item" /\ o.slot = r.slot /\ o.path = r.path
  BY <1>1 DEF Twin, Retired
<1>3. ~r.sealed <=> o \in Latest(NoteRows(o.slot, o.path))
  <2>1. CASE o \in rs
    BY <1>1, <1>2, <2>1
  <2>2. CASE o \notin rs
    BY <1>1, <1>2, <2>2 DEF ItemsKept
  <2> QED
    BY <2>1, <2>2
<1>4. (r \in Latest(NoteRows(r.slot, r.path))') <=> (o \in Latest(NoteRows(r.slot, r.path)))
  BY <1>1, TwinsRankAlike
<1> QED
  BY <1>2, <1>3, <1>4

\* A flip that leaves vault and ingest, or goes on with the ingest, says nothing new.
LEMMA FlipKeepsKinds ==
    ASSUME TypeOK, KindInv, NewestInv, UNCHANGED disk,
           NEW rs \in SUBSET rows, NEW b \in BOOLEAN, rows' = Flipped(rs, b),
           \/ ingest'.pc = "idle"
           \/ ingest.pc # "idle" /\ ingest'.file = ingest.file /\ ingest'.note = ingest.note
    PROVE  KindInv' /\ NewestInv'
<1>1. \A r \in rows' : \E o \in rows : Twin(r, o)
  BY FlipTwins
<1>2. \A s \in Slot, k \in Kind : KindSaid(s, k)' => KindSaid(s, k)
  BY <1>1 DEF KindSaid, Twin
<1>3. KindInv'
  BY <1>2 DEF KindInv
<1>4. NewestInv'
  BY <1>1 DEF NewestInv, Twin
<1> QED
  BY <1>3, <1>4

-----------------------------------------------------------------------------
(* Every step keeps the slots right.                                       *)

LEMMA InitSlots == Init => SlotInv
BY IdleTyped DEF Init, SlotInv, KindInv, KindSaid, NewestInv, ProbedInv, FreshInv,
   OldFactsAreSealed, ItemsKept

\* Steps that touch neither rows nor edges.
LEMMA RowsAloneKeep ==
    ASSUME SlotInv, UNCHANGED <<rows, edges, unsealed>>
    PROVE  OldFactsAreSealed' /\ ItemsKept'
BY DEF SlotInv, OldFactsAreSealed, ItemsKept, CurrentIsLatest, Latest, LiveRows, NoteRows,
   SlotRows, Retired

LEMMA EditSlots ==
    ASSUME IInv, SlotInv, NEW n \in Note, Edit(n)
    PROVE  SlotInv'
<1> USE DEF SlotInv, IInv
<1>1. PICK c \in Claims :
         /\ \A s \in Slot : c[s] # NoClaim => OneKind(s, c[s].kind)
         /\ disk' = [disk EXCEPT ![n] = [claims |-> c, mtime |-> now + 1]]
  BY DEF Edit
<1>2. UNCHANGED <<doc, rows, edges, ingest, retire, cuts, unsealed>>
  BY DEF Edit
<1>3. /\ disk'[n] = [claims |-> c, mtime |-> now + 1]
      /\ \A m \in Note \ {n} : disk'[m] = disk[m]
  BY <1>1 DEF TypeOK
<1>4. disk'[n].claims = c /\ disk'[n].mtime = now + 1
  BY <1>3
<1>5. KindInv'
  <2>1. \A s \in Slot, k \in Kind :
          KindSaid(s, k)' => \/ KindSaid(s, k)
                             \/ c[s] # NoClaim /\ c[s].kind = k
    BY <1>2, <1>3, <1>4 DEF KindSaid
  <2>2. \A s \in Slot, k \in Kind :
          KindSaid(s, k) /\ c[s] # NoClaim => c[s].kind = k
    BY <1>1 DEF KindSaid, OneKind, SlotRows, KindInv
  <2> QED
    BY <1>2, <2>1, <2>2 DEF KindInv
<1>6. NewestInv'
  <2>1. now \in Nat /\ \A r \in rows : r \in Row /\ r.from <= now
    BY ConstantsAssumption DEF TypeOK, RowsInv
  <2>2. \A r \in rows : r.from \in Nat /\ r.path \in Note
    BY <2>1 DEF Row, Time
  <2>3. now + 1 \in Time
    BY <2>1, ConstantsAssumption DEF Edit, TypeOK, Time
  <2>4. disk'[n] # NoFile
    BY <1>3, <2>3, ConstantsAssumption DEF File
  <2> QED
    <3>1. \A r \in rows : disk'[r.path] # NoFile /\ r.from <= disk'[r.path].mtime
      BY <1>3, <1>4, <2>1, <2>2, <2>4 DEF NewestInv
    <3>2. ingest.pc # "idle" => ingest.file.mtime \in Nat /\ ingest.file.mtime <= now
      BY DEF IngestInv, FileInv, File, Time
    <3>3. ingest.note \in Note
      BY DEF TypeOK, Ingest
    <3>4. ingest.pc # "idle" => /\ disk'[ingest.note] # NoFile
                               /\ ingest.file.mtime <= disk'[ingest.note].mtime
      BY <1>3, <1>4, <2>1, <2>4, <3>2, <3>3 DEF NewestInv
    <3> QED
      BY <1>2, <3>1, <3>4 DEF NewestInv
<1>7. ProbedInv' /\ FreshInv'
  BY <1>2 DEF ProbedInv, FreshInv, claim_is_unchanged, Latest, NoteRows, SlotRows, Retired
<1>8. OldFactsAreSealed' /\ ItemsKept'
  BY <1>2, RowsAloneKeep
<1> QED
  BY <1>5, <1>6, <1>7, <1>8

\* The ingest's reads, the sweep's list, and calls cut short: no row changes.
LEMMA ReadSlots ==
    ASSUME IInv, SlotInv,
           \/ \E n \in Note : IngestStart(n)
           \/ IngestDocument
           \/ \E s \in Slot : IngestProbe(s)
           \/ \E p \in Retirer : Sweep(p) \/ CutRetire(p)
           \/ CutIngest
           \/ UNCHANGED vars
    PROVE  SlotInv'
<1> USE DEF SlotInv, IInv
<1>1. UNCHANGED <<disk, rows, edges, unsealed>>
  BY DEF IngestStart, IngestDocument, IngestProbe, IngestUnchanged, Sweep, CutRetire,
     RetireUnchanged, CutIngest, vars
<1>2. OldFactsAreSealed' /\ ItemsKept'
  BY <1>1, RowsAloneKeep
<1>3. ASSUME \/ ingest'.pc \in {"idle", "claims"} \/ UNCHANGED ingest
             \/ \E s \in Slot : /\ ingest' = [ingest EXCEPT !.pc = "insert", !.slot = s]
                                /\ ~claim_is_unchanged(s, ingest.note, ingest.file.claims[s])
             \/ ingest'.pc = "document"
      PROVE  ProbedInv' /\ FreshInv'
  <2>1. CASE ingest'.pc \in {"idle", "claims", "document"}
    BY <2>1 DEF ProbedInv, FreshInv
  <2>2. CASE UNCHANGED ingest
    BY <1>1, <2>2 DEF ProbedInv, FreshInv, claim_is_unchanged, Latest, NoteRows, SlotRows, Retired
  <2>3. ASSUME NEW s \in Slot, ingest' = [ingest EXCEPT !.pc = "insert", !.slot = s],
               ~claim_is_unchanged(s, ingest.note, ingest.file.claims[s])
        PROVE  ProbedInv' /\ FreshInv'
    <3>1. /\ ingest'.pc = "insert" /\ ingest'.slot = s /\ ingest'.note = ingest.note
          /\ ingest'.file = ingest.file
      BY <2>3 DEF TypeOK, Ingest
    <3> QED
      BY <1>1, <2>3, <3>1 DEF ProbedInv, FreshInv, claim_is_unchanged, Latest, NoteRows, SlotRows
  <2> QED
    BY <1>3, <2>1, <2>2, <2>3
<1>4. ASSUME \/ ingest'.pc = "idle"
             \/ /\ ingest.pc # "idle" /\ ingest'.file = ingest.file
                /\ ingest'.note = ingest.note
             \/ UNCHANGED ingest
      PROVE  KindInv' /\ NewestInv'
  <2>1. \A s \in Slot, k \in Kind : KindSaid(s, k)' => KindSaid(s, k)
    BY <1>1, <1>4 DEF KindSaid
  <2> QED
    BY <1>1, <1>4, <2>1 DEF KindInv, NewestInv
<1>5. ASSUME NEW left \in SUBSET Slot, ingest' = GoOn(left), ingest.pc # "idle"
      PROVE  SlotInv'
  <2>1. \/ ingest'.pc = "idle"
        \/ /\ ingest'.pc = "claims" /\ ingest'.file = ingest.file
           /\ ingest'.note = ingest.note
    BY <1>5, GoOnTyped
  <2> QED
    BY <1>2, <1>3, <1>4, <1>5, <2>1
<1>6. ASSUME NEW n \in Note, IngestStart(n)
      PROVE  SlotInv'
  <2>1. /\ disk[n] # NoFile /\ ingest'.pc = "document"
        /\ ingest'.note = n /\ ingest'.file = disk[n]
    BY <1>6 DEF IngestStart, TypeOK, Ingest
  <2>2. \A s \in Slot, k \in Kind : KindSaid(s, k)' => KindSaid(s, k)
    BY <1>1, <2>1 DEF KindSaid
  <2>3. KindInv'
    BY <2>1, <2>2 DEF KindInv
  <2>4. disk[n].mtime \in Nat
    BY <2>1 DEF TypeOK, File, Time
  <2>5. NewestInv'
    BY <1>1, <2>1, <2>4 DEF NewestInv
  <2> QED
    BY <1>2, <1>3, <2>1, <2>3, <2>5
<1>7. CASE IngestDocument
  <2> DEFINE left == {s \in Slot : ingest.file.claims[s] # NoClaim}
  <2>1. left \in SUBSET Slot /\ ingest' = GoOn(left) /\ ingest.pc # "idle"
    BY <1>7 DEF IngestDocument
  <2> HIDE DEF left
  <2> QED
    BY <1>5, <2>1
<1>8. ASSUME NEW s \in Slot, IngestProbe(s)
      PROVE  SlotInv'
  <2> DEFINE left == ingest.left \ {s}
  <2>1. left \in SUBSET Slot /\ ingest.pc # "idle"
    BY <1>8 DEF IngestProbe, TypeOK, Ingest
  <2> HIDE DEF left
  <2>2. CASE ingest' = GoOn(left)
    BY <1>5, <2>1, <2>2
  <2>3. CASE /\ ingest' = [ingest EXCEPT !.pc = "insert", !.slot = s]
             /\ ~claim_is_unchanged(s, ingest.note, ingest.file.claims[s])
    <3>1. ingest'.file = ingest.file /\ ingest'.note = ingest.note
      BY <2>3 DEF TypeOK, Ingest
    <3> QED
      BY <1>2, <1>3, <1>4, <2>1, <2>3, <3>1
  <2> QED
    BY <1>8, <2>2, <2>3 DEF IngestProbe, left
<1>9. CASE \/ \E p \in Retirer : Sweep(p) \/ CutRetire(p)
           \/ UNCHANGED vars
  <2>1. UNCHANGED ingest
    BY <1>9 DEF Sweep, CutRetire, RetireUnchanged, vars
  <2> QED
    BY <1>2, <1>3, <1>4, <2>1
<1>10. CASE CutIngest
  <2>1. ingest'.pc = "idle"
    BY <1>10, IdleTyped DEF CutIngest
  <2> QED
    BY <1>2, <1>3, <1>4, <2>1
<1> QED
  BY <1>6, <1>7, <1>8, <1>9, <1>10

\* record_supersedes retires notes: the live rows become fewer.
LEMMA RecordSlots ==
    ASSUME IInv, SlotInv, NEW p \in Retirer, Record(p)
    PROVE  SlotInv'
<1> USE DEF SlotInv, IInv
<1>1. UNCHANGED <<disk, rows, ingest, unsealed>> /\ edges \subseteq edges'
  BY DEF Record, RetireUnchanged
<1>2. \A n : Retired(n) => Retired(n)'
  BY <1>1 DEF Retired
<1>3. KindInv' /\ NewestInv' /\ ProbedInv' /\ FreshInv'
  BY <1>1, <1>2 DEF KindInv, KindSaid, NewestInv, ProbedInv, FreshInv, claim_is_unchanged,
     Latest, NoteRows, SlotRows
<1>4. ItemsKept'
  BY <1>1, <1>2 DEF ItemsKept, Latest, NoteRows, SlotRows
<1>5. \A r \in rows : ~Retired(r.path)' /\ CurrentIsLatest(r) => CurrentIsLatest(r)'
  BY <1>1, <1>2 DEF CurrentIsLatest, Latest, LiveRows, SlotRows
<1>6. OldFactsAreSealed'
  BY <1>1, <1>2, <1>5 DEF OldFactsAreSealed
<1> QED
  BY <1>3, <1>4, <1>6

\* An insert meets no row: one with its key would be the note's latest and say
\* the same, and the probe would have found it.
LEMMA InsertAdds ==
    ASSUME IInv, SlotInv, IngestInsert
    PROVE  \E new \in Row :
              /\ rows' = rows \cup {new} /\ new \notin rows /\ ~new.sealed
              /\ new.slot = ingest.slot /\ new.path = ingest.note
              /\ new.from = ingest.file.mtime
              /\ Matches(new, ingest.note, ingest.file.claims)
<1> USE DEF IInv, SlotInv
<1>1. PICK clash \in SUBSET rows :
         LET s == ingest.slot
             new == NewRow(s, ingest.file.claims[s], clash)
         IN  /\ clash = {r \in rows : r.slot = s /\ r.from = ingest.file.mtime}
             /\ rows' = (rows \ clash) \cup {new}
             /\ new \in Row /\ new.from = ingest.file.mtime
             /\ new.slot = s /\ Matches(new, ingest.note, ingest.file.claims)
  BY InsertWrites
<1> DEFINE new == NewRow(ingest.slot, ingest.file.claims[ingest.slot], clash)
<1>2. /\ clash = {r \in rows : r.slot = ingest.slot /\ r.from = ingest.file.mtime}
      /\ rows' = (rows \ clash) \cup {new}
      /\ new \in Row /\ new.from = ingest.file.mtime
      /\ new.slot = ingest.slot /\ Matches(new, ingest.note, ingest.file.claims)
  BY <1>1
<1>3. ingest.pc = "insert"
  BY DEF IngestInsert
<1>4. ASSUME NEW r \in clash
      PROVE  FALSE
  <2>1. r \in rows /\ r.slot = ingest.slot /\ r.from = ingest.file.mtime
    BY <1>2
  <2>2. Matches(r, ingest.note, ingest.file.claims)
    BY <1>3, <2>1 DEF RowsInv
  <2>3. r \in Latest(NoteRows(ingest.slot, ingest.note))
    BY <1>3, <2>1, <2>2 DEF NewestInv, Latest, NoteRows, SlotRows, Matches
  <2>4. ingest.file.claims[ingest.slot].kind = r.kind
        /\ ingest.file.claims[ingest.slot].value = r.value
    BY <2>1, <2>2 DEF Matches
  <2> QED
    BY <1>3, <2>3, <2>4 DEF ProbedInv, claim_is_unchanged
<1>5. ~new.sealed
  BY <1>4 DEF NewRow
<1>6. new.path = ingest.note
  BY DEF NewRow
<1>7. new \notin rows
  BY <1>2, <1>4
<1> HIDE DEF new
<1> QED
  BY <1>2, <1>4, <1>5, <1>6, <1>7

LEMMA InsertSlots ==
    ASSUME IInv, SlotInv, IngestInsert
    PROVE  SlotInv'
<1> USE DEF IInv, SlotInv
<1>1. PICK new \in Row :
         /\ rows' = rows \cup {new} /\ new \notin rows /\ ~new.sealed
         /\ new.slot = ingest.slot /\ new.path = ingest.note
         /\ new.from = ingest.file.mtime
         /\ Matches(new, ingest.note, ingest.file.claims)
  BY InsertAdds
<1>2. /\ UNCHANGED <<now, disk, doc, edges, retire, cuts>> /\ ingest.pc = "insert"
      /\ ingest' = [ingest EXCEPT !.pc = "seal"]
      /\ unsealed' = unsealed \cup {<<ingest.slot, ingest.note>>}
  BY DEF IngestInsert, IngestUnchanged
<1>3. /\ ingest'.pc = "seal" /\ ingest'.file = ingest.file
      /\ ingest'.note = ingest.note /\ ingest'.slot = ingest.slot
  BY <1>2 DEF TypeOK, Ingest
<1>4. /\ ingest.slot \in Slot /\ ingest.note \in Note
      /\ ingest.file.claims[ingest.slot] # NoClaim
      /\ ingest.file.claims[ingest.slot].kind = new.kind
  BY <1>1, <1>2 DEF IngestInv, TypeOK, Ingest, Matches
<1>5. \A n : Retired(n)' <=> Retired(n)
  BY <1>2 DEF Retired
<1>6. KindInv'
  <2>1. \A s \in Slot, k \in Kind : KindSaid(s, k)' => KindSaid(s, k)
    BY <1>1, <1>2, <1>3, <1>4 DEF KindSaid
  <2> QED
    BY <1>2, <1>3, <2>1 DEF KindInv
<1>7. NewestInv'
  <2>1. ingest.file.mtime \in Nat
    BY <1>2 DEF IngestInv, File, Time
  <2> QED
    BY <1>1, <1>2, <1>3, <2>1 DEF NewestInv
<1>8. ProbedInv'
  BY <1>3 DEF ProbedInv
<1>9. FreshInv'
  <2>1. ASSUME NEW r \in Latest(NoteRows(ingest.slot, ingest.note))'
        PROVE  r = new
    <3>1. r \in rows' /\ r.slot = ingest.slot /\ r.path = ingest.note /\ new.from <= r.from
      BY <1>1, <1>2, <1>3, <2>1 DEF Latest, NoteRows, SlotRows
    <3>2. CASE r \in rows
      <4>1. r.from = new.from
        <5>1. r.from <= ingest.file.mtime
          BY <1>2, <3>1, <3>2 DEF NewestInv
        <5>2. r.from \in Nat /\ ingest.file.mtime \in Nat
          BY <1>2, <3>2 DEF TypeOK, Row, IngestInv, File, Time
        <5> QED
          BY <1>1, <3>1, <5>1, <5>2
      <4>2. r \in rows' /\ new \in rows' /\ r.slot = new.slot
        BY <1>1, <3>1
      <4>3. TypeOK'
        BY InsertInv
      <4> QED
        BY <4>1, <4>2, <4>3 DEF TypeOK
    <3> QED
      BY <1>1, <3>1, <3>2
  <2> QED
    BY <1>1, <1>3, <2>1 DEF FreshInv, Latest, NoteRows, SlotRows
<1>10. OldFactsAreSealed'
  <2> SUFFICES ASSUME NEW r \in rows', ~r.sealed, r.kind = "fact", ~Retired(r.path)',
                      \A n \in Note : <<r.slot, n>> \notin unsealed'
               PROVE  CurrentIsLatest(r)'
    BY DEF OldFactsAreSealed
  <2>1. r.slot # ingest.slot
    BY <1>2, <1>4
  <2>2. r \in rows /\ CurrentIsLatest(r)
    BY <1>1, <1>2, <1>5, <2>1 DEF OldFactsAreSealed
  <2> QED
    BY <1>1, <1>5, <2>1, <2>2 DEF CurrentIsLatest, Latest, LiveRows, SlotRows
<1>11. ItemsKept'
  <2> SUFFICES ASSUME NEW r \in rows', r.kind = "item", ~Retired(r.path)',
                      <<r.slot, r.path>> \notin unsealed'
               PROVE  ~r.sealed <=> r \in Latest(NoteRows(r.slot, r.path))'
    BY DEF ItemsKept
  <2>1. r.slot # ingest.slot \/ r.path # ingest.note
    BY <1>2
  <2>2. r \in rows
    BY <1>1, <2>1
  <2>3. ~r.sealed <=> r \in Latest(NoteRows(r.slot, r.path))
    BY <1>2, <1>5, <2>2 DEF ItemsKept
  <2>4. (r \in Latest(NoteRows(r.slot, r.path))') <=> (r \in Latest(NoteRows(r.slot, r.path)))
    BY <1>1, <2>1, <2>2 DEF Latest, NoteRows, SlotRows
  <2> QED
    BY <2>3, <2>4
<1> QED
  BY <1>6, <1>7, <1>8, <1>9, <1>10, <1>11

\* Among rows there is a latest.
LEMMA LatestExists ==
    ASSUME TypeOK, NEW rs \in SUBSET rows, rs # {}
    PROVE  \E m \in rs : m \in Latest(rs)
<1>1. MaxTime \in Nat /\ \A r \in rs : r.from \in 1 .. MaxTime
  BY ConstantsAssumption DEF TypeOK, Row, Time
<1> DEFINE Ages == {MaxTime - r.from : r \in rs}
<1>2. Ages \in SUBSET Nat /\ Ages # {}
  BY <1>1
<1>3. PICK a \in Ages : \A b \in Ages : ~ (<<b, a>> \in OpToRel(<, Nat))
  <2> HIDE DEF Ages
  <2> QED
    BY <1>2, NatLessThanWellFounded, WFMin
<1>4. \A b \in Ages : ~ (b < a)
  BY <1>2, <1>3 DEF OpToRel
<1>5. PICK m \in rs : a = MaxTime - m.from
  BY <1>3
<1>6. ASSUME NEW r \in rs
      PROVE  r.from <= m.from
  <2>1. ~ (MaxTime - r.from < a)
    BY <1>4
  <2> QED
    BY <1>1, <1>5, <2>1
<1> QED
  BY <1>6 DEF Latest

\* The rows of the slot at hand have the kind of the claim at hand.
LEMMA KindAtHand ==
    ASSUME IInv, KindInv, ingest.pc \in {"seal", "unseal"},
           NEW r \in rows, r.slot = ingest.slot
    PROVE  r.kind = ingest.file.claims[ingest.slot].kind
<1>1. /\ ingest.slot \in Slot /\ ingest.file \in File
      /\ ingest.file.claims[ingest.slot] # NoClaim
  BY DEF IInv, IngestInv, TypeOK, Ingest
<1>2. ingest.file.claims[ingest.slot] \in Claim
  BY <1>1 DEF File, Claims
<1>3. ingest.file.claims[ingest.slot].kind \in Kind /\ r.kind \in Kind
  BY <1>2 DEF Claim, IInv, TypeOK, Row
<1>4. /\ KindSaid(ingest.slot, r.kind)
      /\ KindSaid(ingest.slot, ingest.file.claims[ingest.slot].kind)
  BY <1>1 DEF KindSaid
<1> QED
  BY <1>1, <1>3, <1>4 DEF KindInv

\* The seal closes every fact of the slot that is not the latest.
LEMMA SealSlots ==
    ASSUME IInv, SlotInv, IngestSeal
    PROVE  SlotInv'
<1> USE DEF IInv, SlotInv
<1> DEFINE isFact == ingest.file.claims[ingest.slot].kind = "fact"
           rs == IF isFact THEN FactsToSeal(ingest.slot)
                 ELSE ItemsToSeal(ingest.slot, ingest.note)
<1>1. /\ UNCHANGED <<now, disk, doc, edges, retire, cuts>> /\ rows' = Sealing(rs)
      /\ ingest.pc = "seal" /\ ingest' = [ingest EXCEPT !.pc = "unseal"]
      /\ unsealed' = unsealed \ ({ingest.slot} \X (IF isFact THEN Note ELSE {ingest.note}))
  BY DEF IngestSeal, IngestUnchanged
<1>2. rs \in SUBSET rows
  BY DEF FactsToSeal, ItemsToSeal, NoteRows, SlotRows
<1>3. ingest'.pc = "unseal" /\ ingest'.file = ingest.file /\ ingest'.note = ingest.note
  BY <1>1 DEF TypeOK, Ingest
<1>4. \A r \in rows : r.slot = ingest.slot => (r.kind = "fact" <=> isFact)
  BY <1>1, KindAtHand
<1>5. ASSUME NEW o \in rs
      PROVE  /\ o.slot = ingest.slot
             /\ o.kind = "item" => o.path = ingest.note
             /\ o.kind = "item" => o \notin Latest(NoteRows(o.slot, o.path))
  BY <1>4 DEF FactsToSeal, ItemsToSeal, NoteRows, SlotRows
<1>6. ASSUME NEW o \in rows \ rs, NEW n \in Note, o.kind = "fact", ~Retired(o.path),
             <<o.slot, n>> \in unsealed, <<o.slot, n>> \notin unsealed'
      PROVE  CurrentIsLatest(o)
  <2>1. o.slot = ingest.slot /\ isFact /\ o \in LiveRows(ingest.slot)
    BY <1>1, <1>4, <1>6 DEF LiveRows, SlotRows
  <2>2. PICK m \in LiveRows(ingest.slot) : m \in Latest(LiveRows(ingest.slot))
    BY <2>1, LatestExists DEF LiveRows, SlotRows
  <2>3. o \notin FactsToSeal(ingest.slot)
    BY <2>1
  <2>4. CASE o.from < m.from
    BY <2>1, <2>2, <2>3, <2>4 DEF FactsToSeal, CurrentIsLatest, SlotRows
  <2>5. CASE ~(o.from < m.from)
    <3>1. o.from = m.from
      BY <2>1, <2>2, <2>5 DEF Latest, LiveRows, SlotRows, TypeOK, Row, Time
    <3>2. o = m
      BY <2>1, <2>2, <3>1 DEF LiveRows, SlotRows, TypeOK
    <3> QED
      BY <2>1, <2>2, <3>2 DEF CurrentIsLatest
  <2> QED
    BY <2>4, <2>5
<1>7. ASSUME NEW o \in rows \ rs, o.kind = "item", ~Retired(o.path),
             <<o.slot, o.path>> \in unsealed, <<o.slot, o.path>> \notin unsealed'
      PROVE  ~o.sealed /\ o \in Latest(NoteRows(o.slot, o.path))
  <2>1. o.slot = ingest.slot /\ ~isFact /\ o.path = ingest.note
    BY <1>1, <1>4, <1>7
  <2>2. o \in Latest(NoteRows(ingest.slot, ingest.note))
    BY <2>1 DEF ItemsToSeal, NoteRows, SlotRows
  <2> QED
    BY <1>1, <1>7, <2>1, <2>2 DEF FreshInv
<1> HIDE DEF rs
<1>8. rows' = Flipped(rs, TRUE)
  BY <1>1, SealingFlips
<1>9. OldFactsAreSealed'
  BY <1>1, <1>2, <1>6, <1>8, FlipKeepsFacts
<1>10. ItemsKept'
  BY <1>1, <1>2, <1>5, <1>7, <1>8, FlipKeepsItems
<1>11. KindInv' /\ NewestInv'
  BY <1>1, <1>2, <1>3, <1>8, FlipKeepsKinds
<1> QED
  BY <1>3, <1>9, <1>10, <1>11 DEF ProbedInv, FreshInv

LEMMA UnsealSlots ==
    ASSUME IInv, SlotInv, IngestUnseal
    PROVE  SlotInv'
<1> USE DEF IInv, SlotInv
<1> DEFINE isFact == ingest.file.claims[ingest.slot].kind = "fact"
           rs == IF isFact THEN FactsToUnseal(ingest.slot)
                 ELSE ItemsToUnseal(ingest.slot, ingest.note)
           left == ingest.left \ {ingest.slot}
<1>1. /\ UNCHANGED <<now, disk, doc, edges, retire, cuts, unsealed>> /\ rows' = Unsealing(rs)
      /\ ingest.pc = "unseal" /\ ingest' = GoOn(left)
  BY DEF IngestUnseal, IngestUnchanged
<1>2. rs \in SUBSET rows
  BY DEF FactsToUnseal, ItemsToUnseal, LiveRows, NoteRows, SlotRows, Latest
<1>3. \A r \in rows : r.slot = ingest.slot => (r.kind = "fact" <=> isFact)
  BY <1>1, KindAtHand
<1>4. ASSUME NEW o \in rs
      PROVE  /\ o.kind = "fact" => CurrentIsLatest(o)
             /\ o.kind = "item" => o \in Latest(NoteRows(o.slot, o.path))
  BY <1>3 DEF FactsToUnseal, ItemsToUnseal, LiveRows, NoteRows, SlotRows, Latest, CurrentIsLatest
<1>5. left \in SUBSET Slot
  BY DEF TypeOK, Ingest
<1> HIDE DEF rs, left
<1>6. \/ ingest'.pc = "idle"
      \/ /\ ingest'.pc = "claims" /\ ingest'.file = ingest.file
         /\ ingest'.note = ingest.note
  BY <1>1, <1>5, GoOnTyped
<1>7. rows' = Flipped(rs, FALSE)
  BY <1>1, UnsealingFlips
<1>8. OldFactsAreSealed'
  BY <1>1, <1>2, <1>4, <1>7, FlipKeepsFacts
<1>9. ItemsKept'
  BY <1>1, <1>2, <1>4, <1>7, FlipKeepsItems
<1>10. KindInv' /\ NewestInv'
  BY <1>1, <1>2, <1>6, <1>7, FlipKeepsKinds
<1> QED
  BY <1>6, <1>8, <1>9, <1>10 DEF ProbedInv, FreshInv

\* The statements of record_supersedes and compact seal rows of retired notes
\* and reopen the latest live row of a fact slot.
LEMMA RetireSlots ==
    ASSUME IInv, SlotInv, NEW p \in Retirer, RetireStep(p)
    PROVE  SlotInv'
<1> USE DEF IInv, SlotInv
<1>1. UNCHANGED <<now, disk, doc, edges, ingest, cuts, unsealed>>
  BY DEF RetireStep, SealRetired, HandOver, RetireUnchanged
<1>2. PICK rs \in SUBSET rows, b \in BOOLEAN :
         /\ rows' = Flipped(rs, b)
         /\ b => \A o \in rs : Retired(o.path)
         /\ ~b => \A o \in rs : o.kind = "fact" /\ CurrentIsLatest(o)
  <2>1. CASE SealRetired(p)
    <3>1. PICK e \in retire[p].left :
             rows' = Sealing({r \in rows : r.path = e.older /\ Retired(e.older)})
      BY <2>1 DEF SealRetired
    <3> DEFINE rs == {r \in rows : r.path = e.older /\ Retired(e.older)}
    <3>2. rows' = Flipped(rs, TRUE)
      BY <3>1, SealingFlips
    <3>3. rs \in SUBSET rows /\ \A o \in rs : Retired(o.path)
      OBVIOUS
    <3> HIDE DEF rs
    <3> QED
      BY <3>2, <3>3
  <2>2. CASE HandOver(p)
    <3> DEFINE rs == HandedOver(retire[p].older)
    <3>1. rows' = Flipped(rs, FALSE)
      BY <2>2, UnsealingFlips DEF HandOver
    <3>2. rs \in SUBSET rows /\ \A o \in rs : o.kind = "fact" /\ CurrentIsLatest(o)
      BY DEF HandedOver, CurrentIsLatest
    <3> HIDE DEF rs
    <3> QED
      BY <3>1, <3>2
  <2> QED
    BY <2>1, <2>2 DEF RetireStep
<1>3. OldFactsAreSealed'
  BY <1>1, <1>2, FlipKeepsFacts
<1>4. ItemsKept'
  BY <1>1, <1>2, FlipKeepsItems
<1>5. KindInv' /\ NewestInv'
  <2>1. CASE ingest.pc = "idle"
    BY <1>1, <1>2, <2>1, FlipKeepsKinds
  <2>2. CASE ingest.pc # "idle"
    BY <1>1, <1>2, <2>2, FlipKeepsKinds
  <2> QED
    BY <2>1, <2>2
<1>6. ASSUME NEW r \in rows'
      PROVE  \E o \in rows :
                /\ Twin(r, o) /\ r.sealed = IF o \in rs THEN b ELSE o.sealed
                /\ \A s, n : (r \in Latest(NoteRows(s, n))') <=> (o \in Latest(NoteRows(s, n)))
  <2>1. PICK o \in rows : Twin(r, o) /\ r.sealed = IF o \in rs THEN b ELSE o.sealed
    BY <1>2, FlipTwins
  <2> QED
    BY <1>1, <1>2, <2>1, TwinsRankAlike
<1>7. ProbedInv'
  <2> SUFFICES ASSUME ingest.pc = "insert",
                      NEW r \in Latest(NoteRows(ingest.slot, ingest.note))',
                      r.kind = ingest.file.claims[ingest.slot].kind,
                      r.value = ingest.file.claims[ingest.slot].value
               PROVE  FALSE
    BY <1>1 DEF ProbedInv, claim_is_unchanged
  <2>1. PICK s, n : s = ingest.slot /\ n = ingest.note
    OBVIOUS
  <2>2. r \in rows' /\ r \in Latest(NoteRows(s, n))'
    BY <1>1, <2>1 DEF Latest, NoteRows, SlotRows
  <2>3. PICK o \in rows : Twin(r, o) /\ o \in Latest(NoteRows(s, n))
    BY <1>6, <2>2
  <2> QED
    BY <2>1, <2>3 DEF ProbedInv, claim_is_unchanged, Twin
<1>8. FreshInv'
  <2> SUFFICES ASSUME ingest.pc = "seal", ~Retired(ingest.note),
                      NEW r \in Latest(NoteRows(ingest.slot, ingest.note))'
               PROVE  ~r.sealed
    BY <1>1 DEF FreshInv, Retired
  <2>1. PICK s, n : s = ingest.slot /\ n = ingest.note
    OBVIOUS
  <2>2. r \in rows' /\ r \in Latest(NoteRows(s, n))'
    BY <1>1, <2>1 DEF Latest, NoteRows, SlotRows
  <2>3. PICK o \in rows : /\ r.sealed = IF o \in rs THEN b ELSE o.sealed
                         /\ o \in Latest(NoteRows(s, n))
    BY <1>6, <2>2
  <2>4. o.path = ingest.note /\ ~o.sealed
    BY <2>1, <2>3 DEF FreshInv, Latest, NoteRows
  <2> QED
    BY <1>2, <2>3, <2>4
<1> QED
  BY <1>3, <1>4, <1>5, <1>7, <1>8

\* The startup repair reopens the latest items of live notes only.
LEMMA RestartSlots ==
    ASSUME IInv, SlotInv, Restart
    PROVE  SlotInv'
<1> USE DEF IInv, SlotInv
<1>1. /\ UNCHANGED <<now, disk, doc, edges, unsealed>> /\ ingest' = IngestIdle
      /\ rows' = Unsealing(ItemsToReopen)
  BY DEF Restart
<1>2. ItemsToReopen \in SUBSET rows
  BY DEF ItemsToReopen
<1>3. rows' = Flipped(ItemsToReopen, FALSE) /\ ingest'.pc = "idle"
  BY <1>1, UnsealingFlips, IdleTyped
<1>4. \A o \in ItemsToReopen :
         o.kind # "fact" /\ o \in Latest(NoteRows(o.slot, o.path))
  BY DEF ItemsToReopen
<1>5. OldFactsAreSealed'
  BY <1>1, <1>2, <1>3, <1>4, FlipKeepsFacts
<1>6. ItemsKept'
  BY <1>1, <1>2, <1>3, <1>4, FlipKeepsItems
<1>7. KindInv' /\ NewestInv'
  BY <1>1, <1>2, <1>3, FlipKeepsKinds
<1> QED
  BY <1>3, <1>5, <1>6, <1>7 DEF ProbedInv, FreshInv

LEMMA SlotInvariance == Spec => [](IInv /\ SlotInv)
<1>1. IInv /\ SlotInv /\ [Next]_vars => SlotInv'
  BY EditSlots, ReadSlots, RecordSlots, InsertSlots, SealSlots, UnsealSlots, RetireSlots,
     RestartSlots DEF Next, IngestStep
<1> QED
  BY InitInv, InitSlots, NextInv, <1>1, PTL DEF Spec

\* Whatever order the notes are ingested in, and whatever edges, sweeps,
\* restarts and cut calls come between the statements: a current fact of a live
\* note is its slot's latest or the owner's, unless an insert's seal is open.
THEOREM OldFactsSealedAlways == Spec => []OldFactsAreSealed
<1>1. SlotInv => OldFactsAreSealed
  BY DEF SlotInv
<1> QED
  BY SlotInvariance, <1>1, PTL

\* Of a live note's rows in an item slot the latest is current and no earlier
\* one is, across other notes' ingests, sweeps and the startup repair.
THEOREM ItemsKeptAlways == Spec => []ItemsKept
<1>1. SlotInv => ItemsKept
  BY DEF SlotInv
<1> QED
  BY SlotInvariance, <1>1, PTL

\* Seals aside, the table only grows: as no two writes share an mtime, no
\* insert takes its ON CONFLICT branch and
\* overwrites what a note has said before.
THEOREM HistoryIsKept == Spec => [][\A o \in rows : \E r \in rows' : Twin(r, o)]_vars
<1> DEFINE Kept == \A o \in rows : \E r \in rows' : Twin(r, o)
<1>1. ASSUME IInv, SlotInv, [Next]_vars
      PROVE  Kept
  <2>1. CASE \E rs \in SUBSET rows, b \in BOOLEAN : rows' = Flipped(rs, b)
    BY <1>1, <2>1, FlipTwins DEF IInv
  <2>2. CASE IngestInsert
    <3>1. rows \subseteq rows'
      BY <1>1, <2>2, InsertAdds
    <3> QED
      BY <3>1 DEF Twin
  <2>3. CASE UNCHANGED rows
    BY <2>3 DEF Twin
  <2>4. ASSUME NEW rs \in SUBSET rows, rows' = Sealing(rs) \/ rows' = Unsealing(rs)
        PROVE  Kept
    BY <2>1, <2>4, SealingFlips, UnsealingFlips
  <2> HIDE DEF Kept
  <2>5. CASE IngestSeal
    <3> DEFINE rs == IF ingest.file.claims[ingest.slot].kind = "fact"
                     THEN FactsToSeal(ingest.slot) ELSE ItemsToSeal(ingest.slot, ingest.note)
    <3>1. rs \in SUBSET rows /\ rows' = Sealing(rs)
      BY <2>5 DEF IngestSeal, FactsToSeal, ItemsToSeal, NoteRows, SlotRows
    <3> HIDE DEF rs
    <3> QED
      BY <2>4, <3>1
  <2>6. CASE IngestUnseal
    <3> DEFINE rs == IF ingest.file.claims[ingest.slot].kind = "fact"
                     THEN FactsToUnseal(ingest.slot)
                     ELSE ItemsToUnseal(ingest.slot, ingest.note)
    <3>1. rs \in SUBSET rows /\ rows' = Unsealing(rs)
      BY <2>6 DEF IngestUnseal, FactsToUnseal, ItemsToUnseal, LiveRows, NoteRows, SlotRows, Latest
    <3> HIDE DEF rs
    <3> QED
      BY <2>4, <3>1
  <2>7. ASSUME NEW p \in Retirer, RetireStep(p)
        PROVE  Kept
    <3>1. CASE SealRetired(p)
      <4>1. PICK e \in retire[p].left :
               rows' = Sealing({r \in rows : r.path = e.older /\ Retired(e.older)})
        BY <3>1 DEF SealRetired
      <4> DEFINE rs == {r \in rows : r.path = e.older /\ Retired(e.older)}
      <4>2. rs \in SUBSET rows /\ rows' = Sealing(rs)
        BY <4>1
      <4> HIDE DEF rs
      <4> QED
        BY <2>4, <4>2
    <3>2. CASE HandOver(p)
      <4>1. HandedOver(retire[p].older) \in SUBSET rows
            /\ rows' = Unsealing(HandedOver(retire[p].older))
        BY <3>2 DEF HandOver, HandedOver
      <4> QED
        BY <2>4, <4>1
    <3> QED
      BY <2>7, <3>1, <3>2 DEF RetireStep
  <2>8. CASE Restart
    <3>1. ItemsToReopen \in SUBSET rows /\ rows' = Unsealing(ItemsToReopen)
      BY <2>8 DEF Restart, ItemsToReopen
    <3> QED
      BY <2>4, <3>1
  <2>9. CASE \/ \E n \in Note : Edit(n) \/ IngestStart(n)
             \/ IngestDocument
             \/ \E s \in Slot : IngestProbe(s)
             \/ \E p \in Retirer : Record(p) \/ Sweep(p) \/ CutRetire(p)
             \/ CutIngest
             \/ UNCHANGED vars
    BY <2>3, <2>9 DEF Edit, IngestStart, IngestDocument, IngestProbe, IngestUnchanged, Record,
       Sweep, CutRetire, RetireUnchanged, CutIngest, vars
  <2> QED
    BY <1>1, <2>2, <2>5, <2>6, <2>7, <2>8, <2>9 DEF Next, IngestStep
<1>2. IInv /\ SlotInv /\ [Next]_vars => [Kept]_vars
  BY <1>1
<1> QED
  BY SlotInvariance, <1>2, PTL DEF Spec
=============================================================================
