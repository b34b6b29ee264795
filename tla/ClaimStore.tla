----------------------------- MODULE ClaimStore -----------------------------
(***************************************************************************)
(* The engine's claim table (drudge/src/store.rs): how the notes' claims   *)
(* enter it (drudge/src/ingest.rs), how a new value seals the old one, how *)
(* a `supersedes` edge retires a note, and how compact and a restart repair*)
(* what was cut short.                                                     *)
(*                                                                         *)
(* No transaction spans two statements: each statement is one step here.   *)
(* sync, remember and the scheduler ingest under sync_lock, one note at a  *)
(* time; record_supersedes and `drudge compact` take no lock and run       *)
(* between any two statements of an ingest.                                *)
(***************************************************************************)
EXTENDS Integers, FiniteSets

CONSTANTS
    Note,      \* source paths in the vault
    Owner,     \* the notes whose document.author is 'owner'
    Slot,      \* (subject, predicate), canonical
    Value,     \* claimed values, with their confidence and anchor
    Retirer,   \* concurrent calls of record_supersedes and compact
    NoFile, NoClaim, NoDoc,
    MaxTime,   \* bound: writes of notes to the vault
    MaxEdge,   \* bound: supersedes edges
    MaxCut     \* bound: calls cut short, by an error, a cancelled request or a restart

Time == 1 .. MaxTime
Kind == {"fact", "item"}           \* item: risk, decision, next and the others

Claim == [kind : Kind, value : Value]
Claims == [Slot -> Claim \cup {NoClaim}]         \* a note's frontmatter, one claim a slot
File == [claims : Claims, mtime : Time]

ASSUME ConstantsAssumption ==
    /\ Note # {} /\ Slot # {} /\ Owner \subseteq Note
    /\ MaxTime \in Nat /\ MaxEdge \in Nat /\ MaxCut \in Nat
    /\ NoClaim \notin Claim /\ NoFile \notin File

Row == [slot : Slot, from : Time, path : Note, kind : Kind, value : Value, sealed : BOOLEAN]
Edge == [newer : Note, older : Note]

IngestPc == {"idle", "document", "claims", "insert", "seal", "unseal"}
RetirePc == {"idle", "seal", "hand"}

VARIABLES
    now, disk,    \* the vault; a file's mtime is its last write
    doc,          \* document: updated_at of the ingested notes
    rows,         \* claim; sealed is `superseded_at IS NOT NULL`
    edges,        \* edge, kind 'supersedes'
    ingest,       \* the ingest that holds sync_lock
    retire,       \* the calls that seal under edges
    cuts,
    unsealed      \* history: inserts whose seal has not run, as <<slot, note>>

vars == <<now, disk, doc, rows, edges, ingest, retire, cuts, unsealed>>

\* The file read, the slots whose claims are still to be written, the one at hand.
Ingest == [pc : IngestPc, note : Note, file : File \cup {NoFile}, left : SUBSET Slot, slot : Slot]
\* The edges still to be sealed under; the retired note at hand.
Retire == [pc : RetirePc, left : SUBSET Edge, older : Note]

IngestIdle == [pc |-> "idle", note |-> CHOOSE n \in Note : TRUE, file |-> NoFile,
               left |-> {}, slot |-> CHOOSE s \in Slot : TRUE]
RetireIdle == [pc |-> "idle", left |-> {}, older |-> CHOOSE n \in Note : TRUE]

TypeOK ==
    /\ now \in 0 .. MaxTime
    /\ disk \in [Note -> File \cup {NoFile}]
    /\ doc \in [Note -> Time \cup {NoDoc}]
    /\ rows \in SUBSET Row
    /\ \A r, o \in rows : r.slot = o.slot /\ r.from = o.from => r = o     \* the primary key
    /\ edges \in SUBSET Edge
    /\ ingest \in Ingest
    /\ retire \in [Retirer -> Retire]
    /\ cuts \in 0 .. MaxCut
    /\ unsealed \in SUBSET (Slot \X Note)

Init ==
    /\ now = 0
    /\ disk = [n \in Note |-> NoFile]
    /\ doc = [n \in Note |-> NoDoc]
    /\ rows = {}
    /\ edges = {}
    /\ ingest = IngestIdle
    /\ retire = [p \in Retirer |-> RetireIdle]
    /\ cuts = 0
    /\ unsealed = {}

-----------------------------------------------------------------------------
(* The queries the statements are built from.                              *)

\* RETIRED_NOTE: an owner's note yields to an owner's newer note only.
Retired(n) == \E e \in edges : e.older = n /\ (e.newer \in Owner \/ n \notin Owner)

SlotRows(s) == {r \in rows : r.slot = s}
LiveRows(s) == {r \in SlotRows(s) : ~Retired(r.path)}
NoteRows(s, n) == {r \in SlotRows(s) : r.path = n}
Latest(rs) == {r \in rs : \A o \in rs : o.from <= r.from}     \* at most one: the key

\* UPDATE claim SET superseded_at, on the rows of rs.
Sealing(rs) == (rows \ rs) \cup {[r EXCEPT !.sealed = TRUE] : r \in rs}
Unsealing(rs) == (rows \ rs) \cup {[r EXCEPT !.sealed = FALSE] : r \in rs}

-----------------------------------------------------------------------------
(* The vault.                                                              *)

\* A slot is claimed under one kind: see "What is left out" in the README.
OneKind(s, k) ==
    /\ \A r \in SlotRows(s) : r.kind = k
    /\ \A n \in Note : disk[n] # NoFile /\ disk[n].claims[s] # NoClaim =>
           disk[n].claims[s].kind = k
    /\ ingest.file # NoFile /\ ingest.file.claims[s] # NoClaim => ingest.file.claims[s].kind = k

Edit(n) ==
    /\ now < MaxTime
    /\ now' = now + 1
    /\ \E c \in Claims :
          /\ \A s \in Slot : c[s] # NoClaim => OneKind(s, c[s].kind)
          /\ disk' = [disk EXCEPT ![n] = [claims |-> c, mtime |-> now + 1]]
    /\ UNCHANGED <<doc, rows, edges, ingest, retire, cuts, unsealed>>

-----------------------------------------------------------------------------
(* One note's ingest, under sync_lock.                                     *)

IngestUnchanged == UNCHANGED <<now, disk, edges, retire, cuts>>
GoOn(left) == IF left = {} THEN IngestIdle
              ELSE [ingest EXCEPT !.pc = "claims", !.left = left, !.slot = IngestIdle.slot]

\* ingest_file: the file and its mtime are read.
IngestStart(n) ==
    /\ ingest.pc = "idle"
    /\ disk[n] # NoFile
    /\ ingest' = [ingest EXCEPT !.pc = "document", !.note = n, !.file = disk[n]]
    /\ UNCHANGED <<doc, rows, unsealed>> /\ IngestUnchanged

IngestDocumentUnstored ==
    /\ ingest.pc = "document"
    /\ ingest' = GoOn({s \in Slot : ingest.file.claims[s] # NoClaim})
    /\ UNCHANGED <<doc, rows, unsealed>> /\ IngestUnchanged

\* upsert_document, or set_updated_at when the sha is the same; either way the
\* claims are gone through again.
IngestDocument ==
    /\ ingest.pc = "document"
    /\ doc' = [doc EXCEPT ![ingest.note] = ingest.file.mtime]
    /\ ingest' = GoOn({s \in Slot : ingest.file.claims[s] # NoClaim})
    /\ UNCHANGED <<rows, unsealed>> /\ IngestUnchanged

claim_was_said(s, n, claim) ==
    \E r \in NoteRows(s, n) : r.kind = claim.kind /\ r.value = claim.value

\* claim_is_unchanged: the note's own latest row in the slot says the same.
claim_is_unchanged(s, n, claim) ==
    \E r \in Latest(NoteRows(s, n)) : r.kind = claim.kind /\ r.value = claim.value

\* The probe; the value is embedded before the insert.
IngestProbe(s) ==
    /\ ingest.pc = "claims" /\ s \in ingest.left
    /\ ingest' = IF claim_is_unchanged(s, ingest.note, ingest.file.claims[s])
                 THEN GoOn(ingest.left \ {s})
                 ELSE [ingest EXCEPT !.pc = "insert", !.slot = s]
    /\ UNCHANGED <<doc, rows, unsealed>> /\ IngestUnchanged

\* INSERT ... ON CONFLICT (subject, predicate, valid_from) DO UPDATE: an
\* existing row keeps its superseded_at.
IngestInsert ==
    LET s == ingest.slot
        claim == ingest.file.claims[s]
        from == doc[ingest.note]
        clash == {r \in SlotRows(s) : r.from = from}
    IN  /\ ingest.pc = "insert"
        /\ rows' = (rows \ clash) \cup
               {[slot |-> s, from |-> from, path |-> ingest.note, kind |-> claim.kind,
                 value |-> claim.value, sealed |-> \E r \in clash : r.sealed]}
        /\ ingest' = [ingest EXCEPT !.pc = "seal"]
        /\ unsealed' = unsealed \cup {<<s, ingest.note>>}
        /\ UNCHANGED doc /\ IngestUnchanged

\* "seal old claims": a fact below the slot's latest live row, unless it is the
\* owner's and that row is not; an item below the note's own latest row.
FactsToSealOwn(s) ==
    {r \in SlotRows(s) : \E m \in Latest(LiveRows(s)) : r.from < m.from /\ r.path = m.path}
FactsToSeal(s) ==
    {r \in SlotRows(s) : \E m \in Latest(LiveRows(s)) :
        r.from < m.from /\ (r.path \notin Owner \/ m.path \in Owner)}
ItemsToSealAcross(s, n) == SlotRows(s) \ Latest(SlotRows(s))
ItemsToSeal(s, n) == NoteRows(s, n) \ Latest(NoteRows(s, n))

IngestSeal ==
    LET s == ingest.slot
        isFact == ingest.file.claims[s].kind = "fact"
    IN
    /\ ingest.pc = "seal"
    /\ rows' = Sealing(IF isFact THEN FactsToSeal(s) ELSE ItemsToSeal(s, ingest.note))
    /\ unsealed' = unsealed \ ({s} \X (IF isFact THEN Note ELSE {ingest.note}))
    /\ ingest' = [ingest EXCEPT !.pc = "unseal"]
    /\ UNCHANGED doc /\ IngestUnchanged

\* "unseal latest claim".
FactsToUnseal(s) == Latest(LiveRows(s))
ItemsToUnsealAll(s, n) == Latest(NoteRows(s, n))
ItemsToUnseal(s, n) == {r \in Latest(NoteRows(s, n)) : ~Retired(n)}

IngestUnseal ==
    LET s == ingest.slot IN
    /\ ingest.pc = "unseal"
    /\ rows' = Unsealing(IF ingest.file.claims[s].kind = "fact" THEN FactsToUnseal(s)
                         ELSE ItemsToUnseal(s, ingest.note))
    /\ ingest' = GoOn(ingest.left \ {s})
    /\ UNCHANGED <<doc, unsealed>> /\ IngestUnchanged

-----------------------------------------------------------------------------
(* record_supersedes and compact's sweep: p seals under edges.             *)

RetireUnchanged == UNCHANGED <<now, disk, doc, ingest, cuts, unsealed>>

\* record_supersedes on one pair: both notes are known, the edge is added.
Record(p) ==
    /\ retire[p].pc = "idle"
    /\ \E e \in Edge :
          /\ e.newer # e.older /\ doc[e.newer] # NoDoc /\ doc[e.older] # NoDoc
          /\ e \in edges \/ Cardinality(edges) < MaxEdge
          /\ edges' = edges \cup {e}
          /\ retire' = [retire EXCEPT ![p] = [RetireIdle EXCEPT !.pc = "seal", !.left = {e}]]
    /\ UNCHANGED rows /\ RetireUnchanged

SweepNothing(p) ==
    /\ retire[p].pc = "idle"
    /\ edges # {}
    /\ UNCHANGED <<retire, rows, edges>> /\ RetireUnchanged

\* seal_claims_under_supersedes_edges: the edges are listed once.
Sweep(p) ==
    /\ retire[p].pc = "idle"
    /\ edges # {}
    /\ retire' = [retire EXCEPT ![p] = [RetireIdle EXCEPT !.pc = "seal", !.left = edges]]
    /\ UNCHANGED <<rows, edges>> /\ RetireUnchanged

\* seal_superseded_claims, the first statement.
SealRetired(p) ==
    /\ retire[p].pc = "seal"
    /\ \E e \in retire[p].left :
          /\ rows' = Sealing({r \in rows : r.path = e.older /\ Retired(e.older)})
          /\ retire' = [retire EXCEPT ![p] = [pc |-> "hand", left |-> @.left \ {e},
                                              older |-> e.older]]
    /\ UNCHANGED edges /\ RetireUnchanged

\* The second: each fact slot the note touched goes to its latest live row.
HandedOverAny(n) == {r \in rows : r.kind = "fact" /\ r \in Latest(SlotRows(r.slot))
                               /\ \E o \in NoteRows(r.slot, n) : o.kind = "fact"}
HandedOver(n) == {r \in rows : r.kind = "fact" /\ r \in Latest(LiveRows(r.slot))
                               /\ \E o \in NoteRows(r.slot, n) : o.kind = "fact"}

HandOver(p) ==
    /\ retire[p].pc = "hand"
    /\ rows' = Unsealing(HandedOver(retire[p].older))
    /\ retire' = [retire EXCEPT ![p] = IF @.left = {} THEN RetireIdle
                                       ELSE [@ EXCEPT !.pc = "seal", !.older = RetireIdle.older]]
    /\ UNCHANGED edges /\ RetireUnchanged

-----------------------------------------------------------------------------
(* Calls cut short.                                                        *)

\* A statement or the embedding fails, or the request is cancelled.
CutIngest ==
    /\ cuts < MaxCut /\ ingest.pc # "idle"
    /\ cuts' = cuts + 1
    /\ ingest' = IngestIdle
    /\ UNCHANGED <<now, disk, doc, rows, edges, retire, unsealed>>

CutRetire(p) ==
    /\ cuts < MaxCut /\ retire[p].pc # "idle"
    /\ cuts' = cuts + 1
    /\ retire' = [retire EXCEPT ![p] = RetireIdle]
    /\ UNCHANGED <<now, disk, doc, rows, edges, ingest, unsealed>>

\* The engine restarts; Store::open reopens every note's latest item that no
\* edge retires.
ItemsToReopen == {r \in rows : r.kind # "fact" /\ r \in Latest(NoteRows(r.slot, r.path))
                               /\ ~Retired(r.path)}
Restart ==
    /\ cuts < MaxCut
    /\ cuts' = cuts + 1
    /\ ingest' = IngestIdle
    /\ retire' = [p \in Retirer |-> RetireIdle]
    /\ rows' = Unsealing(ItemsToReopen)
    /\ UNCHANGED <<now, disk, doc, edges, unsealed>>

IngestStep ==
    \/ IngestDocument \/ IngestInsert \/ IngestSeal \/ IngestUnseal
    \/ \E s \in Slot : IngestProbe(s)

RetireStep(p) == SealRetired(p) \/ HandOver(p)

Next ==
    \/ \E n \in Note : Edit(n) \/ IngestStart(n)
    \/ IngestStep
    \/ \E p \in Retirer : Record(p) \/ Sweep(p) \/ RetireStep(p) \/ CutRetire(p)
    \/ CutIngest
    \/ Restart

Spec == Init /\ [][Next]_vars

\* The scheduler syncs every note and runs compact again and again.
Fairness ==
    /\ WF_vars(IngestStep)
    /\ \A n \in Note : SF_vars(IngestStart(n))
    /\ \A p \in Retirer : WF_vars(RetireStep(p))
    /\ SF_vars(\E p \in Retirer : Sweep(p))

FairSpec == Spec /\ Fairness

-----------------------------------------------------------------------------

CurrentIsLatest(r) == r.path \in Owner \/ r \in Latest(LiveRows(r.slot))

\* A fact slot has one current value: a current row of a live note is the
\* slot's latest, or the owner's.  An insert whose seal has not run yet, or was
\* cut off, is the only exception.
OldFactsAreSealed ==
    \A r \in rows : ~r.sealed /\ r.kind = "fact" /\ ~Retired(r.path) =>
        CurrentIsLatest(r) \/ \E n \in Note : <<r.slot, n>> \in unsealed

\* Items of a note that no edge retires: the latest is current, and an earlier
\* one is not, whatever other notes, restarts and sweeps did meanwhile.
ItemsKept ==
    \A r \in rows : r.kind = "item" /\ ~Retired(r.path) /\ <<r.slot, r.path>> \notin unsealed =>
        (~r.sealed <=> r \in Latest(NoteRows(r.slot, r.path)))

\* Nothing reopens a row of a retired note: its seals are kept.
SealsHold == [][\A r \in rows : r.sealed /\ Retired(r.path) => r \in rows']_vars

Believed(n) ==
    disk[n] # NoFile => \A s \in Slot : disk[n].claims[s] # NoClaim =>
        \E r \in Latest(NoteRows(s, n)) :
            [kind |-> r.kind, value |-> r.value] = disk[n].claims[s]

\* The claims converge to the vault: what the notes on disk say becomes their
\* own latest rows.
Converges == []<>(\A n \in Note : Believed(n))

\* A note an edge retires ends with no current row, also when it was being
\* ingested, or the call that recorded the edge was cut short.
RetiredIsSealed == []<>(\A r \in rows : Retired(r.path) => r.sealed)

\* A fact slot with a live row does not end without a current one.
SlotIsHandedOn ==
    []<>(\A s \in Slot : \A r \in Latest(LiveRows(s)) : r.kind = "fact" => ~r.sealed)

\* upsert_claim's doc: old values are sealed across notes and only the latest
\* row is current; re-ingesting is harmless.
OldFactsGetSealed ==
    []<>(\A r \in rows : ~r.sealed /\ r.kind = "fact" /\ ~Retired(r.path) => CurrentIsLatest(r))
=============================================================================
