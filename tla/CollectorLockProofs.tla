------------------------- MODULE CollectorLockProofs -------------------------
(***************************************************************************)
(* The run lock for any number of runs, hosts and sessions: type           *)
(* correctness and Exclusive.                                              *)
(*                                                                         *)
(* Exclusive is not inductive.  What keeps a second run out is that the    *)
(* file at the path is the one the working run created (HeldInv), and that *)
(* only a run which judged that very file too old goes on to unlink it     *)
(* (JudgedInv), which makes the file's owner a late run (OldInv).          *)
(***************************************************************************)
EXTENDS CollectorLock, FiniteSetTheorems, TLAPS

\* No file has no creator.
AbsentInv == lock.state = "absent" => lock.by = Gone

\* A lock that is too old belongs to a late run, or to nobody any more.
OldInv == lock.old /\ lock.by # Gone => lock.by \in late

\* A run about to unlink read the pid of a process that is gone or late.
JudgedInv == \A q \in Run : pc[q] = "unlink" /\ saw[q] # Gone => saw[q] \in late

\* A run in its batch that is not late still has its file at the path.
HeldInv == ~missed => \A r \in Inside \ late : lock.by = r

IInv == TypeOK /\ AbsentInv /\ OldInv /\ JudgedInv /\ HeldInv

-----------------------------------------------------------------------------
\* The batch that a run cuts from its todo is a set of at most Limit sessions.
LEMMA BatchFits ==
    ASSUME NEW todo \in SUBSET Session, NEW limit \in Nat \ {0}, limit <= Limit,
           NEW b \in Batches(todo, limit)
    PROVE  b \in SUBSET Session /\ Cardinality(b) <= Limit
<1>1. IsFiniteSet(todo)
  BY LockAssumption, FS_Subset
<1>2. Cardinality(todo) \in Nat
  BY <1>1, FS_CardinalityType
<1>3. CASE Cardinality(todo) <= limit
  BY <1>2, <1>3, LockAssumption DEF Batches
<1>4. CASE ~(Cardinality(todo) <= limit)
  BY <1>4, LockAssumption DEF Batches
<1> QED
  BY <1>3, <1>4

\* Taking a session out of a batch leaves it within the limit.
LEMMA BatchShrinks ==
    ASSUME NEW b \in SUBSET Session, Cardinality(b) <= Limit, NEW s \in b
    PROVE  b \ {s} \in SUBSET Session /\ Cardinality(b \ {s}) <= Limit
<1>1. IsFiniteSet(b)
  BY LockAssumption, FS_Subset
<1>2. Cardinality(b) \in Nat /\ Cardinality(b \ {s}) = Cardinality(b) - 1
  BY <1>1, FS_CardinalityType, FS_RemoveElement
<1> QED
  BY <1>2, LockAssumption

\* The empty batch is within the limit.
LEMMA BatchEmpty == Cardinality({}) <= Limit
BY FS_EmptySet, LockAssumption

-----------------------------------------------------------------------------
LEMMA InitTypeOK == Init => TypeOK
<1> SUFFICES ASSUME Init PROVE TypeOK
  OBVIOUS
<1>1. lock \in File
  BY LockAssumption DEF Init, File, Absent
<1>2. pc \in [Run -> Pc]
  BY DEF Init, Pc
<1>3. batch \in [Run -> SUBSET Session] /\ \A r \in Run : Cardinality(batch[r]) <= Limit
  BY BatchEmpty DEF Init
<1>4. at \in [Run -> Session \cup {NoSession}] /\ \A r \in Run : at[r] # NoSession => pc[r] = "working"
  BY DEF Init
<1>5. crashes \in 0 .. MaxCrash
  BY LockAssumption DEF Init
<1> QED
  BY <1>1, <1>2, <1>3, <1>4, <1>5 DEF Init, TypeOK

\* A process that exits keeps the types, whatever file it leaves.
LEMMA EndsTypeOK ==
    ASSUME TypeOK, NEW r \in Run, NEW file \in File, Ends(r, file)
    PROVE  /\ lock' \in File
           /\ pc' \in [Run -> Pc]
           /\ batch' \in [Run -> SUBSET Session] /\ \A q \in Run : Cardinality(batch'[q]) <= Limit
           /\ at' \in [Run -> Session \cup {NoSession}]
           /\ \A q \in Run : at'[q] # NoSession => pc'[q] = "working"
           /\ saw' \in [Run -> Run \cup {Gone}]
           /\ late' \in SUBSET Run
<1>1. lock' \in File
  BY DEF Ends, File
<1>2. pc' \in [Run -> Pc]
  BY DEF Ends, Goes, TypeOK, Pc
<1>3. batch' \in [Run -> SUBSET Session] /\ \A q \in Run : Cardinality(batch'[q]) <= Limit
  BY BatchEmpty DEF Ends, TypeOK
<1>4. at' \in [Run -> Session \cup {NoSession}]
  BY DEF Ends, TypeOK
<1>5. \A q \in Run : at'[q] # NoSession => pc'[q] = "working"
  BY DEF Ends, Goes, TypeOK
<1>6. saw' \in [Run -> Run \cup {Gone}] /\ late' \in SUBSET Run
  BY DEF Ends, TypeOK
<1> QED
  BY <1>1, <1>2, <1>3, <1>4, <1>5, <1>6

LEMMA NextTypeOK == TypeOK /\ [Next]_vars => TypeOK'
<1> SUFFICES ASSUME TypeOK, [Next]_vars PROVE TypeOK'
  OBVIOUS
<1>file. lock \in File /\ Absent \in File
  BY LockAssumption DEF TypeOK, File, Absent
<1>1. ASSUME NEW r \in Run, NEW todo \in SUBSET Session, NEW limit \in Nat \ {0}, limit <= Limit,
             Starts(r, todo, limit)
      PROVE  TypeOK'
  <2>1. PICK b \in Batches(todo, limit) : batch' = [batch EXCEPT ![r] = b]
    BY <1>1 DEF Starts
  <2>2. b \in SUBSET Session /\ Cardinality(b) <= Limit
    BY <1>1, BatchFits
  <2>3. batch' \in [Run -> SUBSET Session] /\ \A q \in Run : Cardinality(batch'[q]) <= Limit
    BY <2>1, <2>2 DEF TypeOK
  <2>4. pc' \in [Run -> Pc] /\ \A q \in Run : at'[q] # NoSession => pc'[q] = "working"
    BY <1>1 DEF Starts, Goes, TypeOK, Pc
  <2> QED
    BY <1>1, <2>3, <2>4 DEF Starts, TypeOK
<1>2. ASSUME NEW r \in Run, Look(r) PROVE TypeOK'
  <2>1. CASE LookAt(r) = "idle"
    BY <1>2, <1>file, <2>1, EndsTypeOK DEF Look, TypeOK
  <2>2. CASE LookAt(r) # "idle"
    <3>1. pc' \in [Run -> Pc] /\ pc' = [pc EXCEPT ![r] = LookAt(r)] /\ pc[r] = "acquire"
      BY <1>2, <2>2 DEF Look, LookAt, Goes, TypeOK, Pc
    <3>2. saw' \in [Run -> Run \cup {Gone}]
      BY <1>2, <2>2 DEF Look, TypeOK, File
    <3> QED
      BY <1>2, <2>2, <3>1, <3>2 DEF Look, TypeOK
  <2> QED
    BY <2>1, <2>2
<1>3. ASSUME NEW r \in Run, CheckPid(r) PROVE TypeOK'
  <2>1. CASE saw[r] = Gone
    BY <1>3, <2>1 DEF CheckPid, Goes, TypeOK, Pc
  <2>2. CASE saw[r] # Gone
    BY <1>3, <1>file, <2>2, EndsTypeOK DEF CheckPid, TypeOK
  <2> QED
    BY <2>1, <2>2
<1>4. ASSUME NEW r \in Run, Unlink(r) PROVE TypeOK'
  BY <1>4, <1>file DEF Unlink, Goes, Misses, TypeOK, Pc
<1>5. ASSUME NEW r \in Run, Create(r) PROVE TypeOK'
  <2>1. CASE CanCreate(r)
    <3>1. lock' \in File
      <4>1. \A h \in BOOLEAN : [state |-> "empty", by |-> r, old |-> FALSE, host |-> h] \in File
        BY DEF File
      <4>2. (r \in Host) \in BOOLEAN
        OBVIOUS
      <4> QED
        BY <1>5, <2>1, <4>1, <4>2, Zenon DEF Create
    <3>2. pc' \in [Run -> Pc] /\ \A q \in Run : at'[q] # NoSession => pc'[q] = "working"
      BY <1>5, <2>1 DEF Create, Goes, TypeOK, Pc
    <3> QED
      BY <1>5, <2>1, <3>1, <3>2 DEF Create, TypeOK
  <2>2. CASE ~CanCreate(r)
    BY <1>5, <1>file, <2>2, EndsTypeOK DEF Create, TypeOK
  <2> QED
    BY <2>1, <2>2
<1>6. ASSUME NEW r \in Run, Write(r) PROVE TypeOK'
  <2>1. lock' \in File
    BY <1>6 DEF Write, TypeOK, File
  <2> QED
    BY <1>6, <2>1 DEF Write, Goes, TypeOK, Pc
<1>7. ASSUME NEW r \in Run, HandOver(r) PROVE TypeOK'
  <2>1. PICK s \in batch[r] : at' = [at EXCEPT ![r] = s] /\ batch' = [batch EXCEPT ![r] = @ \ {s}]
    BY <1>7 DEF HandOver
  <2>2. batch[r] \ {s} \in SUBSET Session /\ Cardinality(batch[r] \ {s}) <= Limit
    BY BatchShrinks DEF TypeOK
  <2>3. batch' \in [Run -> SUBSET Session] /\ \A q \in Run : Cardinality(batch'[q]) <= Limit
    BY <2>1, <2>2 DEF TypeOK
  <2>4. at' \in [Run -> Session \cup {NoSession}] /\ \A q \in Run : at'[q] # NoSession => pc'[q] = "working"
    BY <1>7, <2>1 DEF HandOver, TypeOK
  <2> QED
    BY <1>7, <2>3, <2>4 DEF HandOver, TypeOK
<1>8. ASSUME NEW r \in Run, HandedOver(r) PROVE TypeOK'
  BY <1>8 DEF HandedOver, TypeOK
<1>9. ASSUME NEW r \in Run, Finish(r) PROVE TypeOK'
  <2>1. CASE Mine(r)
    BY <1>9, <2>1, BatchEmpty DEF Finish, HookDone, Goes, TypeOK, Pc
  <2>2. CASE ~Mine(r)
    BY <1>9, <1>file, <2>2, EndsTypeOK DEF Finish, TypeOK
  <2> QED
    BY <2>1, <2>2
<1>10. ASSUME NEW r \in Run, ReleaseUnlink(r) PROVE TypeOK'
  BY <1>10, <1>file, EndsTypeOK DEF ReleaseUnlink, Misses, TypeOK
<1>11. ASSUME NEW r \in Run, Crash(r) PROVE TypeOK'
  <2>1. crashes' \in 0 .. MaxCrash
    BY <1>11, LockAssumption DEF Crash, TypeOK
  <2> QED
    BY <1>11, <1>file, <2>1, EndsTypeOK DEF Crash, TypeOK
<1>12. ASSUME Age PROVE TypeOK'
  <2>1. lock' \in File /\ late' \in SUBSET Run
    BY <1>12 DEF Age, TypeOK, File
  <2> QED
    BY <1>12, <2>1 DEF Age, TypeOK
<1>13. ASSUME NEW s \in Session, Forget(s) PROVE TypeOK'
  BY <1>13 DEF Forget, TypeOK
<1>14. CASE UNCHANGED vars
  BY <1>14 DEF vars, TypeOK
<1>15. ASSUME NEW r \in Run, Scan(r) \/ ScanNow(r) PROVE TypeOK'
  BY <1>15, <1>1, LockAssumption DEF Scan, ScanNow
<1> QED
  BY <1>2, <1>3, <1>4, <1>5, <1>6, <1>7, <1>8, <1>9, <1>10, <1>11, <1>12, <1>13, <1>14, <1>15
  DEF Next, GoesOn

-----------------------------------------------------------------------------
LEMMA InitIInv == Init => IInv
BY InitTypeOK DEF Init, IInv, AbsentInv, OldInv, JudgedInv, HeldInv, Inside, Section, Absent

\* A process that exits and leaves the file as it is keeps the invariant.
LEMMA EndsKeeps ==
    ASSUME IInv, NEW r \in Run, Ends(r, lock), missed' = missed
    PROVE  AbsentInv' /\ OldInv' /\ JudgedInv' /\ HeldInv'
<1>1. lock'.state = lock.state /\ lock'.old = lock.old
      /\ lock'.by = IF lock.by = r THEN Gone ELSE lock.by
  BY DEF Ends, IInv, TypeOK, File
<1>2. AbsentInv' /\ OldInv'
  BY <1>1 DEF IInv, AbsentInv, OldInv, Ends
<1>3. JudgedInv'
  BY DEF IInv, JudgedInv, Ends, Goes, TypeOK, Pc
<1>4. HeldInv'
  BY <1>1 DEF IInv, HeldInv, Inside, Section, Ends, Goes, TypeOK, Pc
<1> QED
  BY <1>2, <1>3, <1>4

\* An unlink by path keeps the invariant if it says when it missed: the run that
\* it takes the file from was meant, and is late, gone, or the one that unlinks.
LEMMA UnlinkKeepsHeld ==
    ASSUME IInv, NEW r \in Run, NEW meant \in Run \cup {Gone},
           meant = Gone \/ meant \in late \/ meant = r,
           missed' = (missed \/ Misses(r, meant)),
           lock' = Absent,
           NEW q \in Run, pc[q] \in Section, q \notin late, q # r
    PROVE  missed'
<1>1. CASE missed
  BY <1>1 DEF IInv, TypeOK
<1>2. CASE ~missed
  <2>1. lock.by = q
    BY <1>2 DEF IInv, HeldInv, Inside
  <2>2. q # Gone /\ lock.state # "absent"
    BY <2>1, LockAssumption DEF IInv, AbsentInv
  <2>3. Misses(r, meant)
    BY <2>1, <2>2 DEF Misses
  <2> QED
    BY <2>3
<1> QED
  BY <1>1, <1>2

LEMMA NextIInv == IInv /\ [Next]_vars => IInv'
<1> SUFFICES ASSUME IInv, [Next]_vars PROVE IInv'
  OBVIOUS
<1>t. TypeOK /\ TypeOK'
  BY NextTypeOK DEF IInv
<1>1. ASSUME NEW r \in Run, Scan(r) \/ ScanNow(r) PROVE IInv'
  BY <1>1, <1>t DEF Scan, ScanNow, Starts, Goes, IInv, TypeOK, AbsentInv, OldInv, JudgedInv, HeldInv, Inside, Section
<1>2. ASSUME NEW r \in Run, Look(r) PROVE IInv'
  <2>1. CASE LookAt(r) = "idle"
    BY <1>2, <1>t, <2>1, EndsKeeps DEF Look, IInv
  <2>2. CASE LookAt(r) # "idle"
    <3>1. AbsentInv' /\ OldInv'
      BY <1>2, <2>2 DEF Look, IInv, AbsentInv, OldInv
    <3>2. JudgedInv'
      BY <1>2, <1>t, <2>2 DEF Look, LookAt, Goes, IInv, JudgedInv, OldInv, TypeOK, File
    <3>3. HeldInv'
      BY <1>2, <1>t, <2>2 DEF Look, LookAt, Goes, IInv, HeldInv, Inside, Section, TypeOK
    <3> QED
      BY <1>t, <3>1, <3>2, <3>3 DEF IInv
  <2> QED
    BY <2>1, <2>2
<1>3. ASSUME NEW r \in Run, CheckPid(r) PROVE IInv'
  <2>1. CASE saw[r] = Gone
    BY <1>3, <1>t, <2>1 DEF CheckPid, Goes, IInv, AbsentInv, OldInv, JudgedInv, HeldInv, Inside, Section, TypeOK
  <2>2. CASE saw[r] # Gone
    BY <1>3, <1>t, <2>2, EndsKeeps DEF CheckPid, IInv
  <2> QED
    BY <2>1, <2>2
<1>4. ASSUME NEW r \in Run, Unlink(r) PROVE IInv'
  <2>1. AbsentInv' /\ OldInv'
    BY <1>4 DEF Unlink, AbsentInv, OldInv, Absent
  <2>2. JudgedInv'
    BY <1>4, <1>t DEF Unlink, Goes, IInv, JudgedInv, TypeOK
  <2>3. saw[r] \in Run \cup {Gone} /\ (saw[r] = Gone \/ saw[r] \in late)
    BY <1>4, <1>t DEF Unlink, IInv, JudgedInv, TypeOK
  <2>4. ASSUME NEW q \in Inside' \ late' PROVE missed'
    <3>1. q \in Run /\ pc[q] \in Section /\ q \notin late /\ q # r
      BY <1>4, <1>t, <2>4 DEF Unlink, Goes, Inside, Section, TypeOK
    <3> QED
      BY <1>4, <2>3, <3>1, UnlinkKeepsHeld DEF Unlink
  <2> QED
    BY <1>t, <2>1, <2>2, <2>4 DEF IInv, HeldInv
<1>5. ASSUME NEW r \in Run, Create(r) PROVE IInv'
  <2>1. CASE CanCreate(r)
    <3>1. lock'.by = r /\ lock'.state = "empty" /\ ~lock'.old /\ lock.by = Gone
      BY <1>5, <2>1 DEF Create, CanCreate, IInv, AbsentInv
    <3>2. AbsentInv' /\ OldInv'
      BY <3>1 DEF AbsentInv, OldInv
    <3>3. JudgedInv'
      BY <1>5, <1>t, <2>1 DEF Create, Goes, IInv, JudgedInv, TypeOK
    <3>4. HeldInv'
      BY <1>5, <1>t, <2>1, <3>1, LockAssumption DEF Create, Goes, IInv, HeldInv, Inside, Section, TypeOK
    <3> QED
      BY <1>t, <3>2, <3>3, <3>4 DEF IInv
  <2>2. CASE ~CanCreate(r)
    BY <1>5, <1>t, <2>2, EndsKeeps DEF Create, IInv
  <2> QED
    BY <2>1, <2>2
<1>6. ASSUME NEW r \in Run, Write(r) PROVE IInv'
  <2>1. lock'.by = lock.by /\ lock'.old = lock.old /\ (lock'.state = "absent" => lock.state = "absent")
    BY <1>6 DEF Write, IInv, TypeOK, File
  <2>2. AbsentInv' /\ OldInv'
    BY <1>6, <2>1 DEF Write, IInv, AbsentInv, OldInv
  <2>3. JudgedInv'
    BY <1>6, <1>t DEF Write, Goes, IInv, JudgedInv, TypeOK
  <2>4. HeldInv'
    BY <1>6, <1>t, <2>1 DEF Write, Goes, IInv, HeldInv, Inside, Section, TypeOK
  <2> QED
    BY <1>t, <2>2, <2>3, <2>4 DEF IInv
<1>7. ASSUME NEW r \in Run, HandOver(r) \/ HandedOver(r) PROVE IInv'
  BY <1>7, <1>t DEF HandOver, HandedOver, IInv, AbsentInv, OldInv, JudgedInv, HeldInv, Inside
<1>8. ASSUME NEW r \in Run, Finish(r) PROVE IInv'
  <2>1. CASE Mine(r)
    BY <1>8, <1>t, <2>1 DEF Finish, Goes, IInv, AbsentInv, OldInv, JudgedInv, HeldInv, Inside, Section, TypeOK
  <2>2. CASE ~Mine(r)
    BY <1>8, <1>t, <2>2, EndsKeeps DEF Finish, IInv
  <2> QED
    BY <2>1, <2>2
<1>9. ASSUME NEW r \in Run, ReleaseUnlink(r) PROVE IInv'
  <2>1. lock' = Absent /\ lock'.by = Gone /\ lock'.old = FALSE
    BY <1>9 DEF ReleaseUnlink, Ends, Absent, IInv, TypeOK, File
  <2>2. AbsentInv' /\ OldInv'
    BY <2>1 DEF AbsentInv, OldInv
  <2>3. JudgedInv'
    BY <1>9, <1>t DEF ReleaseUnlink, Ends, Goes, IInv, JudgedInv, TypeOK
  <2>4. ASSUME NEW q \in Inside' \ late' PROVE missed'
    <3>1. q \in Run /\ pc[q] \in Section /\ q \notin late /\ q # r
      BY <1>9, <1>t, <2>4 DEF ReleaseUnlink, Ends, Goes, Inside, Section, TypeOK
    <3> QED
      BY <1>9, <2>1, <3>1, UnlinkKeepsHeld DEF ReleaseUnlink
  <2> QED
    BY <1>t, <2>2, <2>3, <2>4 DEF IInv, HeldInv
<1>10. ASSUME NEW r \in Run, Crash(r) PROVE IInv'
  BY <1>10, <1>t, EndsKeeps DEF Crash, IInv
<1>11. ASSUME Age PROVE IInv'
  <2>1. lock'.by = lock.by /\ lock'.state = lock.state /\ late' = late \cup ({lock.by} \ {Gone})
    BY <1>11 DEF Age, IInv, TypeOK, File
  <2> QED
    BY <1>11, <1>t, <2>1 DEF Age, IInv, AbsentInv, OldInv, JudgedInv, HeldInv, Inside
<1>12. ASSUME NEW s \in Session, Forget(s) PROVE IInv'
  BY <1>12, <1>t DEF Forget, IInv, AbsentInv, OldInv, JudgedInv, HeldInv, Inside
<1>13. CASE UNCHANGED vars
  BY <1>13, <1>t DEF vars, IInv, AbsentInv, OldInv, JudgedInv, HeldInv, Inside
<1> QED
  BY <1>1, <1>2, <1>3, <1>4, <1>5, <1>6, <1>7, <1>8, <1>9, <1>10, <1>11, <1>12, <1>13 DEF Next, GoesOn

\* If all the runs inside that are not late have their file at the one path,
\* there is at most one of them.
LEMMA HeldIsExclusive == IInv => Exclusive
<1> SUFFICES ASSUME IInv, ~missed PROVE Cardinality(Inside \ late) <= 1
  BY DEF Exclusive
<1> DEFINE S == Inside \ late
<1>1. S \subseteq {lock.by}
  BY DEF IInv, HeldInv
<1>2. CASE S = {}
  BY <1>2, FS_EmptySet
<1>3. CASE S # {}
  <2>1. S = {lock.by}
    BY <1>1, <1>3
  <2> QED
    BY <2>1, FS_Singleton
<1> QED
  BY <1>2, <1>3

\* The variables keep their types; a batch stays within COLLECT_LIMIT and a hook
\* runs only while its collector works on the batch.
THEOREM TypeCorrect == Spec => []TypeOK
<1>1. TypeOK /\ [Next]_vars => TypeOK'
  BY NextTypeOK
<1> QED
  BY InitTypeOK, <1>1, PTL DEF Spec

\* For any number of runs: acquire_collector_lock and release_collector_lock let
\* two runs into their batches only when one of them has outlived its lock or an
\* unlink has removed another lock than the one its process had read.
THEOREM OneRunAtATime == Spec => []Exclusive
<1>1. IInv /\ [Next]_vars => IInv'
  BY NextIInv
<1> QED
  BY InitIInv, HeldIsExclusive, <1>1, PTL DEF Spec
=============================================================================
