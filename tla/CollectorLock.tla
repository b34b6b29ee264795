---------------------------- MODULE CollectorLock ----------------------------
(***************************************************************************)
(* The run lock of agents/codex/collect-sessions.py.  launchd on the host  *)
(* and hermes cron in the container may both start the collector, and so   *)
(* may a person (--now); the lock file keeps their batches apart.          *)
(*                                                                         *)
(* The file operations of acquire_collector_lock and release_collector_lock*)
(* are steps of their own.  A file is known by the process that created    *)
(* it, so that an unlink by path that hits somebody else's file, and a     *)
(* write through a descriptor whose file is gone, come out as they do on   *)
(* disk.  Age is one bit, old: more than COLLECTOR_LOCK_TTL_S.             *)
(***************************************************************************)
EXTENDS Integers, FiniteSets

CONSTANTS
    Run,         \* process slots; a slot starts again, as a new process
    Host,        \* the slots on the host, the others are in the container
    Session,     \* the Codex transcripts in the window
    Limit,       \* LIMIT, the batch of one run
    Gone,        \* stands for a process that no longer exists
    NoSession,
    Overrun,     \* whether a batch may take longer than the TTL
    GapCrash,    \* whether a process may be killed between creating and writing the lock
    MaxCrash     \* bound: processes killed

File == [state : {"absent", "empty", "written"}, by : Run \cup {Gone}, old : BOOLEAN, host : BOOLEAN]
Absent == [state |-> "absent", by |-> Gone, old |-> FALSE, host |-> FALSE]

Pc == {"idle", "acquire", "check", "unlink", "create", "write", "working", "release"}

\* The runs that have taken the lock and not given it back.
Section == {"write", "working", "release"}

ASSUME LockAssumption ==
    /\ IsFiniteSet(Run) /\ Host \subseteq Run /\ Gone \notin Run
    /\ NoSession \notin Session /\ IsFiniteSet(Session)
    /\ Limit \in Nat \ {0} /\ MaxCrash \in Nat
    /\ Overrun \in BOOLEAN /\ GapCrash \in BOOLEAN

VARIABLES
    lock,      \* the file at _lock_path()
    pc, batch, at,   \* each run: where it is, its batch, the session its hook runs on
    saw,       \* the process whose pid a run read in the lock
    marked,    \* sessions with a fresh marker, see _marked
    late,      \* the runs whose own lock has grown older than the TTL
    missed,    \* an unlink has hit the lock of another live process than it meant
    crashes

vars == <<lock, pc, batch, at, saw, marked, late, missed, crashes>>

TypeOK ==
    /\ lock \in File
    /\ pc \in [Run -> Pc]
    /\ batch \in [Run -> SUBSET Session] /\ \A r \in Run : Cardinality(batch[r]) <= Limit
    /\ at \in [Run -> Session \cup {NoSession}] /\ \A r \in Run : at[r] # NoSession => pc[r] = "working"
    /\ saw \in [Run -> Run \cup {Gone}]
    /\ marked \in SUBSET Session
    /\ late \in SUBSET Run
    /\ missed \in BOOLEAN
    /\ crashes \in 0 .. MaxCrash

Init ==
    /\ lock = Absent
    /\ pc = [r \in Run |-> "idle"]
    /\ batch = [r \in Run |-> {}]
    /\ at = [r \in Run |-> NoSession]
    /\ saw = [r \in Run |-> Gone]
    /\ marked = {}
    /\ late = {}
    /\ missed = FALSE
    /\ crashes = 0

Goes(r, next) == pc' = [pc EXCEPT ![r] = next]

\* Process r exits: what it holds is gone, and whoever looks for its pid fails.
Ends(r, file) ==
    /\ Goes(r, "idle")
    /\ batch' = [batch EXCEPT ![r] = {}]
    /\ at' = [at EXCEPT ![r] = NoSession]
    /\ saw' = [q \in Run |-> IF q = r \/ saw[q] = r THEN Gone ELSE saw[q]]
    /\ late' = late \ {r}
    /\ lock' = IF file.by = r THEN [file EXCEPT !.by = Gone] ELSE file

-----------------------------------------------------------------------------
Batches(todo, limit) ==
    IF Cardinality(todo) <= limit THEN {todo}
    ELSE {b \in SUBSET todo : Cardinality(b) = limit}

\* main up to the lock: todo is scanned, and the batch cut from it, before the
\* lock is taken.  With nothing to do the run ends without touching the lock.
Starts(r, todo, limit) ==
    /\ pc[r] = "idle" /\ todo # {}
    /\ \E b \in Batches(todo, limit) : batch' = [batch EXCEPT ![r] = b]
    /\ Goes(r, "acquire")
    /\ UNCHANGED <<lock, at, saw, marked, late, missed, crashes>>

Scan(r) == Starts(r, Session \ marked, Limit)

\* --now: one session, whatever its markers say.
ScanNow(r) == Starts(r, Session, 1)

\* acquire_collector_lock: _read_lock and the age.  An empty file reads as None.
LookAt(r) ==
    IF lock.state # "written" THEN "create"
    ELSE IF lock.old THEN "unlink"
    ELSE IF lock.host = (r \in Host) THEN "check" ELSE "idle"

Look(r) ==
    LET next == LookAt(r) IN
    /\ pc[r] = "acquire"
    /\ IF next = "idle" THEN Ends(r, lock)
       ELSE /\ Goes(r, next)
            /\ saw' = [saw EXCEPT ![r] = lock.by]
            /\ UNCHANGED <<batch, at, lock, late>>
    /\ UNCHANGED <<marked, missed, crashes>>

\* _pid_alive on the pid just read, in its own namespace.
CheckPid(r) ==
    /\ pc[r] = "check"
    /\ IF saw[r] = Gone
       THEN Goes(r, "unlink") /\ UNCHANGED <<batch, at, saw, late, lock>>
       ELSE Ends(r, lock)
    /\ UNCHANGED <<marked, missed, crashes>>

\* An unlink by path takes whatever is there now.
Misses(r, meant) == lock.state # "absent" /\ lock.by \notin {Gone, meant}

UnlinkFails(r) ==
    /\ pc[r] = "unlink"
    /\ Goes(r, "create")
    /\ UNCHANGED <<lock, batch, at, saw, marked, late, missed, crashes>>
Unlink(r) ==
    /\ pc[r] = "unlink"
    /\ lock' = Absent
    /\ missed' = (missed \/ Misses(r, saw[r]))
    /\ Goes(r, "create")
    /\ UNCHANGED <<batch, at, saw, marked, late, crashes>>

\* O_CREAT | O_EXCL.
CreateOver(r) == TRUE
CanCreate(r) == lock.state = "absent"
Create(r) ==
    /\ pc[r] = "create"
    /\ IF CanCreate(r)
       THEN /\ lock' = [state |-> "empty", by |-> r, old |-> FALSE, host |-> r \in Host]
            /\ Goes(r, "write")
            /\ UNCHANGED <<batch, at, saw, late>>
       ELSE Ends(r, lock)
    /\ UNCHANGED <<marked, missed, crashes>>

\* The write goes to the file r created, which may no longer be at the path.
Write(r) ==
    /\ pc[r] = "write"
    /\ lock' = IF lock.by = r THEN [lock EXCEPT !.state = "written"] ELSE lock
    /\ Goes(r, "working")
    /\ UNCHANGED <<batch, at, saw, marked, late, missed, crashes>>

\* The hook is run on one session after the other.
HandOver(r) ==
    /\ pc[r] = "working" /\ at[r] = NoSession
    /\ \E s \in batch[r] :
          /\ at' = [at EXCEPT ![r] = s]
          /\ batch' = [batch EXCEPT ![r] = @ \ {s}]
    /\ UNCHANGED <<lock, pc, saw, marked, late, missed, crashes>>

\* The hook exits, with a marker or (an early return) without.
HandedOver(r) ==
    /\ pc[r] = "working" /\ at[r] # NoSession
    /\ marked' \in {marked, marked \cup {at[r]}}
    /\ at' = [at EXCEPT ![r] = NoSession]
    /\ UNCHANGED <<lock, pc, batch, saw, late, missed, crashes>>

Mine(r) == lock.state = "written" /\ lock.by = r

\* subprocess.run returns when the hook has exited.
HookDone(r) == at[r] = NoSession

\* The batch is over, or the write door is closed: release_collector_lock reads
\* the lock and goes on only if it is its own.
Finish(r) ==
    /\ pc[r] = "working" /\ HookDone(r)
    /\ IF Mine(r)
       THEN /\ Goes(r, "release")
            /\ batch' = [batch EXCEPT ![r] = {}]
            /\ UNCHANGED <<lock, at, saw, late>>
       ELSE Ends(r, lock)
    /\ UNCHANGED <<marked, missed, crashes>>

ReleaseUnlink(r) ==
    /\ pc[r] = "release"
    /\ Ends(r, Absent)
    /\ missed' = (missed \/ Misses(r, r))
    /\ UNCHANGED <<marked, crashes>>

-----------------------------------------------------------------------------
\* The lock at the path grows older than the TTL.
Age ==
    /\ lock.state = "written" /\ ~lock.old
    /\ Overrun \/ lock.by = Gone
    /\ lock' = [lock EXCEPT !.old = TRUE]
    /\ late' = late \cup ({lock.by} \ {Gone})
    /\ UNCHANGED <<pc, batch, at, saw, marked, missed, crashes>>

\* A pending or retry marker expires, or the session leaves the window and
\* another one takes its place.
Forget(s) ==
    /\ s \in marked
    /\ marked' = marked \ {s}
    /\ UNCHANGED <<lock, pc, batch, at, saw, late, missed, crashes>>

Crash(r) ==
    /\ crashes < MaxCrash
    /\ pc[r] # "idle" /\ (GapCrash \/ pc[r] # "write")
    /\ crashes' = crashes + 1
    /\ Ends(r, lock)
    /\ UNCHANGED <<marked, missed>>

GoesOn(r) ==
    \/ Scan(r) \/ Look(r) \/ CheckPid(r) \/ Unlink(r) \/ Create(r) \/ Write(r)
    \/ HandOver(r) \/ HandedOver(r) \/ Finish(r) \/ ReleaseUnlink(r)

Next ==
    \/ \E r \in Run : GoesOn(r) \/ ScanNow(r) \/ Crash(r)
    \/ Age
    \/ \E s \in Session : Forget(s)

Spec == Init /\ [][Next]_vars

\* The schedulers start the collector again and again and a run that has started
\* goes on; markers expire and a lock grows old.  Nobody has to call --now.
Fairness ==
    /\ \A r \in Run : WF_vars(GoesOn(r))
    /\ \A s \in Session : WF_vars(Forget(s))
    /\ WF_vars(Age)

FairSpec == Spec /\ Fairness

-----------------------------------------------------------------------------
\* The runs inside the part the lock protects.
Inside == {r \in Run : pc[r] \in Section}

\* Two runs are in their batches at once only if one of them has outlived its
\* lock, or if an unlink by path removed another lock than the one its process
\* had read: no other interleaving of the steps of acquire_collector_lock and
\* release_collector_lock lets a second run in.
Exclusive == ~missed => Cardinality(Inside \ late) <= 1

\* What the comment over COLLECTOR_LOCK_TTL_S promises: the lock stops a second
\* run from working on a session that the first is already mid-distill on.
NoSessionTwice ==
    \A r, q \in Run : r # q /\ at[r] # NoSession => at[r] # at[q]

\* A lock whose process is gone does not stay: a later run reclaims it.  A lock
\* left behind for ever would stop every collector on the machine.
Abandoned == lock.state # "absent" /\ lock.by = Gone
Reclaimed == Abandoned ~> ~Abandoned
=============================================================================
