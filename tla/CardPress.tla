----------------------------- MODULE CardPress ------------------------------
(***************************************************************************)
(* The buttons of the morning card: the Slack plugin                       *)
(* (agents/hermes/plugins/boring-card) takes a press, runs its effects and *)
(* shows the outcome on the row; the door settles the rows of merges       *)
(* (SubjectMerge).  Both rewrite the whole message: they read it, change   *)
(* one row and update it, with nothing between the processes that keeps    *)
(* the other from updating it in between.                                  *)
(*                                                                         *)
(* The rows of Subject are merges; those of Verdict record what the owner  *)
(* said and send it to the engine.                                         *)
(***************************************************************************)
EXTENDS SubjectMerge

CONSTANTS
    Verdict,   \* the advice and review rows of the card
    NoMerge

ASSUME CardAssumption ==
    Verdict \cap Subject = {} /\ NoMerge \notin Merge

Row == Subject \cup Verdict
\* A row's blocks: buttons, a status line, or both; "judged" has neither.
Shown == {"buttons", "pending", "merged", "failed", "retry", "judged"}
Pressable == {"buttons", "retry"}
Card == [Row -> Shown]

VARIABLES
    card,      \* the message as Slack holds it
    press,     \* the handlers, one a click
    claimed,   \* _claimed
    applied,   \* the effects that reached the engine, of each Verdict row
    settle,    \* the door's _show_row
    ran,       \* history: how often a row's effects have all run
    rolled,    \* history: rows that a write for another row changed
    restarts,  \* history: restarts of the plugin
    slips      \* failures of Slack, of an effect, of the plugin, and timeouts

cardVars == <<card, press, claimed, applied, settle, ran, rolled, restarts, slips>>
allVars == <<vars, cardVars>>

\* What it puts on the row; the message at the click and as last read; the
\* effects done.
Handler == [pc : {"idle", "clicked", "read", "put", "run", "answer", "end"}, row : Row,
            segment : Shown, snapshot : Card, copy : Card, done : 0 .. 2]
Settle == [merge : Merge \cup {NoMerge}, copy : Card]

CardTypeOK ==
    /\ card \in Card
    /\ press \in [Merge -> Handler]
    /\ claimed \subseteq Row
    /\ applied \in [Verdict -> SUBSET (1 .. 2)]
    /\ settle \in Settle
    /\ ran \in [Row -> Nat]
    /\ rolled \subseteq Row
    /\ restarts \in 0 .. MaxFault /\ slips \in 0 .. MaxFault
    \* The message the door has read is of a merge it is settling.
    /\ settle.merge # NoMerge => worker.pc = "tell" /\ settle.merge \in worker.batch

NewCard == [r \in Row |-> "buttons"]
HandlerIdle == [pc |-> "idle", row |-> CHOOSE r \in Row : TRUE, segment |-> "pending",
                snapshot |-> NewCard, copy |-> NewCard, done |-> 0]
HandlerEnd == [HandlerIdle EXCEPT !.pc = "end"]
NoSettle == [merge |-> NoMerge, copy |-> NewCard]

CardInit ==
    /\ Init
    /\ card = NewCard
    /\ press = [p \in Merge |-> HandlerIdle]
    /\ claimed = {}
    /\ applied = [r \in Verdict |-> {}]
    /\ settle = NoSettle
    /\ ran = [r \in Row |-> 0]
    /\ rolled = {}
    /\ restarts = 0 /\ slips = 0

Slip == slips < MaxFault /\ slips' = slips + 1

-----------------------------------------------------------------------------
(* Writing one row into a message that was read before.                    *)

\* replace_row (plugin) finds the row by its buttons or status line.
Replaced(copy, r, segment) == IF copy[r] = "judged" THEN copy ELSE [copy EXCEPT ![r] = segment]

MarkedDone(copy, r, outcome) ==
    IF copy[r] = "judged" THEN copy ELSE [copy EXCEPT ![r] = "merged"]

\* mark_progress (door): a failure keeps the buttons, where there are any.
Marked(copy, r, outcome) ==
    CASE copy[r] = "judged" -> copy
      [] copy[r] # "judged" /\ outcome = "done" -> [copy EXCEPT ![r] = "merged"]
      [] copy[r] \in Pressable /\ outcome = "failed" -> [copy EXCEPT ![r] = "retry"]
      [] OTHER -> [copy EXCEPT ![r] = "failed"]

\* chat_update, unless the row was not found; Slack may refuse.
Update(r, copy, blocks) ==
    \/ /\ card' = IF blocks = copy /\ copy[r] = "judged" THEN card ELSE blocks
       /\ rolled' = rolled \cup {o \in Row \ {r} : card'[o] # card[o]}
       /\ UNCHANGED slips
    \/ Slip /\ UNCHANGED <<card, rolled>>

-----------------------------------------------------------------------------
(* The plugin's _handler.                                                  *)

Plugin(p, h) == press' = [press EXCEPT ![p] = h]

Click(p) ==
    /\ press[p].pc = "idle"
    /\ \E r \in Row : card[r] \in Pressable
            /\ Plugin(p, [HandlerIdle EXCEPT !.pc = "clicked", !.row = r, !.snapshot = card])
    /\ UNCHANGED <<card, claimed, applied, settle, ran, rolled, restarts, slips>> /\ UNCHANGED vars

ClaimAfterEffects(p) ==
    /\ press[p].pc = "clicked"
    /\ IF press[p].row \in claimed THEN Plugin(p, HandlerEnd)
       ELSE Plugin(p, [press[p] EXCEPT !.pc = "read"])
    /\ UNCHANGED <<card, claimed, applied, settle, ran, rolled, restarts, slips>> /\ UNCHANGED vars

\* The claim is taken with no await after the test; then the row shows pending.
Claim(p) ==
    LET r == press[p].row IN
    /\ press[p].pc = "clicked"
    /\ IF r \in claimed
       THEN Plugin(p, HandlerEnd) /\ UNCHANGED claimed
       ELSE Plugin(p, [press[p] EXCEPT !.pc = "read"]) /\ claimed' = claimed \cup {r}
    /\ UNCHANGED <<card, applied, settle, ran, rolled, restarts, slips>> /\ UNCHANGED vars

\* _current_blocks: what cannot be read is replaced by the click's message.
ReadCard(p) ==
    /\ press[p].pc = "read"
    /\ \/ Plugin(p, [press[p] EXCEPT !.pc = "put", !.copy = card]) /\ UNCHANGED slips
       \/ Plugin(p, [press[p] EXCEPT !.pc = "put", !.copy = press[p].snapshot]) /\ Slip
    /\ UNCHANGED <<card, claimed, applied, settle, ran, rolled, restarts>> /\ UNCHANGED vars

\* _put; the effects follow the pending line, and nothing follows the outcome.
PutCard(p) ==
    LET h == press[p] IN
    /\ h.pc = "put"
    /\ Update(h.row, h.copy, Replaced(h.copy, h.row, h.segment))
    /\ Plugin(p, IF h.segment = "pending" THEN [h EXCEPT !.pc = "run", !.copy = NewCard]
                 ELSE HandlerEnd)
    /\ UNCHANGED <<claimed, applied, settle, ran, restarts>> /\ UNCHANGED vars

Outcome(p, segment) == [press[p] EXCEPT !.pc = "read", !.segment = segment]

\* A merge: one POST to the door.
RunMerge(p) ==
    LET r == press[p].row IN
    /\ press[p].pc = "run" /\ r \in Subject
    /\ Post(p, r)
    /\ Plugin(p, [press[p] EXCEPT !.pc = "answer"])
    /\ ran' = [ran EXCEPT ![r] = @ + 1]
    /\ UNCHANGED <<card, claimed, applied, settle, rolled, restarts, slips>>

AnsweredQuietly(p) ==
    /\ press[p].pc = "answer" /\ door[p].pc \in {"answered", "refused", "cut"}
    /\ Plugin(p, HandlerEnd)
    /\ UNCHANGED <<card, claimed, applied, settle, ran, rolled, restarts, slips>> /\ UNCHANGED vars

\* 202: the door settles the row.  Another answer, a lost connection or the
\* timeout: the row says so.
Answered(p) ==
    /\ press[p].pc = "answer"
    /\ \/ door[p].pc = "answered" /\ Plugin(p, HandlerEnd) /\ UNCHANGED slips
       \/ door[p].pc \in {"refused", "cut"} /\ Plugin(p, Outcome(p, "judged")) /\ UNCHANGED slips
       \/ Plugin(p, Outcome(p, "judged")) /\ Slip
    /\ UNCHANGED <<card, claimed, applied, settle, ran, rolled, restarts>> /\ UNCHANGED vars

\* A verdict: its record and its mark in the engine, in order.
RunVerdict(p) ==
    LET h == press[p] n == h.done + 1 IN
    /\ h.pc = "run" /\ h.row \in Verdict
    /\ applied' = [applied EXCEPT ![h.row] = @ \cup {n}]
    /\ IF n = 2 THEN Plugin(p, Outcome(p, "judged")) /\ ran' = [ran EXCEPT ![h.row] = @ + 1]
       ELSE Plugin(p, [h EXCEPT !.done = n]) /\ UNCHANGED ran
    /\ UNCHANGED <<card, claimed, settle, rolled, restarts, slips>> /\ UNCHANGED vars

VerdictFailsShown(p) ==
    LET h == press[p] IN
    /\ h.pc = "run" /\ h.row \in Verdict /\ Slip
    /\ applied' \in {applied, [applied EXCEPT ![h.row] = @ \cup {h.done + 1}]}
    /\ Plugin(p, Outcome(p, "judged"))
    /\ UNCHANGED <<card, claimed, settle, ran, rolled, restarts>> /\ UNCHANGED vars

\* An effect fails, or its answer is lost: the press can be repeated.
VerdictFails(p) ==
    LET h == press[p] IN
    /\ h.pc = "run" /\ h.row \in Verdict /\ Slip
    /\ applied' \in {applied, [applied EXCEPT ![h.row] = @ \cup {h.done + 1}]}
    /\ claimed' = claimed \ {h.row}
    /\ Plugin(p, Outcome(p, "retry"))
    /\ UNCHANGED <<card, settle, ran, rolled, restarts>> /\ UNCHANGED vars

PluginRestarts ==
    /\ Slip
    /\ claimed' = {}
    /\ press' = [p \in Merge |-> IF press[p].pc = "idle" THEN press[p] ELSE HandlerEnd]
    /\ restarts' = restarts + 1
    /\ UNCHANGED <<card, applied, settle, ran, rolled>> /\ UNCHANGED vars

PressStep(p) == Claim(p) \/ ReadCard(p) \/ PutCard(p) \/ RunMerge(p) \/ Answered(p) \/ RunVerdict(p)

-----------------------------------------------------------------------------
(* The door's _show_row: one row at a time, under _ROW_LOCK.               *)

ShowRead(m) ==
    /\ worker.pc = "tell" /\ m \in worker.batch /\ settle.merge = NoMerge
    /\ settle' = [merge |-> m, copy |-> card]
    /\ UNCHANGED <<card, press, claimed, applied, ran, rolled, restarts, slips>> /\ UNCHANGED vars

ShowPut(m) ==
    LET r == door[m].subject IN
    /\ settle.merge = m
    /\ Update(r, settle.copy, Marked(settle.copy, r, worker.outcome))
    /\ Tell(m)
    /\ settle' = NoSettle
    /\ UNCHANGED <<press, claimed, applied, ran, restarts>>

ShowStep == \E m \in Merge : ShowRead(m) \/ ShowPut(m)

\* The steps of SubjectMerge that leave the card alone.
MergeStep ==
    \/ \E m \in Merge : RequestStep(m) \/ CommitFails(m)
    \/ Take \/ Recount \/ SyncTimesOut \/ RecountFails \/ BatchRaises \/ WorkerDies
    \/ EngineStep \/ SchedulerSyncs \/ SyncStarts \/ PassFails
    \/ \E e \in Stated : IngestFails(e)

DoorGone ==
    /\ DoorRestarts
    /\ settle' = NoSettle
    /\ UNCHANGED <<card, press, claimed, applied, ran, rolled, restarts, slips>>

\* MaxFault bounds the failures of all processes together.
CardNext ==
    /\ \/ \E p \in Merge : Click(p) \/ PressStep(p) \/ VerdictFails(p)
       \/ PluginRestarts
       \/ ShowStep
       \/ MergeStep /\ UNCHANGED cardVars
       \/ DoorGone
    /\ faults' + slips' <= MaxFault

CardSpec == CardInit /\ [][CardNext]_allVars

\* As in SubjectMerge, and the plugin's handlers go on.
CardFairness ==
    /\ \A p \in Merge : WF_allVars(PressStep(p))
    /\ \A m \in Merge : WF_allVars(RequestStep(m) /\ UNCHANGED cardVars)
    /\ WF_allVars((Take \/ Recount) /\ UNCHANGED cardVars)
    /\ WF_allVars(ShowStep)
    /\ WF_allVars(EngineStep /\ UNCHANGED cardVars)
    /\ SF_allVars(SyncStarts /\ UNCHANGED cardVars)

CardFairSpec == CardSpec /\ CardFairness

-----------------------------------------------------------------------------

\* "A row runs its effects at most once per card", also when a write for
\* another row, a lost update or a failed one brings the row's buttons back;
\* a restart of the plugin forgets the claims.
EffectsRunOnce == \A r \in Row : ran[r] <= 1 + restarts

\* A verdict row that shows its verdict has it in the engine, both effects.
JudgedIsApplied == \A r \in Verdict : card[r] = "judged" => applied[r] = 1 .. 2

\* A row that shows a merge as done is that of a merge whose reread ended well, and
\* its notes are back or owed to another merge of the row.
MergedRowIsReread ==
    \A s \in Subject : card[s] = "merged" =>
        /\ \E m \in Merge : door[m].subject = s /\ told[m] = "done"
        /\ \A n \in Note : n \in Held \/ Canon \in table[s, n] \/ <<s, n>> \in unread \/ Owed(s, n)

\* replace_row's doc: every other row stays as it is now.
OthersStay == [][\A r \in Row : r \in rolled' => r \in rolled]_allVars

\* A row does not stay "in progress", unless another row's write put it back,
\* a process that held it went away, or Slack refused the update.
PendingEnds ==
    \A r \in Row : card[r] = "pending" ~>
        card[r] # "pending" \/ r \in rolled \/ slips > 0 \/ lost # {}
=============================================================================
