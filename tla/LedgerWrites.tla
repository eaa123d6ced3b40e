------------------------------ MODULE LedgerWrites ------------------------------
(***************************************************************************)
(* The project ledger's tasks, and who writes them: a plan stated on a     *)
(* card and confirmed later, calls a standing grant lets a scheduled run   *)
(* make on its own within a cap, the person's own edits, and Undo.         *)
(*                                                                         *)
(* A plan names tasks in words.  Stating it resolves the words (a dry run  *)
(* of the same code) and pins what they meant, or states the plan as it    *)
(* is when the dry run cannot run; applying it is one transaction, all or  *)
(* nothing, and so is an undo.  One project; a word matches a task when it *)
(* is its title.                                                           *)
(***************************************************************************)
EXTENDS Naturals, Sequences, FiniteSets

CONSTANTS Titles,     \* titles, which plans use as words for tasks
          Plans,      \* the plans a model may propose: sequences of changes
          Grants,     \* calls a scheduled run makes under a standing grant
          Cap,        \* GRANT_CAP_PER_RUN
          MaxTasks,   \* bound: tasks that are ever created
          MaxVersion, \* bound: changes of one task
          NoTask

TaskIds == 1 .. MaxTasks

\* A row, and the changes of a plan, "same" for a field it leaves.
Statuses == {"todo", "doing", "blocked", "done", "dropped"}
TaskRow == [title : Titles, status : Statuses, version : Nat]
Changes == [op : {"create"}, title : Titles, status : Statuses]
           \cup [op : {"update"}, ref : Titles, title : Titles \cup {"same"}, status : Statuses \cup {"same"}]

ASSUME LedgerConstants ==
  /\ MaxTasks \in Nat /\ MaxVersion \in Nat \ {0} /\ Cap \in Nat
  /\ Plans \subseteq Seq(Changes)
  /\ NoTask \notin TaskRow /\ NoTask \notin 0 .. MaxTasks + 1
  /\ Grants \cap {"nobody", "card", "user", "undo"} = {}

\* Pins besides a task's id: one the plan creates, and none.
InPlan == 0
NoPin == MaxTasks + 1

VARIABLES
  task,      \* the rows: title, status and version
  nextTask,  \* the project's counter
  card,      \* the stated plan with its pins
  grant,     \* each granted call
  used,      \* grant_run_counts of the run
  wrote,     \* the changes each write recorded, by write id
  uses,      \* the audit's grant-use lines of the run, in order
  undone,    \* writes that were undone
  tab,       \* a person's open edit: a task and the version it shows
  lastBy     \* history: who changed each task last

ledgerVars == <<task, nextTask, card, grant, used, wrote, uses, undone, tab, lastBy>>

NoCard == [at |-> "none", plan |-> <<>>, pins |-> <<>>, touched |-> <<>>]

LedgerInit ==
  /\ task = [i \in TaskIds |-> NoTask] /\ nextTask = 1
  /\ card = NoCard
  /\ grant = [g \in Grants |-> [at |-> "idle", plan |-> <<>>]]
  /\ used = 0 /\ wrote = [g \in Grants |-> <<>>] /\ uses = <<>> /\ undone = {}
  /\ tab = NoTask /\ lastBy = [i \in TaskIds |-> "nobody"]

----------------------------------------------------------------------------
(* A plan, applied. *)

Same(v, old) == IF v = "same" THEN old ELSE v

\* _task: the words are the one task that is called so, and no guess.
Named(rows, ref) ==
  LET called == {i \in TaskIds : rows[i] # NoTask /\ rows[i].title = ref} IN
  IF Cardinality(called) = 1 THEN CHOOSE i \in called : TRUE ELSE NoTask

\* Mutant: a confirmed plan finds its tasks by their words again.
ResolvedAgain(st, change, pin) == Named(st.rows, change.ref)

\* A pinned change is for the task it was stated for, or for one its own plan creates.
Resolved(st, change, pin) ==
  LET i == IF pin \in TaskIds THEN IF st.rows[pin] # NoTask THEN pin ELSE NoTask
           ELSE Named(st.rows, change.ref)
  IN IF pin = InPlan /\ i \notin st.created THEN NoTask ELSE i

\* One change of a plan, within the transaction.
Change(st, c, pin) ==
  LET i == IF c.op = "create" THEN st.next ELSE Resolved(st, c, pin)
      before == IF c.op = "create" THEN NoTask ELSE st.rows[i]
      row == IF c.op = "create" THEN [title |-> c.title, status |-> c.status, version |-> 1]
             ELSE [title |-> Same(c.title, before.title), status |-> Same(c.status, before.status),
                   version |-> before.version + 1]
  IN IF ~st.ok \/ i = NoTask THEN [st EXCEPT !.ok = FALSE]
     ELSE [ok |-> TRUE,
           rows |-> [j \in TaskIds |-> IF j = i THEN row ELSE st.rows[j]],
           next |-> IF c.op = "create" THEN st.next + 1 ELSE st.next,
           created |-> IF c.op = "create" THEN st.created \cup {i} ELSE st.created,
           pins |-> Append(st.pins, IF i \in st.created \/ c.op = "create" THEN InPlan ELSE i),
           made |-> Append(st.made, [id |-> i, before |-> before, after |-> row])]

Transaction == [ok |-> TRUE, rows |-> task, next |-> nextTask, created |-> {}, pins |-> <<>>, made |-> <<>>]

\* _apply_in: every change of the plan in turn.
Applied(plan, pins) ==
  LET after[n \in 0 .. Len(plan)] == IF n = 0 THEN Transaction ELSE Change(after[n - 1], plan[n], pins[n])
  IN after[Len(plan)]

Unpinned(plan) == [n \in 1 .. Len(plan) |-> NoPin]

\* Bounds: rows and versions there are.
Fits(st) ==
  /\ st.next <= MaxTasks + 1
  /\ \A i \in TaskIds : st.rows[i] # NoTask => st.rows[i].version <= MaxVersion

Commit(st, who) ==
  /\ task' = st.rows /\ nextTask' = st.next
  /\ lastBy' = [i \in TaskIds |-> IF \E n \in 1 .. Len(st.made) : st.made[n].id = i THEN who ELSE lastBy[i]]

----------------------------------------------------------------------------
(* A plan on a card. *)

\* Checked: one that could not be applied is not stated, and the pins say what each change
\* means.  When the check cannot run (no ledger, an unexpected error) the plan is stated as it
\* is, and its words are resolved when it is applied.
StatePlan == \E plan \in Plans : \E checked \in BOOLEAN :
  LET st == Applied(plan, Unpinned(plan))
      pins == IF checked THEN st.pins ELSE Unpinned(plan)
  IN
  /\ card.at = "none" /\ (checked => Fits(st) /\ st.ok)
  /\ card' = [at |-> "open", plan |-> plan, pins |-> pins, touched |-> <<>>]
  /\ UNCHANGED <<task, nextTask, grant, used, wrote, uses, undone, tab, lastBy>>

\* The person confirmed it: all of it, or nothing.
ApplyPlan ==
  LET st == Applied(card.plan, card.pins) IN
  /\ card.at = "open" /\ Fits(st)
  /\ IF st.ok THEN /\ Commit(st, "card")
                   /\ card' = [card EXCEPT !.at = "applied", !.touched = [n \in 1 .. Len(st.made) |-> st.made[n].id]]
     ELSE card' = [card EXCEPT !.at = "failed"] /\ UNCHANGED <<task, nextTask, lastBy>>
  /\ UNCHANGED <<grant, used, wrote, uses, undone, tab>>

----------------------------------------------------------------------------
(* A scheduled run's granted calls. *)

\* Mutant: the actions of the call itself are not counted.
BelowCap(plan) == used < Cap

\* GrantRunCounts.reserve, in one write.
HasRoom(plan) == used + Len(plan) <= Cap

\* Reserved before the call runs: within the cap, or not at all.
Reserve(g) == \E plan \in Plans :
  /\ grant[g].at = "idle"
  /\ IF HasRoom(plan)
     THEN used' = used + Len(plan) /\ grant' = [grant EXCEPT ![g] = [at |-> "reserved", plan |-> plan]]
     ELSE grant' = [grant EXCEPT ![g] = [at |-> "held", plan |-> plan]] /\ UNCHANGED used
  /\ UNCHANGED <<task, nextTask, card, wrote, uses, undone, tab, lastBy>>

\* The tool's thread writes and marks the commit, or finds that nothing can be changed.  It
\* does so also when its call was cancelled meanwhile.
GrantWrites(g) ==
  LET st == Applied(grant[g].plan, Unpinned(grant[g].plan)) IN
  /\ grant[g].at \in {"reserved", "cancelled"} /\ Fits(st)
  /\ IF st.ok THEN Commit(st, g) /\ wrote' = [wrote EXCEPT ![g] = st.made]
     ELSE UNCHANGED <<task, nextTask, lastBy, wrote>>
  /\ grant' = [grant EXCEPT ![g].at = IF @ = "cancelled" THEN "gone" ELSE IF st.ok THEN "committed" ELSE "refused"]
  /\ UNCHANGED <<card, used, uses, undone, tab>>

\* Mutant: whatever did not return has not written.
CancelReleases(g) == used' = IF used > Len(grant[g].plan) THEN used - Len(grant[g].plan) ELSE 0

\* A cancellation may land after the commit: it keeps the reservation.
CancelHolds(g) == UNCHANGED used

GrantCancelled(g) ==
  /\ grant[g].at = "reserved"
  /\ grant' = [grant EXCEPT ![g].at = "cancelled"] /\ CancelHolds(g)
  /\ UNCHANGED <<task, nextTask, card, wrote, uses, undone, tab, lastBy>>

\* What was written is recorded for the run's summary; what was not gives its actions back.
GrantEnds(g) ==
  /\ grant[g].at \in {"committed", "refused"}
  /\ grant' = [grant EXCEPT ![g].at = "done"]
  /\ IF grant[g].at = "committed" THEN uses' = Append(uses, g) /\ UNCHANGED used
     ELSE used' = (IF used > Len(grant[g].plan) THEN used - Len(grant[g].plan) ELSE 0) /\ UNCHANGED uses
  /\ UNCHANGED <<task, nextTask, card, wrote, undone, tab, lastBy>>

----------------------------------------------------------------------------
(* The person. *)

OpenEdit == \E i \in TaskIds :
  /\ task[i] # NoTask
  /\ tab' = [id |-> i, version |-> task[i].version]
  /\ UNCHANGED <<task, nextTask, card, grant, used, wrote, uses, undone, lastBy>>

\* An edit carries the version it was based on; a stale one is refused.
SaveEdit == \E t \in Titles :
  /\ tab # NoTask /\ tab' = NoTask
  /\ IF task[tab.id] # NoTask /\ task[tab.id].version = tab.version
     THEN /\ task[tab.id].version < MaxVersion
          /\ task' = [task EXCEPT ![tab.id].title = t, ![tab.id].version = @ + 1]
          /\ lastBy' = [lastBy EXCEPT ![tab.id] = "user"]
     ELSE UNCHANGED <<task, lastBy>>
  /\ UNCHANGED <<nextTask, card, grant, used, wrote, uses, undone>>

Touched(g) == {wrote[g][n].id : n \in 1 .. Len(wrote[g])}
FirstOf(g, i) == wrote[g][CHOOSE n \in 1 .. Len(wrote[g]) : wrote[g][n].id = i /\ \A m \in 1 .. n - 1 : wrote[g][m].id # i]
LastOf(g, i) == wrote[g][CHOOSE n \in 1 .. Len(wrote[g]) : wrote[g][n].id = i /\ \A m \in n + 1 .. Len(wrote[g]) : wrote[g][m].id # i]

\* Mutant: what is there is reverted, whatever became of it.
AnyVersion(rows, g) == \A i \in Touched(g) : rows[i] # NoTask

\* What the write left must still be there.
AsLeft(rows, g) == \A i \in Touched(g) : rows[i] # NoTask /\ rows[i].version = LastOf(g, i).after.version

\* A task the write created is removed; of another, the fields it changed are put back.
PutBack(rows, g) ==
  [i \in TaskIds |->
     IF i \notin Touched(g) THEN rows[i]
     ELSE LET before == FirstOf(g, i).before  after == LastOf(g, i).after IN
          IF before = NoTask THEN NoTask
          ELSE [title |-> IF before.title # after.title THEN before.title ELSE rows[i].title,
                status |-> IF before.status # after.status THEN before.status ELSE rows[i].status,
                version |-> rows[i].version + 1]]

\* Several writes, newest first, each against what the one before it left.
Reverted(writes) ==
  LET after[n \in 0 .. Len(writes)] ==
        IF n = 0 THEN [ok |-> TRUE, rows |-> task]
        ELSE LET st == after[n - 1]  g == writes[Len(writes) + 1 - n] IN
             IF g \in undone THEN st
             ELSE IF st.ok /\ AsLeft(st.rows, g) THEN [st EXCEPT !.rows = PutBack(st.rows, g)]
             ELSE [st EXCEPT !.ok = FALSE]
  IN after[Len(writes)]

Pending(writes) == {writes[n] : n \in 1 .. Len(writes)} \ undone

\* Undo of one write, or "Undo all for this run": all or nothing, of what is not undone yet.
Undo(writes) ==
  LET st == Reverted(writes) IN
  /\ Pending(writes) # {} /\ st.ok /\ \A i \in TaskIds : task[i] # NoTask => task[i].version < MaxVersion
  /\ task' = st.rows
  /\ undone' = undone \cup Pending(writes)
  /\ lastBy' = [i \in TaskIds |-> IF st.rows[i] # task[i] THEN "undo" ELSE lastBy[i]]
  /\ UNCHANGED <<nextTask, card, grant, used, wrote, uses, tab>>

UndoOne == \E g \in Grants : wrote[g] # <<>> /\ Undo(<<g>>)
UndoRun == Undo(uses)

LedgerNext ==
  \/ StatePlan \/ ApplyPlan
  \/ \E g \in Grants : Reserve(g) \/ GrantWrites(g) \/ GrantCancelled(g) \/ GrantEnds(g)
  \/ OpenEdit \/ SaveEdit \/ UndoOne \/ UndoRun

LedgerSpec == LedgerInit /\ [][LedgerNext]_ledgerVars

----------------------------------------------------------------------------
(* What is promised of the ledger. *)

\* What a write recorded of one change.
Entry == [id : TaskIds, before : {NoTask} \cup TaskRow, after : TaskRow]
Pins == TaskIds \cup {InPlan}
StatedPlan == [at : {"none", "open", "applied", "failed"}, plan : Plans \cup {<<>>}, pins : Seq(Pins \cup {NoPin}), touched : Seq(TaskIds)]
GrantedCall == [at : {"idle", "reserved", "held", "cancelled", "committed", "refused", "gone", "done"},
                plan : Plans \cup {<<>>}]

LedgerTypeOK ==
  /\ task \in [TaskIds -> {NoTask} \cup TaskRow]
  /\ nextTask \in 1 .. MaxTasks + 1 /\ used \in 0 .. Cap
  /\ card \in StatedPlan /\ grant \in [Grants -> GrantedCall]
  /\ wrote \in [Grants -> Seq(Entry)] /\ uses \in Seq(Grants) /\ undone \subseteq Grants
  /\ tab \in {NoTask} \cup [id : TaskIds, version : Nat]
  /\ lastBy \in [TaskIds -> Grants \cup {"nobody", "card", "user", "undo"}]

\* A confirmed plan changes the tasks its card named and those it creates, whatever was
\* renamed, added or removed since (service.py, PIN_KEY; middleware.py, _check_ledger_plan).  A
\* card that could not be checked named none: its words mean what they do when it is applied.
ShownIsChanged ==
  card.at = "applied" /\ card.pins # Unpinned(card.plan) => \A n \in 1 .. Len(card.plan) :
    \/ card.touched[n] = card.pins[n]
    \/ card.pins[n] = InPlan /\ \E m \in 1 .. n : card.plan[m].op = "create" /\ card.touched[m] = card.touched[n]

\* Undo never takes back an edit somebody made after the write (service.py, undo_write).
UndoLosesNothing ==
  [][\A i \in TaskIds : undone' # undone /\ task'[i] # task[i] => lastBy[i] \in undone' \ undone]_ledgerVars

\* What a write records of a task is the task as the write found it (service.py, _apply_in).
RecordsAsFound ==
  [][\A g \in Grants : wrote'[g] # wrote[g] => \A i \in Touched(g)' : (FirstOf(g, i).before)' = task[i]]_ledgerVars

\* An undo, of one write or of several, puts each of their tasks back as its write found it: what
\* the write created is gone, of another title and status are as before (service.py, _revert).
UndoRestores ==
  [][\A g \in undone' \ undone : \A i \in Touched(g) :
        LET before == FirstOf(g, i).before IN
        IF before = NoTask THEN task'[i] = NoTask
        ELSE task'[i] # NoTask /\ task'[i].title = before.title /\ task'[i].status = before.status]_ledgerVars

\* What one scheduled run does on its own stays within the cap, over parallel calls,
\* refusals and cancellations that land after the commit (grants.py, GrantRunCounts).
Made == UNION {{g} \X (1 .. Len(wrote[g])) : g \in Grants}
WithinCap == Cardinality(Made) <= Cap

\* "Undo all" reverts every write of the run unless something was edited since
\* (routers/studio.py, undo_run).
UndoAllWorks ==
  (\A g \in Pending(uses) : \A i \in Touched(g) : lastBy[i] \in Pending(uses)) => Reverted(uses).ok

\* It does so where each task is as the one write that changed it left it: what UndoAllWorks
\* asks beyond that is a task that two writes of the run changed.
UndoAllOfApart ==
  (\A g \in Pending(uses) : \A i \in Touched(g) : lastBy[i] = g) => Reverted(uses).ok

(***************************************************************************)
(* The inductive invariant behind them.                                    *)
(***************************************************************************)

\* A plan on a card has a pin for each change, what it creates none of a task; or it has no
\* pins at all.
PinsInv ==
  \/ card.pins = Unpinned(card.plan)
  \/ /\ Len(card.pins) = Len(card.plan)
     /\ \A n \in 1 .. Len(card.plan) : card.pins[n] \in Pins /\ (card.plan[n].op = "create" => card.pins[n] = InPlan)

\* What a call may still write, or has written: so much of the cap is taken.
Due(g) ==
  CASE grant[g].at \in {"reserved", "cancelled", "committed", "refused"} -> Len(grant[g].plan)
    [] grant[g].at \in {"gone", "done"} -> Len(wrote[g])
    [] OTHER -> 0
Taken == UNION {{g} \X (1 .. Due(g)) : g \in Grants}
CapInv ==
  /\ IsFiniteSet(Taken) /\ Cardinality(Taken) <= used
  /\ \A g \in Grants :
       /\ Len(wrote[g]) <= Due(g)
       /\ grant[g].at \in {"reserved", "cancelled", "refused"} => wrote[g] = <<>>

\* A task number is used once; a row has grown since a write left it, or is as that left it.
GrownInv ==
  /\ \A i \in TaskIds : i >= nextTask => task[i] = NoTask
  /\ \A g \in Grants : \A i \in Touched(g) :
       /\ i < nextTask
       /\ task[i] # NoTask => LastOf(g, i).after.version <= task[i].version
       /\ task[i] # NoTask /\ LastOf(g, i).after.version = task[i].version =>
            lastBy[i] = g /\ task[i] = LastOf(g, i).after

\* A write is in the run's summary once, after it returned.
UsesInv ==
  /\ \A n \in 1 .. Len(uses) : grant[uses[n]].at = "done"
  /\ \A m, n \in 1 .. Len(uses) : uses[m] = uses[n] => m = n

\* What a write was the last to change is as it left it.
LeftInv ==
  \A g \in Grants : \A i \in TaskIds : lastBy[i] = g => i \in Touched(g) /\ task[i] = LastOf(g, i).after

LedgerInv == LedgerTypeOK /\ PinsInv /\ CapInv /\ GrownInv /\ UsesInv /\ LeftInv /\ ShownIsChanged

=============================================================================
