----------------------------- MODULE ResultPost -----------------------------
(***************************************************************************)
(* Posting the result of a confirmed call into its chat                    *)
(* (app/gateway/routers/confirmations.py) through the run manager of each  *)
(* gateway worker (omniharness/runtime/runs/manager.py, worker.py).        *)
(*                                                                         *)
(* One chat.  A checkpoint is always written WHOLE from a copy in memory:  *)
(* by a run, from the state it loaded when it began, by a post, from the   *)
(* checkpoint it has just read, by a rollback, from a snapshot.  A worker  *)
(* has one lock for its runs and its posts; what another worker does it    *)
(* knows only from the rows of the run store.                              *)
(***************************************************************************)
EXTENDS Integers, FiniteSets

CONSTANTS Results,     \* confirmed calls whose results are posted
          Runs,        \* runs of the chat's agent
          Workers,     \* gateway processes
          HomeOf,      \* the worker that starts each run
          Strategies,  \* multitask strategies of new runs, and ways to cancel one
          Events,      \* what the environment may do: see EventNames
          MaxAttempts, \* Len(POST_RETRY_DELAYS)
          MaxCrashes   \* bound: how often workers die

EventNames == {"fails", "unreadable", "delete"}

ASSUME ConstantsAssumption ==
  /\ HomeOf \in [Runs -> Workers]
  /\ Strategies \subseteq {"reject", "interrupt", "rollback"}
  /\ Events \subseteq EventNames
  /\ MaxAttempts \in Nat
  /\ MaxCrashes \in Nat

\* A checkpoint: does the chat have one, and how often each result is in it.
Checkpoint == [there : BOOLEAN, msgs : [Results -> Nat]]
Blank == [m \in Results |-> 0]
NoChat == [there |-> FALSE, msgs |-> Blank]
NewChat == [there |-> TRUE, msgs |-> Blank]

PostStates == {"none", "waiting", "posted", "dropped", "failed"}

(***************************************************************************)
(* What a worker does about a result.  "queued": deferred until a run      *)
(* ends; "drained": taken from the queue, its turn comes; "writing": its   *)
(* write holds the worker's lock; "later": a retry is scheduled.           *)
(***************************************************************************)
Phases == {"off", "call", "wait", "queued", "drained", "writing", "later"}

\* The write under the lock: its next step, or how it ended.
WriteSteps == {"idle", "check", "read", "write", "verify", "written", "gone", "error"}

(***************************************************************************)
(* The life of a run.  "unwind": cancelled, its task not finished; "undo": *)
(* its rollback is due; "final": the worker's finally block; "done": its   *)
(* task is finished, the callback's drain is due; "over"; "lost": its      *)
(* worker died.                                                            *)
(***************************************************************************)
Lives == {"none", "created", "launched", "begun", "ready", "working", "unwind",
          "undo", "final", "ending", "done", "over", "lost"}
LiveTask == {"launched", "begun", "ready", "working", "unwind", "undo", "final", "ending"}

VARIABLES
  rec,     \* rec[m]: post_state of the action's record
  tries,   \* tries[m]: its post_attempts
  chat,    \* the chat's latest checkpoint
  row,     \* row[r]: r's row in the run store counts as active
  up,      \* up[w]: worker w is alive
  crashes, \* how often a worker died
  wiped,   \* how the chat was removed, if it was (history, not in the code)
  \* of each worker:
  phase,   \* phase[w][m]
  step,    \* step[w]: the write that holds the lock
  base,    \* base[w]: the checkpoint that write has read
  \* of each run:
  life,    \* life[r]
  status,  \* the status its worker knows
  abort,   \* why it is to stop
  mem,     \* its state in memory
  pre,     \* its pre-run snapshot: NoChat until it is taken
  blind    \* runs that could not take their snapshot

record == <<rec, tries>>
posts == <<phase, step, base>>
runs == <<life, status, abort, mem, pre, blind>>
world == <<up, crashes, wiped>>
vars == <<record, chat, row, world, posts, runs>>

Init ==
  /\ rec = [m \in Results |-> "none"]
  /\ tries = [m \in Results |-> 0]
  /\ chat = NewChat
  /\ row = [r \in Runs |-> FALSE]
  /\ up = [w \in Workers |-> TRUE]
  /\ crashes = 0
  /\ wiped = {}
  /\ phase = [w \in Workers |-> [m \in Results |-> "off"]]
  /\ step = [w \in Workers |-> "idle"]
  /\ base = [w \in Workers |-> NoChat]
  /\ life = [r \in Runs |-> "none"]
  /\ status = [r \in Runs |-> "none"]
  /\ abort = [r \in Runs |-> "no"]
  /\ mem = [r \in Runs |-> NoChat]
  /\ pre = [r \in Runs |-> NoChat]
  /\ blind = {}

RunsOf(w) == {r \in Runs : HomeOf[r] = w}
Active == {"pending", "running"}
Inflight(w) == {r \in RunsOf(w) : status[r] \in Active}

\* Variant: a run whose status is final no longer holds its chat.
BusyByStatus(w, but) == \E r \in RunsOf(w) \ but : status[r] \in Active

\* RunManager._busy: a run of w other than those in but is pending, running,
\* or its task is not finished.
Busy(w, but) == \E r \in RunsOf(w) \ but : status[r] \in Active \/ life[r] \in LiveTask

\* A run this process does not hold (another worker's, or its own before it
\* died) is active in the run store.
ActiveElsewhere(w) == \E r \in Runs : row[r] /\ (HomeOf[r] # w \/ life[r] = "lost")

Queue(w) == {m \in Results : phase[w][m] = "queued"}
Drained(w) == {m \in Results : phase[w][m] = "drained"}
LockFree(w) == up[w] /\ \A m \in Results : phase[w][m] \notin {"drained", "writing"}
Writing(w, m, s) == phase[w][m] = "writing" /\ step[w] = s

Move(w, m, p) == phase' = [phase EXCEPT ![w][m] = p]
Become(r, l) == life' = [life EXCEPT ![r] = l]
StepTo(w, s) == step' = [step EXCEPT ![w] = s]

(***************************************************************************)
(* Posting one result: post_result and RunManager.write_when_idle.         *)
(***************************************************************************)

\* A confirmed call of the chat ends in worker w: EXECUTED and "waiting" are
\* one write of its record.
Executed(w, m) ==
  /\ up[w]
  /\ rec[m] = "none"
  /\ rec' = [rec EXCEPT ![m] = "waiting"]
  /\ Move(w, m, "call")
  /\ UNCHANGED <<tries, chat, row, world, step, base, runs>>

\* post_result, called now or after a delay.
PostResult(w, m) ==
  /\ phase[w][m] \in {"call", "later"}
  /\ rec' = [rec EXCEPT ![m] = "waiting"]
  /\ Move(w, m, "wait")
  /\ UNCHANGED <<tries, chat, row, world, step, base, runs>>

\* write_when_idle has the lock: queue behind a run of this worker...
Defer(w, m) ==
  /\ phase[w][m] = "wait"
  /\ LockFree(w)
  /\ Busy(w, {})
  /\ Move(w, m, "queued")
  /\ UNCHANGED <<record, chat, row, world, step, base, runs>>

\* ...or keep the lock and ask the run store...
TakeLock(w, m) ==
  /\ phase[w][m] = "wait"
  /\ LockFree(w)
  /\ ~Busy(w, {})
  /\ Move(w, m, "writing")
  /\ StepTo(w, "check")
  /\ UNCHANGED <<record, chat, row, world, base, runs>>

\* Variant: nobody tries again.
ElsewhereForgotten(w, m) ==
  /\ Writing(w, m, "check")
  /\ (ActiveElsewhere(w) \/ "unreadable" \in Events)
  /\ Move(w, m, "off")
  /\ StepTo(w, "idle")
  /\ UNCHANGED <<record, chat, row, world, base, runs>>

\* ...which says that another worker's run holds the chat, or cannot be read:
\* try again later, and do not count it.
Elsewhere(w, m) ==
  /\ Writing(w, m, "check")
  /\ (ActiveElsewhere(w) \/ "unreadable" \in Events)
  /\ Move(w, m, "later")
  /\ StepTo(w, "idle")
  /\ UNCHANGED <<record, chat, row, world, base, runs>>

Idle(w, m) ==
  /\ Writing(w, m, "check")
  /\ ~ActiveElsewhere(w)
  /\ StepTo(w, "read")
  /\ UNCHANGED <<record, chat, row, world, phase, base, runs>>

\* Variant: a retry does not look for the message it may have written before.
ReadChatOnly(w, m) ==
  /\ Writing(w, m, "read")
  /\ base' = [base EXCEPT ![w] = chat]
  /\ StepTo(w, IF chat.there THEN "write" ELSE "gone")
  /\ UNCHANGED <<record, chat, row, world, phase, runs>>

\* _append_to_checkpoint reads the checkpoint: gone, already there, or to write.
ReadChat(w, m) ==
  /\ Writing(w, m, "read")
  /\ base' = [base EXCEPT ![w] = chat]
  /\ StepTo(w, CASE ~chat.there          -> "gone"
                 [] chat.msgs[m] > 0     -> "written"
                 [] OTHER                -> "write")
  /\ UNCHANGED <<record, chat, row, world, phase, runs>>

With(c, m) == [there |-> TRUE, msgs |-> [c.msgs EXCEPT ![m] = @ + 1]]

WriteChat(w, m) ==
  /\ Writing(w, m, "write")
  /\ chat' = With(base[w], m)
  /\ StepTo(w, "verify")
  /\ UNCHANGED <<record, row, world, phase, base, runs>>

ReadBack(w, m) ==
  /\ Writing(w, m, "verify")
  /\ StepTo(w, IF chat.msgs[m] > 0 THEN "written" ELSE "error")
  /\ UNCHANGED <<record, chat, row, world, phase, base, runs>>

\* Any of the three raises; a write may have had its effect.
AppendRaises(w, m) ==
  /\ "fails" \in Events
  /\ step[w] \in {"read", "write", "verify"} /\ phase[w][m] = "writing"
  /\ \/ UNCHANGED chat
     \/ /\ step[w] = "write"
        /\ chat' = With(base[w], m)
  /\ StepTo(w, "error")
  /\ UNCHANGED <<record, row, world, phase, base, runs>>

\* The write of m is over: the next one drained, or the lock is released.
Unlock(w, m, p) ==
  /\ \/ /\ Drained(w) = {}
        /\ Move(w, m, p)
        /\ StepTo(w, "idle")
     \/ \E n \in Drained(w) :
          /\ phase' = [phase EXCEPT ![w][m] = p, ![w][n] = "writing"]
          /\ StepTo(w, "read")
  /\ base' = [base EXCEPT ![w] = NoChat]

\* The outcome is recorded, under the record's lock.
Mark(w, m) ==
  /\ phase[w][m] = "writing"
  /\ step[w] \in {"written", "gone"}
  /\ rec' = [rec EXCEPT ![m] = IF step[w] = "written" THEN "posted" ELSE "dropped"]
  /\ Unlock(w, m, "off")
  /\ UNCHANGED <<tries, chat, row, world, runs>>

\* _schedule_retry: a transient failure is counted, up to the cap.
ScheduleRetry(w, m) ==
  /\ Writing(w, m, "error")
  /\ tries[m] < MaxAttempts
  /\ tries' = [tries EXCEPT ![m] = @ + 1]
  /\ rec' = [rec EXCEPT ![m] = "waiting"]
  /\ Unlock(w, m, "later")
  /\ UNCHANGED <<chat, row, world, runs>>

GiveUp(w, m) ==
  /\ Writing(w, m, "error")
  /\ tries[m] >= MaxAttempts
  /\ tries' = [tries EXCEPT ![m] = @ + 1]
  /\ rec' = [rec EXCEPT ![m] = "failed"]
  /\ Unlock(w, m, "off")
  /\ UNCHANGED <<chat, row, world, runs>>

(***************************************************************************)
(* A run: RunManager.create_or_reject, cancel and set_status, run_agent.   *)
(***************************************************************************)

\* The lives of the runs when those in S are told to stop.  A task that has not
\* begun never begins (those in U), or begins first; a run with no task yet only
\* sees its abort event.
Stopped(S, U) ==
  [q \in Runs |-> CASE q \in U                                -> "ending"
                    [] q \in S \ U /\ life[q] \in LiveTask    -> "unwind"
                    [] OTHER                                  -> life[q]]
Unbegun(S) == SUBSET {q \in S : life[q] = "launched"}
Told(S, how) == [q \in Runs |-> IF q \in S THEN how ELSE abort[q]]
Interrupted(S) == [q \in Runs |-> IF q \in S THEN "interrupted" ELSE status[q]]

\* Variant: a strategy that is not known stops the runs too.
CreateAnyhow(r, how) ==
  /\ life[r] = "none"
  /\ LockFree(HomeOf[r])
  /\ LET S == Inflight(HomeOf[r])
     IN /\ \E U \in Unbegun(S) : life' = [Stopped(S, U) EXCEPT ![r] = "created"]
        /\ abort' = Told(S, how)
        /\ status' = [Interrupted(S) EXCEPT ![r] = "pending"]
  /\ UNCHANGED <<record, chat, row, world, posts, mem, pre, blind>>

\* create_or_reject: rejected while a run is pending or running, or stops it.
Create(r, how) ==
  /\ life[r] = "none"
  /\ LockFree(HomeOf[r])
  /\ LET S == Inflight(HomeOf[r])
     IN /\ how = "reject" => S = {}
        /\ \E U \in Unbegun(S) : life' = [Stopped(S, U) EXCEPT ![r] = "created"]
        /\ abort' = Told(S, how)
        /\ status' = [Interrupted(S) EXCEPT ![r] = "pending"]
  /\ UNCHANGED <<record, chat, row, world, posts, mem, pre, blind>>

\* Its row is stored, active unless it was stopped before; its task is created.
Launch(r) ==
  /\ life[r] = "created"
  /\ Become(r, "launched")
  /\ \/ row' = [row EXCEPT ![r] = TRUE]
     \/ status[r] \notin Active /\ UNCHANGED row
  /\ UNCHANGED <<record, chat, world, posts, status, abort, mem, pre, blind>>

\* cancel: a route, or a client that disconnects.
Cancel(r, how) ==
  /\ status[r] \in Active
  /\ LockFree(HomeOf[r])
  /\ how # "reject"
  /\ \E U \in Unbegun({r}) : life' = Stopped({r}, U)
  /\ abort' = Told({r}, how)
  /\ status' = Interrupted({r})
  /\ UNCHANGED <<record, chat, row, world, posts, mem, pre, blind>>

\* The task's first step: set_status(running), whatever the status was.
Begin(r) ==
  /\ life[r] = "launched"
  /\ LockFree(HomeOf[r])
  /\ Become(r, "begun")
  /\ status' = [status EXCEPT ![r] = "running"]
  /\ row' = [row EXCEPT ![r] = TRUE]
  /\ UNCHANGED <<record, chat, world, posts, abort, mem, pre, blind>>

\* The pre-run snapshot, which may fail.
Snapshot(r) ==
  /\ life[r] = "begun"
  /\ Become(r, "ready")
  /\ \/ pre' = [pre EXCEPT ![r] = chat] /\ UNCHANGED blind
     \/ "fails" \in Events /\ blind' = blind \cup {r} /\ UNCHANGED pre
  /\ UNCHANGED <<record, chat, row, world, posts, status, abort, mem>>

\* The graph loads the chat...
Load(r) ==
  /\ life[r] = "ready"
  /\ Become(r, "working")
  /\ mem' = [mem EXCEPT ![r] = [chat EXCEPT !.there = TRUE]]
  /\ UNCHANGED <<record, chat, row, world, posts, status, abort, pre, blind>>

\* ...and checkpoints it as it goes, also while a cancelled run unwinds.
Save(r) ==
  /\ life[r] = "working" \/ (life[r] = "unwind" /\ mem[r].there)
  /\ chat' = mem[r]
  /\ UNCHANGED <<record, row, world, posts, runs>>

\* The run ends by itself or with an exception; both drop its state.
Finish(r) ==
  /\ life[r] \in {"begun", "ready", "working"}
  /\ LockFree(HomeOf[r])
  /\ Become(r, "final")
  /\ status' = [status EXCEPT ![r] = "ended"]
  /\ row' = [row EXCEPT ![r] = FALSE]
  /\ mem' = [mem EXCEPT ![r] = NoChat]
  /\ pre' = [pre EXCEPT ![r] = NoChat]
  /\ UNCHANGED <<record, chat, world, posts, abort, blind>>

\* The run notices that it was told to stop: its status first, a rollback next.
Stop(r) ==
  /\ life[r] = "unwind" \/ (life[r] = "working" /\ abort[r] # "no")
  /\ LockFree(HomeOf[r])
  /\ Become(r, IF abort[r] = "rollback" THEN "undo" ELSE "final")
  /\ status' = [status EXCEPT ![r] = IF abort[r] = "rollback" THEN "ended" ELSE "interrupted"]
  /\ row' = [row EXCEPT ![r] = FALSE]
  /\ mem' = [mem EXCEPT ![r] = NoChat]
  /\ pre' = IF abort[r] = "rollback" THEN pre ELSE [pre EXCEPT ![r] = NoChat]
  /\ UNCHANGED <<record, chat, world, posts, abort, blind>>

\* _rollback_to_pre_run_checkpoint: no snapshot, no chat; a failed one, nothing.
Undo(r) ==
  /\ life[r] = "undo"
  /\ Become(r, "final")
  /\ \/ chat' = IF r \in blind THEN chat ELSE pre[r]
     \/ "fails" \in Events /\ UNCHANGED chat
  /\ wiped' = IF chat.there /\ ~chat'.there THEN wiped \cup {"rollback"} ELSE wiped
  /\ pre' = [pre EXCEPT ![r] = NoChat]
  /\ UNCHANGED <<record, row, up, crashes, posts, status, abort, mem, blind>>

\* RunManager._drain, under the lock: what is queued is written, unless another
\* run holds the chat.
Drain(w, r) ==
  \/ /\ Queue(w) = {} \/ Busy(w, {r})
     /\ UNCHANGED <<phase, step>>
  \/ /\ ~Busy(w, {r})
     /\ \E n \in Queue(w) :
          phase' = [phase EXCEPT ![w] =
            [m \in Results |-> CASE m = n                -> "writing"
                                 [] m \in Queue(w) \ {n} -> "drained"
                                 [] OTHER                -> phase[w][m]]]
     /\ StepTo(w, "read")

\* The worker drains in its finally block...
FinalDrain(r) ==
  /\ life[r] = "final"
  /\ LockFree(HomeOf[r])
  /\ Drain(HomeOf[r], r)
  /\ Become(r, "ending")
  /\ UNCHANGED <<record, chat, row, world, base, status, abort, mem, pre, blind>>

\* ...which returns, and with it the task...
TaskDone(r) ==
  /\ life[r] = "ending"
  /\ LockFree(HomeOf[r])
  /\ Become(r, "done")
  /\ UNCHANGED <<record, chat, row, world, posts, status, abort, mem, pre, blind>>

\* Variant: the callback of the task does not drain.
DoneOnly(r) ==
  /\ life[r] = "done"
  /\ LockFree(HomeOf[r])
  /\ Become(r, "over")
  /\ UNCHANGED <<record, chat, row, world, posts, status, abort, mem, pre, blind>>

\* ...whose callback drains what was queued since.
DoneDrain(r) ==
  /\ life[r] = "done"
  /\ LockFree(HomeOf[r])
  /\ Drain(HomeOf[r], r)
  /\ Become(r, "over")
  /\ UNCHANGED <<record, chat, row, world, base, status, abort, mem, pre, blind>>

-----------------------------------------------------------------------------

\* The person deletes the chat; nothing stops a run or a post on it.
Delete ==
  /\ "delete" \in Events
  /\ chat.there
  /\ chat' = NoChat
  /\ wiped' = wiped \cup {"delete"}
  /\ UNCHANGED <<record, row, up, crashes, posts, runs>>

\* A row not updated for OTHER_WORKER_RUN_STALE_AFTER no longer counts.
GoStale(r) ==
  /\ row[r]
  /\ row' = [row EXCEPT ![r] = FALSE]
  /\ UNCHANGED <<record, chat, world, posts, runs>>

\* A worker dies: what it had in memory is gone, its rows stay as they were.
Crash(w) ==
  /\ up[w]
  /\ crashes < MaxCrashes
  /\ crashes' = crashes + 1
  /\ up' = [up EXCEPT ![w] = FALSE]
  /\ phase' = [phase EXCEPT ![w] = [m \in Results |-> "off"]]
  /\ step' = [step EXCEPT ![w] = "idle"]
  /\ base' = [base EXCEPT ![w] = NoChat]
  /\ LET L == {r \in RunsOf(w) : life[r] # "none"}
     IN /\ life' = [r \in Runs |-> IF r \in L THEN "lost" ELSE life[r]]
        /\ status' = [r \in Runs |-> IF r \in L THEN "none" ELSE status[r]]
        /\ abort' = [r \in Runs |-> IF r \in L THEN "no" ELSE abort[r]]
        /\ mem' = [r \in Runs |-> IF r \in L THEN NoChat ELSE mem[r]]
        /\ pre' = [r \in Runs |-> IF r \in L THEN NoChat ELSE pre[r]]
        /\ blind' = blind \ L
  /\ UNCHANGED <<record, chat, row, wiped>>

\* It starts again: drain_waiting_posts.
Restart(w) ==
  /\ ~up[w]
  /\ up' = [up EXCEPT ![w] = TRUE]
  /\ phase' = [phase EXCEPT ![w] = [m \in Results |-> IF rec[m] = "waiting" THEN "call" ELSE "off"]]
  /\ UNCHANGED <<record, chat, row, crashes, wiped, step, base, runs>>

-----------------------------------------------------------------------------

PostStep(w, m) ==
  \/ PostResult(w, m) \/ Defer(w, m) \/ TakeLock(w, m) \/ Elsewhere(w, m) \/ Idle(w, m)
  \/ ReadChat(w, m) \/ WriteChat(w, m) \/ ReadBack(w, m) \/ AppendRaises(w, m)
  \/ Mark(w, m) \/ ScheduleRetry(w, m) \/ GiveUp(w, m)

\* What a created run does by itself, short of its agent's own work.
RunEnds(r) ==
  \/ Launch(r) \/ Begin(r) \/ Snapshot(r) \/ Load(r) \/ Finish(r) \/ Stop(r)
  \/ Undo(r) \/ FinalDrain(r) \/ TaskDone(r) \/ DoneDrain(r)

Next ==
  \/ \E w \in Workers, m \in Results : Executed(w, m) \/ PostStep(w, m)
  \/ \E r \in Runs :
       \/ \E how \in Strategies : Create(r, how) \/ Cancel(r, how)
       \/ RunEnds(r)
       \/ Save(r)
       \/ GoStale(r)
  \/ \E w \in Workers : Crash(w) \/ Restart(w)
  \/ Delete

Spec == Init /\ [][Next]_vars

(***************************************************************************)
(* The lock is an asyncio.Lock, first come first served: who waits for it  *)
(* gets it.  A run of the agent ends (it has a recursion limit and         *)
(* timeouts), an hour passes, and a worker that died is started again.     *)
(***************************************************************************)
Fairness ==
  /\ \A w \in Workers, m \in Results : SF_vars(PostStep(w, m))
  /\ \A r \in Runs : SF_vars(RunEnds(r)) /\ WF_vars(GoStale(r))
  /\ \A w \in Workers : WF_vars(Restart(w))
FairSpec == Spec /\ Fairness

-----------------------------------------------------------------------------

\* Every variable has the shape the code gives it.
TypeOK ==
  /\ rec \in [Results -> PostStates]
  /\ tries \in [Results -> Nat]
  /\ chat \in Checkpoint
  /\ row \in [Runs -> BOOLEAN]
  /\ up \in [Workers -> BOOLEAN]
  /\ crashes \in Nat
  /\ wiped \subseteq {"rollback", "delete"}
  /\ phase \in [Workers -> [Results -> Phases]]
  /\ step \in [Workers -> WriteSteps]
  /\ base \in [Workers -> Checkpoint]
  /\ life \in [Runs -> Lives]
  /\ status \in [Runs -> {"none", "pending", "running", "interrupted", "ended"}]
  /\ abort \in [Runs -> {"no", "interrupt", "rollback"}]
  /\ mem \in [Runs -> Checkpoint]
  /\ pre \in [Runs -> Checkpoint]
  /\ blind \subseteq Runs

\* A result recorded "posted" is in the chat, and stays there whatever runs,
\* cancellations and rollbacks come after, until the chat itself is removed:
\* "WITHOUT racing a run on it" (RunManager.write_when_idle).
PostedStays == \A m \in Results : rec[m] = "posted" => chat.msgs[m] > 0 \/ wiped # {}

\* A result is never in the chat twice, however often its post is retried, in
\* this process or after a restart (_append_to_checkpoint, "IDEMPOTENT").
PostedOnce == \A m \in Results : chat.msgs[m] <= 1

\* A write deferred behind a run always has a run whose end will drain it: it is
\* never left in memory with nobody to write it (RunManager.attach_task).
QueueIsWatched ==
  \A w \in Workers :
    Queue(w) # {} => \E r \in RunsOf(w) : life[r] \notin {"none", "over", "lost"}

(***************************************************************************)
(* The inductive invariant behind QueueIsWatched and, with one worker,     *)
(* PostedStays.                                                            *)
(***************************************************************************)

\* A run that is pending or running has not ended.
StatusInv ==
  \A r \in Runs : status[r] \in Active => life[r] \in {"created", "launched", "begun", "ready", "working"}

WatchInv == TypeOK /\ StatusInv /\ QueueIsWatched

\* A run has copies of the chat only while it uses them.
CopiesInv ==
  \A r \in Runs :
    /\ mem[r].there => life[r] \in {"working", "unwind"}
    /\ pre[r].there => life[r] \in {"ready", "working", "unwind", "undo"}
    /\ life[r] = "working" => mem[r].there

\* One write at a time holds the lock of a worker; a dead worker has none, and
\* nobody posts the result of a call that has not run.
HolderInv ==
  \A w \in Workers :
    /\ \A m, n \in Results : phase[w][m] = "writing" /\ phase[w][n] = "writing" => m = n
    /\ step[w] # "idle" <=> \E m \in Results : phase[w][m] = "writing"
    /\ \A m \in Results : ~up[w] \/ rec[m] = "none" => phase[w][m] = "off"

\* While a write holds the lock, no run of its worker has a copy.
LockInv ==
  \A w \in Workers : step[w] # "idle" =>
    \A r \in RunsOf(w) : life[r] \in {"none", "created", "launched", "ending", "done", "over", "lost"}

\* What was posted is in every copy that may still be written.
KeptInv ==
  wiped = {} => chat.there /\ \A m \in Results :
    /\ rec[m] = "posted" =>
         /\ chat.msgs[m] > 0
         /\ \A r \in Runs : /\ mem[r].there => mem[r].msgs[m] > 0
                            /\ pre[r].there => pre[r].msgs[m] > 0
         /\ \A w \in Workers : step[w] = "write" => base[w].msgs[m] > 0
    /\ \A w \in Workers : Writing(w, m, "written") => chat.msgs[m] > 0

KeepInv == WatchInv /\ CopiesInv /\ HolderInv /\ LockInv /\ KeptInv

\* What PostedOnce needs: no copy of the chat has a result twice, and a write
\* about to be done is of a result that its copy does not have.
Single(c) == \A m \in Results : c.msgs[m] <= 1
OnceInv ==
  /\ Single(chat)
  /\ \A r \in Runs : Single(mem[r]) /\ Single(pre[r])
  /\ \A w \in Workers : Single(base[w])
  /\ \A w \in Workers, m \in Results : Writing(w, m, "write") => base[w].msgs[m] = 0

OnlyOnceInv == TypeOK /\ HolderInv /\ OnceInv

\* "Never 'waiting' forever" (post_result): a waiting result is posted, dropped
\* with its chat, or given up.
EveryPostEnds ==
  \A m \in Results : rec[m] = "waiting" ~> rec[m] \in {"posted", "dropped", "failed"}

\* A rollback reverts to the state before the run (thread_runs.cancel_run,
\* "revert to pre-run checkpoint state"): what was posted before is still there.
RollbackKeepsPosted ==
  \A m \in Results : rec[m] = "posted" => chat.msgs[m] > 0 \/ "delete" \in wiped

=============================================================================
