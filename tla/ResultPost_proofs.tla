-------------------------- MODULE ResultPost_proofs --------------------------
(***************************************************************************)
(* Theorems about ResultPost.  Watched: a deferred write always has a run  *)
(* whose end drains it.  Kept: with one worker, a posted result stays in   *)
(* the chat, because no copy of the chat exists in the worker while a      *)
(* write holds its lock, so every copy made later has what was written.    *)
(* Once: a result is in no chat twice, whatever copies of the chat are     *)
(* written back, because who posts it looks for it in the chat first.      *)
(***************************************************************************)
EXTENDS ResultPost, TLAPS

USE DEF record, posts, runs, world, Writing, Move, Become, StepTo

\* The checkpoints that the code writes are checkpoints.
LEMMA CheckpointTypes ==
  /\ NoChat \in Checkpoint
  /\ NewChat \in Checkpoint
  /\ ~NoChat.there
  /\ \A c \in Checkpoint : [c EXCEPT !.there = TRUE] \in Checkpoint
  /\ \A c \in Checkpoint, m \in Results : With(c, m) \in Checkpoint
<1>1. Blank \in [Results -> Nat]
  BY DEF Blank
<1>2. ASSUME NEW c \in Checkpoint PROVE [c EXCEPT !.there = TRUE] \in Checkpoint
  BY DEF Checkpoint
<1>3. ASSUME NEW c \in Checkpoint, NEW m \in Results PROVE With(c, m) \in Checkpoint
  <2>1. c.msgs \in [Results -> Nat]
    BY DEF Checkpoint
  <2>2. [c.msgs EXCEPT ![m] = @ + 1] \in [Results -> Nat]
    BY <2>1
  <2> QED BY <2>2 DEF Checkpoint, With
<1> QED BY <1>1, <1>2, <1>3 DEF Checkpoint, NoChat, NewChat

\* What releasing the lock, or going on with the next write, changes.
LEMMA UnlockType ==
  ASSUME TypeOK, NEW w \in Workers, NEW m \in Results, NEW p \in Phases, Unlock(w, m, p)
  PROVE  /\ phase' \in [Workers -> [Results -> Phases]]
         /\ step' \in [Workers -> WriteSteps]
         /\ base' \in [Workers -> Checkpoint]
<1>1. base' \in [Workers -> Checkpoint]
  BY CheckpointTypes DEF Unlock, TypeOK
<1>2. CASE Move(w, m, p) /\ StepTo(w, "idle")
  BY <1>1, <1>2 DEF TypeOK, WriteSteps
<1>3. ASSUME NEW n \in Results,
             phase' = [phase EXCEPT ![w][m] = p, ![w][n] = "writing"], StepTo(w, "read")
      PROVE  phase' \in [Workers -> [Results -> Phases]] /\ step' \in [Workers -> WriteSteps]
  BY <1>3 DEF TypeOK, WriteSteps, Phases
<1> QED BY <1>1, <1>2, <1>3 DEF Unlock, Drained

\* What draining the queue changes.
LEMMA DrainType ==
  ASSUME TypeOK, NEW w \in Workers, NEW r \in Runs, Drain(w, r)
  PROVE  /\ phase' \in [Workers -> [Results -> Phases]]
         /\ step' \in [Workers -> WriteSteps]
<1>1. CASE UNCHANGED <<phase, step>>
  BY <1>1 DEF TypeOK
<1>2. ASSUME NEW n \in Results,
             phase' = [phase EXCEPT ![w] =
               [m \in Results |-> CASE m = n                -> "writing"
                                    [] m \in Queue(w) \ {n} -> "drained"
                                    [] OTHER                -> phase[w][m]]],
             StepTo(w, "read")
      PROVE  phase' \in [Workers -> [Results -> Phases]] /\ step' \in [Workers -> WriteSteps]
  <2>1. [m \in Results |-> CASE m = n                -> "writing"
                             [] m \in Queue(w) \ {n} -> "drained"
                             [] OTHER                -> phase[w][m]] \in [Results -> Phases]
    BY DEF TypeOK, Phases
  <2> QED BY <1>2, <2>1 DEF TypeOK, WriteSteps
<1> QED BY <1>1, <1>2 DEF Drain, Queue

\* Runs that are told to stop keep well-typed lives, reasons and statuses.
LEMMA StoppedType ==
  ASSUME TypeOK, NEW S, NEW U, NEW how \in {"interrupt", "rollback"}
  PROVE  /\ Stopped(S, U) \in [Runs -> Lives]
         /\ Told(S, how) \in [Runs -> {"no", "interrupt", "rollback"}]
         /\ Interrupted(S) \in [Runs -> {"none", "pending", "running", "interrupted", "ended"}]
BY DEF TypeOK, Stopped, Told, Interrupted, Lives

\* Every step keeps the types.
LEMMA TypeStep == TypeOK /\ [Next]_vars => TypeOK'
<1> SUFFICES ASSUME TypeOK, [Next]_vars PROVE TypeOK'
  OBVIOUS
<1> USE DEF Phases, WriteSteps, PostStates
<1>1. ASSUME NEW w \in Workers, NEW m \in Results, Executed(w, m) PROVE TypeOK'
  BY <1>1 DEF Executed, TypeOK
<1>2. ASSUME NEW w \in Workers, NEW m \in Results, PostResult(w, m) PROVE TypeOK'
  BY <1>2 DEF PostResult, TypeOK
<1>3. ASSUME NEW w \in Workers, NEW m \in Results, Defer(w, m) PROVE TypeOK'
  BY <1>3 DEF Defer, TypeOK
<1>4. ASSUME NEW w \in Workers, NEW m \in Results, TakeLock(w, m) PROVE TypeOK'
  BY <1>4 DEF TakeLock, TypeOK
<1>5. ASSUME NEW w \in Workers, NEW m \in Results, Elsewhere(w, m) PROVE TypeOK'
  BY <1>5 DEF Elsewhere, TypeOK
<1>6. ASSUME NEW w \in Workers, NEW m \in Results, Idle(w, m) PROVE TypeOK'
  BY <1>6 DEF Idle, TypeOK
<1>7. ASSUME NEW w \in Workers, NEW m \in Results, ReadChat(w, m) PROVE TypeOK'
  BY <1>7 DEF ReadChat, TypeOK
<1>8. ASSUME NEW w \in Workers, NEW m \in Results, WriteChat(w, m) PROVE TypeOK'
  BY <1>8, CheckpointTypes DEF WriteChat, TypeOK
<1>9. ASSUME NEW w \in Workers, NEW m \in Results, ReadBack(w, m) PROVE TypeOK'
  BY <1>9 DEF ReadBack, TypeOK
<1>10. ASSUME NEW w \in Workers, NEW m \in Results, AppendRaises(w, m) PROVE TypeOK'
  BY <1>10, CheckpointTypes DEF AppendRaises, TypeOK
<1>11. ASSUME NEW w \in Workers, NEW m \in Results, Mark(w, m) PROVE TypeOK'
  BY <1>11, UnlockType DEF Mark, TypeOK
<1>12. ASSUME NEW w \in Workers, NEW m \in Results, ScheduleRetry(w, m) PROVE TypeOK'
  BY <1>12, UnlockType DEF ScheduleRetry, TypeOK
<1>13. ASSUME NEW w \in Workers, NEW m \in Results, GiveUp(w, m) PROVE TypeOK'
  BY <1>13, UnlockType DEF GiveUp, TypeOK
<1>14. ASSUME NEW r \in Runs, NEW how \in Strategies, Create(r, how) PROVE TypeOK'
  <2>1. CASE how = "reject"
    <3>1. /\ life' \in [Runs -> Lives]
          /\ abort' = abort
          /\ status' \in [Runs -> {"none", "pending", "running", "interrupted", "ended"}]
      BY <1>14, <2>1 DEF Create, TypeOK, Stopped, Told, Interrupted, Lives
    <3> QED BY <1>14, <3>1 DEF Create, TypeOK
  <2>2. CASE how # "reject"
    <3>1. /\ life' \in [Runs -> Lives]
          /\ abort' \in [Runs -> {"no", "interrupt", "rollback"}]
          /\ status' \in [Runs -> {"none", "pending", "running", "interrupted", "ended"}]
      BY <1>14, <2>2, StoppedType, ConstantsAssumption DEF Create, Lives
    <3> QED BY <1>14, <3>1 DEF Create, TypeOK
  <2> QED BY <2>1, <2>2
<1>15. ASSUME NEW r \in Runs, Launch(r) PROVE TypeOK'
  BY <1>15 DEF Launch, TypeOK, Lives
<1>16. ASSUME NEW r \in Runs, NEW how \in Strategies, Cancel(r, how) PROVE TypeOK'
  <2>1. how \in {"interrupt", "rollback"}
    BY <1>16, ConstantsAssumption DEF Cancel
  <2>2. /\ life' \in [Runs -> Lives]
        /\ abort' \in [Runs -> {"no", "interrupt", "rollback"}]
        /\ status' \in [Runs -> {"none", "pending", "running", "interrupted", "ended"}]
    <3>1. PICK U \in Unbegun({r}) : life' = Stopped({r}, U)
      BY <1>16 DEF Cancel
    <3>2. abort' = Told({r}, how) /\ status' = Interrupted({r})
      BY <1>16 DEF Cancel
    <3>3. Stopped({r}, U) \in [Runs -> Lives]
      BY <2>1, StoppedType
    <3>4. /\ Told({r}, how) \in [Runs -> {"no", "interrupt", "rollback"}]
          /\ Interrupted({r}) \in [Runs -> {"none", "pending", "running", "interrupted", "ended"}]
      BY <2>1, StoppedType
    <3> QED BY <3>1, <3>2, <3>3, <3>4
  <2> QED BY <1>16, <2>2 DEF Cancel, TypeOK
<1>17. ASSUME NEW r \in Runs, Begin(r) PROVE TypeOK'
  BY <1>17 DEF Begin, TypeOK, Lives
<1>18. ASSUME NEW r \in Runs, Snapshot(r) PROVE TypeOK'
  BY <1>18 DEF Snapshot, TypeOK, Lives
<1>19. ASSUME NEW r \in Runs, Load(r) PROVE TypeOK'
  BY <1>19, CheckpointTypes DEF Load, TypeOK, Lives
<1>20. ASSUME NEW r \in Runs, Save(r) PROVE TypeOK'
  BY <1>20 DEF Save, TypeOK
<1>21. ASSUME NEW r \in Runs, Finish(r) PROVE TypeOK'
  BY <1>21, CheckpointTypes DEF Finish, TypeOK, Lives
<1>22. ASSUME NEW r \in Runs, Stop(r) PROVE TypeOK'
  BY <1>22, CheckpointTypes DEF Stop, TypeOK, Lives
<1>23. ASSUME NEW r \in Runs, Undo(r) PROVE TypeOK'
  BY <1>23, CheckpointTypes DEF Undo, TypeOK, Lives
<1>24. ASSUME NEW r \in Runs, FinalDrain(r) PROVE TypeOK'
  BY <1>24, DrainType, ConstantsAssumption DEF FinalDrain, TypeOK, Lives
<1>25. ASSUME NEW r \in Runs, TaskDone(r) PROVE TypeOK'
  BY <1>25 DEF TaskDone, TypeOK, Lives
<1>26. ASSUME NEW r \in Runs, DoneDrain(r) PROVE TypeOK'
  BY <1>26, DrainType, ConstantsAssumption DEF DoneDrain, TypeOK, Lives
<1>27. ASSUME NEW r \in Runs, GoStale(r) PROVE TypeOK'
  BY <1>27 DEF GoStale, TypeOK
<1>28. ASSUME Delete PROVE TypeOK'
  BY <1>28, CheckpointTypes DEF Delete, TypeOK
<1>29. ASSUME NEW w \in Workers, Crash(w) PROVE TypeOK'
  BY <1>29, CheckpointTypes DEF Crash, TypeOK, Lives
<1>30. ASSUME NEW w \in Workers, Restart(w) PROVE TypeOK'
  BY <1>30 DEF Restart, TypeOK
<1>31. CASE UNCHANGED vars
  BY <1>31 DEF vars, TypeOK
<1> QED
  BY <1>1, <1>2, <1>3, <1>4, <1>5, <1>6, <1>7, <1>8, <1>9, <1>10, <1>11, <1>12, <1>13, <1>14,
     <1>15, <1>16, <1>17, <1>18, <1>19, <1>20, <1>21, <1>22, <1>23, <1>24, <1>25, <1>26, <1>27,
     <1>28, <1>29, <1>30, <1>31
  DEF Next, PostStep, RunEnds

\* Initially no result is posted, no run started, no worker down.
LEMMA TypeInit == Init => TypeOK
BY CheckpointTypes
DEF Init, TypeOK, Phases, WriteSteps, PostStates, Lives

\* Every variable has the shape the code gives it, for all results, runs, workers and events.
THEOREM TypeCorrect == Spec => []TypeOK
<1> QED BY TypeInit, TypeStep, PTL DEF Spec

-----------------------------------------------------------------------------

\* A run whose end still drains the queue of its worker.
Watcher(r) == life[r] \notin {"none", "over", "lost"}

\* A step that queues nothing and ends no watcher keeps the queues watched.
LEMMA WatchKeeps ==
  ASSUME QueueIsWatched,
         \A v \in Workers : Queue(v)' \subseteq Queue(v),
         \A r \in Runs : Watcher(r) => Watcher(r)'
  PROVE  QueueIsWatched'
BY DEF QueueIsWatched, Watcher, RunsOf

\* A post that moves anywhere but into the queue queues nothing.
LEMMA MoveQueue ==
  ASSUME TypeOK, NEW w \in Workers, NEW m \in Results, NEW p, p # "queued", Move(w, m, p)
  PROVE  \A v \in Workers : Queue(v)' \subseteq Queue(v)
<1> SUFFICES ASSUME NEW v \in Workers, NEW n \in Results, phase'[v][n] = "queued"
             PROVE  phase[v][n] = "queued"
  BY DEF Queue
<1> QED BY DEF TypeOK

\* Neither does the end of a write.
LEMMA UnlockQueue ==
  ASSUME TypeOK, NEW w \in Workers, NEW m \in Results, NEW p, p # "queued", Unlock(w, m, p)
  PROVE  \A v \in Workers : Queue(v)' \subseteq Queue(v)
<1>1. CASE Move(w, m, p)
  BY <1>1, MoveQueue
<1>2. ASSUME NEW n \in Results, phase' = [phase EXCEPT ![w][m] = p, ![w][n] = "writing"]
      PROVE  \A v \in Workers : Queue(v)' \subseteq Queue(v)
  <2> SUFFICES ASSUME NEW v \in Workers, NEW k \in Results, phase'[v][k] = "queued"
               PROVE  phase[v][k] = "queued"
    BY DEF Queue
  <2> QED BY <1>2 DEF TypeOK
<1> QED BY <1>1, <1>2 DEF Unlock, Drained

\* A drain leaves the queue of its worker empty, or behind another run.
LEMMA DrainQueue ==
  ASSUME TypeOK, StatusInv, NEW w \in Workers, NEW r \in Runs, Drain(w, r)
  PROVE  /\ \A v \in Workers : Queue(v)' \subseteq Queue(v)
         /\ Queue(w)' = {} \/ \E q \in RunsOf(w) \ {r} : Watcher(q)
<1>1. CASE Queue(w) = {} /\ UNCHANGED <<phase, step>>
  BY <1>1 DEF Queue
<1>2. CASE Busy(w, {r}) /\ UNCHANGED <<phase, step>>
  <2>1. PICK q \in RunsOf(w) \ {r} : status[q] \in Active \/ life[q] \in LiveTask
    BY <1>2 DEF Busy
  <2>2. Watcher(q)
    BY <2>1 DEF Watcher, StatusInv, LiveTask, RunsOf
  <2> QED BY <1>2, <2>1, <2>2 DEF Queue
<1>3. ASSUME NEW n \in Queue(w),
             phase' = [phase EXCEPT ![w] =
               [m \in Results |-> CASE m = n                -> "writing"
                                    [] m \in Queue(w) \ {n} -> "drained"
                                    [] OTHER                -> phase[w][m]]]
      PROVE  /\ Queue(w)' = {}
             /\ \A v \in Workers : Queue(v)' \subseteq Queue(v)
  <2>1. ASSUME NEW k \in Results PROVE phase'[w][k] # "queued"
    <3>1. phase'[w][k] = CASE k = n                -> "writing"
                           [] k \in Queue(w) \ {n} -> "drained"
                           [] OTHER                -> phase[w][k]
      BY <1>3 DEF TypeOK
    <3> QED BY <3>1 DEF Queue
  <2>2. Queue(w)' = {}
    BY <2>1 DEF Queue
  <2>3. ASSUME NEW v \in Workers, v # w PROVE phase'[v] = phase[v]
    BY <1>3, <2>3 DEF TypeOK
  <2> QED BY <2>2, <2>3 DEF Queue
<1> QED BY <1>1, <1>2, <1>3 DEF Drain

\* Runs told to stop are not active any more, and still drain when they end.
LEMMA StoppedWatch ==
  ASSUME TypeOK, NEW S, NEW U \in Unbegun(S), NEW q \in Runs
  PROVE  /\ Watcher(q) => Stopped(S, U)[q] \notin {"none", "over", "lost"}
         /\ q \notin S => Stopped(S, U)[q] = life[q]
         /\ q \in S => Interrupted(S)[q] \notin Active
         /\ q \notin S => Interrupted(S)[q] = status[q]
BY DEF TypeOK, Watcher, Stopped, Interrupted, Unbegun, Active

\* Every step keeps the queues watched, and an active run from having ended.
LEMMA WatchStep == WatchInv /\ [Next]_vars => StatusInv' /\ QueueIsWatched'
<1> SUFFICES ASSUME WatchInv, [Next]_vars PROVE StatusInv' /\ QueueIsWatched'
  OBVIOUS
<1>0. TypeOK /\ StatusInv /\ QueueIsWatched
  BY DEF WatchInv
<1>1. ASSUME NEW w \in Workers, NEW m \in Results,
             Executed(w, m) \/ PostResult(w, m) \/ TakeLock(w, m) \/ Elsewhere(w, m)
      PROVE  StatusInv' /\ QueueIsWatched'
  <2>1. UNCHANGED <<life, status>> /\ \E p : p # "queued" /\ Move(w, m, p)
    BY <1>1 DEF Executed, PostResult, TakeLock, Elsewhere
  <2> QED BY <1>0, <2>1, MoveQueue, WatchKeeps DEF StatusInv, Watcher
<1>2. ASSUME NEW w \in Workers, NEW m \in Results, Defer(w, m)
      PROVE  StatusInv' /\ QueueIsWatched'
  <2>1. UNCHANGED <<life, status>> /\ Move(w, m, "queued")
    BY <1>2 DEF Defer
  <2>2. \E r \in RunsOf(w) : Watcher(r)
    BY <1>0, <1>2 DEF Defer, Busy, RunsOf, StatusInv, Watcher, LiveTask
  <2>3. \A v \in Workers : v # w => Queue(v)' = Queue(v)
    BY <1>0, <2>1 DEF Queue, TypeOK
  <2> QED BY <1>0, <2>1, <2>2, <2>3 DEF StatusInv, QueueIsWatched, Watcher, RunsOf
<1>3. ASSUME NEW w \in Workers, NEW m \in Results,
             Idle(w, m) \/ ReadChat(w, m) \/ WriteChat(w, m) \/ ReadBack(w, m) \/ AppendRaises(w, m)
      PROVE  StatusInv' /\ QueueIsWatched'
  <2>1. UNCHANGED <<life, status, phase>>
    BY <1>3 DEF Idle, ReadChat, WriteChat, ReadBack, AppendRaises
  <2> QED BY <1>0, <2>1 DEF StatusInv, QueueIsWatched, Queue, RunsOf
<1>4. ASSUME NEW w \in Workers, NEW m \in Results,
             Mark(w, m) \/ ScheduleRetry(w, m) \/ GiveUp(w, m)
      PROVE  StatusInv' /\ QueueIsWatched'
  <2>1. UNCHANGED <<life, status>> /\ \E p : p # "queued" /\ Unlock(w, m, p)
    BY <1>4 DEF Mark, ScheduleRetry, GiveUp
  <2> QED BY <1>0, <2>1, UnlockQueue, WatchKeeps DEF StatusInv, Watcher
<1>5. ASSUME NEW r \in Runs, NEW how \in Strategies, Create(r, how)
      PROVE  StatusInv' /\ QueueIsWatched'
  <2> DEFINE S == Inflight(HomeOf[r])
  <2>1. PICK U \in Unbegun(S) : life' = [Stopped(S, U) EXCEPT ![r] = "created"]
    BY <1>5 DEF Create
  <2>2. status' = [Interrupted(S) EXCEPT ![r] = "pending"] /\ UNCHANGED phase
    BY <1>5 DEF Create
  <2>3. ASSUME NEW q \in Runs
        PROVE  /\ Watcher(q) => Watcher(q)'
               /\ status'[q] \in Active => life'[q] \in {"created", "launched", "begun", "ready", "working"}
    <3>1. CASE q = r
      BY <1>0, <2>1, <2>2, <3>1 DEF Watcher, Stopped, Interrupted
    <3>2. CASE q # r
      <4>1. life'[q] = Stopped(S, U)[q] /\ status'[q] = Interrupted(S)[q]
        BY <2>1, <2>2, <3>2 DEF Stopped, Interrupted
      <4> QED BY <1>0, <4>1, StoppedWatch DEF Watcher, StatusInv
    <3> QED BY <3>1, <3>2
  <2> QED BY <1>0, <2>2, <2>3, WatchKeeps DEF StatusInv, Queue
<1>6. ASSUME NEW r \in Runs, NEW how \in Strategies, Cancel(r, how)
      PROVE  StatusInv' /\ QueueIsWatched'
  <2>1. PICK U \in Unbegun({r}) : life' = Stopped({r}, U)
    BY <1>6 DEF Cancel
  <2>2. status' = Interrupted({r}) /\ UNCHANGED phase
    BY <1>6 DEF Cancel
  <2>3. ASSUME NEW q \in Runs
        PROVE  /\ Watcher(q) => Watcher(q)'
               /\ status'[q] \in Active => life'[q] \in {"created", "launched", "begun", "ready", "working"}
    BY <1>0, <2>1, <2>2, StoppedWatch DEF Watcher, StatusInv
  <2> QED BY <1>0, <2>2, <2>3, WatchKeeps DEF StatusInv, Queue
<1>7. ASSUME NEW r \in Runs,
             \/ Launch(r) \/ Begin(r) \/ Snapshot(r) \/ Load(r) \/ Save(r) \/ Finish(r) \/ Stop(r)
             \/ Undo(r) \/ TaskDone(r) \/ GoStale(r)
      PROVE  StatusInv' /\ QueueIsWatched'
  <2>1. UNCHANGED phase
    BY <1>7 DEF Launch, Begin, Snapshot, Load, Save, Finish, Stop, Undo, TaskDone, GoStale
  <2>2. /\ \A q \in Runs : q # r => life'[q] = life[q] /\ status'[q] = status[q]
        /\ Watcher(r) => Watcher(r)'
        /\ status'[r] \in Active => life'[r] \in {"created", "launched", "begun", "ready", "working"}
    BY <1>0, <1>7 DEF Launch, Begin, Snapshot, Load, Save, Finish, Stop, Undo, TaskDone, GoStale,
                      TypeOK, StatusInv, Watcher, Active
  <2> QED BY <1>0, <2>1, <2>2, WatchKeeps DEF StatusInv, Watcher, Queue
<1>8. ASSUME NEW r \in Runs, FinalDrain(r) PROVE StatusInv' /\ QueueIsWatched'
  <2>1. /\ Drain(HomeOf[r], r) /\ HomeOf[r] \in Workers
        /\ life[r] = "final" /\ life' = [life EXCEPT ![r] = "ending"] /\ UNCHANGED status
    BY <1>8, ConstantsAssumption DEF FinalDrain
  <2>2. \A q \in Runs : Watcher(q) => Watcher(q)'
    BY <1>0, <2>1 DEF Watcher, TypeOK
  <2>3. \A v \in Workers : Queue(v)' \subseteq Queue(v)
    BY <1>0, <2>1, DrainQueue
  <2> QED BY <1>0, <2>1, <2>2, <2>3, WatchKeeps DEF StatusInv, TypeOK
<1>9. ASSUME NEW r \in Runs, DoneDrain(r) PROVE StatusInv' /\ QueueIsWatched'
  <2>1. /\ Drain(HomeOf[r], r) /\ HomeOf[r] \in Workers
        /\ life[r] = "done" /\ life' = [life EXCEPT ![r] = "over"] /\ UNCHANGED status
    BY <1>9, ConstantsAssumption DEF DoneDrain
  <2>2. /\ \A v \in Workers : Queue(v)' \subseteq Queue(v)
        /\ Queue(HomeOf[r])' = {} \/ \E q \in RunsOf(HomeOf[r]) \ {r} : Watcher(q)
    BY <1>0, <2>1, DrainQueue
  <2>3. \A q \in Runs : q # r => life'[q] = life[q]
    BY <1>0, <2>1 DEF TypeOK
  <2>4. ASSUME NEW v \in Workers, Queue(v)' # {} PROVE \E q \in RunsOf(v) : Watcher(q)'
    <3>1. CASE v = HomeOf[r]
      BY <2>2, <2>3, <2>4, <3>1 DEF Watcher, RunsOf
    <3>2. CASE v # HomeOf[r]
      <4>1. PICK q \in RunsOf(v) : Watcher(q)
        BY <1>0, <2>2, <2>4 DEF QueueIsWatched, Watcher
      <4>2. q # r
        BY <3>2 DEF RunsOf
      <4> QED BY <2>3, <4>1, <4>2 DEF Watcher, RunsOf
    <3> QED BY <3>1, <3>2
  <2> QED BY <1>0, <2>1, <2>4 DEF StatusInv, QueueIsWatched, Watcher, TypeOK, RunsOf
<1>10. ASSUME NEW w \in Workers, Crash(w) PROVE StatusInv' /\ QueueIsWatched'
  <2>1. Queue(w)' = {} /\ \A v \in Workers : v # w => Queue(v)' = Queue(v)
    BY <1>0, <1>10 DEF Crash, Queue, TypeOK
  <2>2. \A q \in Runs : HomeOf[q] # w => life'[q] = life[q] /\ status'[q] = status[q]
    BY <1>0, <1>10 DEF Crash, RunsOf, TypeOK
  <2>3. \A q \in Runs : status'[q] \in Active => life'[q] \in {"created", "launched", "begun", "ready", "working"}
    BY <1>0, <1>10 DEF Crash, RunsOf, TypeOK, StatusInv, Active
  <2> QED BY <1>0, <2>1, <2>2, <2>3 DEF StatusInv, QueueIsWatched, RunsOf
<1>11. ASSUME NEW w \in Workers, Restart(w) PROVE StatusInv' /\ QueueIsWatched'
  <2>1. \A v \in Workers : Queue(v)' \subseteq Queue(v)
    BY <1>0, <1>11 DEF Restart, Queue, TypeOK
  <2> QED BY <1>0, <1>11, <2>1, WatchKeeps DEF Restart, StatusInv, Watcher
<1>12. CASE Delete \/ UNCHANGED vars
  BY <1>0, <1>12 DEF Delete, vars, StatusInv, QueueIsWatched, Queue, RunsOf
<1> QED
  BY <1>1, <1>2, <1>3, <1>4, <1>5, <1>6, <1>7, <1>8, <1>9, <1>10, <1>11, <1>12
  DEF Next, PostStep, RunEnds

\* A write deferred behind a run always has a run whose end will drain it
\* (RunManager.attach_task), for any number of results, runs and workers.
THEOREM Watched == Spec => []QueueIsWatched
<1>1. Init => WatchInv
  BY TypeInit DEF Init, WatchInv, StatusInv, QueueIsWatched, Queue, Active
<1>2. WatchInv /\ [Next]_vars => WatchInv'
  BY TypeStep, WatchStep DEF WatchInv
<1>3. WatchInv => QueueIsWatched
  BY DEF WatchInv
<1> QED BY <1>1, <1>2, <1>3, PTL DEF Spec

-----------------------------------------------------------------------------

\* Nobody writes while the lock is free, and a write that does holds it.
LEMMA LockFacts ==
  ASSUME HolderInv, NEW w \in Workers
  PROVE  /\ LockFree(w) => step[w] = "idle" /\ Drained(w) = {}
         /\ \A m \in Results : phase[w][m] = "writing" => step[w] # "idle" /\ up[w]
BY DEF HolderInv, LockFree, Drained

\* Every step leaves a run no copy of the chat that it does not use.
LEMMA CopiesStep == TypeOK /\ StatusInv /\ CopiesInv /\ [Next]_vars => CopiesInv'
<1> SUFFICES ASSUME TypeOK, StatusInv, CopiesInv, [Next]_vars PROVE CopiesInv'
  OBVIOUS
<1> USE CheckpointTypes
<1>1. CASE UNCHANGED <<life, mem, pre>>
  BY <1>1 DEF CopiesInv
<1>2. ASSUME NEW r \in Runs, NEW how \in Strategies, Create(r, how) PROVE CopiesInv'
  <2> DEFINE S == Inflight(HomeOf[r])
  <2>1. PICK U \in Unbegun(S) : life' = [Stopped(S, U) EXCEPT ![r] = "created"]
    BY <1>2 DEF Create
  <2>2. UNCHANGED <<mem, pre>> /\ life[r] = "none"
    BY <1>2 DEF Create
  <2>3. \A q \in Runs : q # r => life'[q] = Stopped(S, U)[q]
    BY <2>1 DEF Stopped
  <2>4. life'[r] = "created"
    BY <2>1 DEF Stopped
  <2>5. ASSUME NEW q \in Runs, q # r, life[q] # life'[q]
        PROVE  \/ life[q] \in {"launched", "begun", "ready", "working"} /\ life'[q] = "unwind"
               \/ life[q] = "launched" /\ life'[q] = "ending"
    <3>1. CASE q \in U
      BY <2>3, <2>5, <3>1 DEF Stopped, Unbegun
    <3>2. CASE q \notin U
      BY <2>3, <2>5, <3>2 DEF Stopped, LiveTask, StatusInv, Inflight, RunsOf
    <3> QED BY <3>1, <3>2
  <2> QED BY <2>2, <2>4, <2>5 DEF CopiesInv
<1>3. ASSUME NEW r \in Runs, NEW how \in Strategies, Cancel(r, how) PROVE CopiesInv'
  <2>1. PICK U \in Unbegun({r}) : life' = Stopped({r}, U)
    BY <1>3 DEF Cancel
  <2>2. UNCHANGED <<mem, pre>> /\ life[r] \in {"created", "launched", "begun", "ready", "working"}
    BY <1>3 DEF Cancel, StatusInv
  <2>3. ASSUME NEW q \in Runs, life[q] # life'[q]
        PROVE  \/ life[q] \in {"launched", "begun", "ready", "working"} /\ life'[q] = "unwind"
               \/ life[q] = "launched" /\ life'[q] = "ending"
    <3>1. CASE q \in U
      BY <2>1, <2>3, <3>1 DEF Stopped, Unbegun
    <3>2. CASE q \notin U
      BY <2>1, <2>2, <2>3, <3>2 DEF Stopped, LiveTask
    <3> QED BY <3>1, <3>2
  <2> QED BY <2>2, <2>3 DEF CopiesInv
<1>4. ASSUME NEW r \in Runs,
             \/ Launch(r) \/ Begin(r) \/ Snapshot(r) \/ Load(r) \/ Finish(r) \/ Stop(r)
             \/ Undo(r) \/ FinalDrain(r) \/ TaskDone(r) \/ DoneDrain(r)
      PROVE  CopiesInv'
  <2>1. \A q \in Runs : q # r => life'[q] = life[q] /\ mem'[q] = mem[q] /\ pre'[q] = pre[q]
    BY <1>4 DEF Launch, Begin, Snapshot, Load, Finish, Stop, Undo, FinalDrain, TaskDone, DoneDrain, TypeOK
  <2>2. /\ mem'[r].there => life'[r] \in {"working", "unwind"}
        /\ pre'[r].there => life'[r] \in {"ready", "working", "unwind", "undo"}
        /\ life'[r] = "working" => mem'[r].there
    <3>1. CASE Launch(r) \/ Begin(r) \/ FinalDrain(r) \/ TaskDone(r) \/ DoneDrain(r)
      BY <3>1 DEF Launch, Begin, FinalDrain, TaskDone, DoneDrain, TypeOK, CopiesInv
    <3>2. CASE Snapshot(r) \/ Undo(r)
      BY <3>2 DEF Snapshot, Undo, TypeOK, CopiesInv
    <3>3. CASE Load(r)
      BY <3>3 DEF Load, TypeOK, CopiesInv, Checkpoint
    <3>4. CASE Finish(r) \/ Stop(r)
      BY <3>4 DEF Finish, Stop, TypeOK, CopiesInv
    <3> QED BY <1>4, <3>1, <3>2, <3>3, <3>4
  <2> QED BY <2>1, <2>2 DEF CopiesInv
<1>5. ASSUME NEW w \in Workers, Crash(w) PROVE CopiesInv'
  <2> SUFFICES ASSUME NEW q \in Runs
               PROVE  /\ mem'[q].there => life'[q] \in {"working", "unwind"}
                      /\ pre'[q].there => life'[q] \in {"ready", "working", "unwind", "undo"}
                      /\ life'[q] = "working" => mem'[q].there
    BY DEF CopiesInv
  <2> QED BY <1>5 DEF Crash, CopiesInv, TypeOK
<1> QED
  BY <1>1, <1>2, <1>3, <1>4, <1>5
  DEF Next, PostStep, RunEnds, Executed, PostResult, Defer, TakeLock, Elsewhere, Idle, ReadChat,
      WriteChat, ReadBack, AppendRaises, Mark, ScheduleRetry, GiveUp, Save, GoStale, Restart,
      Delete, vars

\* Every step leaves the lock of a worker with at most one write.
LEMMA HolderStep == TypeOK /\ HolderInv /\ [Next]_vars => HolderInv'
<1> SUFFICES ASSUME TypeOK, HolderInv, [Next]_vars PROVE HolderInv'
  OBVIOUS
<1>1. CASE UNCHANGED <<phase, step, up, rec>>
  BY <1>1 DEF HolderInv
<1>2. ASSUME NEW w \in Workers, NEW m \in Results,
             Executed(w, m) \/ PostResult(w, m) \/ Defer(w, m)
      PROVE  HolderInv'
  <2>1. /\ phase[w][m] # "writing" /\ up[w]
        /\ UNCHANGED <<step, up>>
        /\ \E p \in {"call", "wait", "queued"} : Move(w, m, p)
        /\ rec'[m] # "none" /\ \A n \in Results : n # m => rec'[n] = rec[n]
    BY <1>2 DEF Executed, PostResult, Defer, TypeOK, HolderInv
  <2>2. \A v \in Workers, n \in Results :
          /\ phase'[v][n] = "writing" <=> phase[v][n] = "writing"
          /\ <<v, n>> # <<w, m>> => phase'[v][n] = phase[v][n]
    BY <2>1 DEF TypeOK
  <2>3. /\ \A n \in Results : rec'[n] = "none" => rec[n] = "none" /\ n # m
        /\ \A v \in Workers : ~up'[v] => ~up[v] /\ v # w
    BY <2>1
  <2> QED BY <2>1, <2>2, <2>3 DEF HolderInv
<1>3. ASSUME NEW w \in Workers, NEW m \in Results, TakeLock(w, m) PROVE HolderInv'
  <2>1. /\ phase' = [phase EXCEPT ![w][m] = "writing"] /\ step' = [step EXCEPT ![w] = "check"]
        /\ UNCHANGED <<up, rec>> /\ phase[w][m] # "off" /\ LockFree(w)
    BY <1>3 DEF TakeLock
  <2> QED BY <2>1 DEF HolderInv, LockFree, TypeOK
<1>4. ASSUME NEW w \in Workers, NEW m \in Results, Elsewhere(w, m) PROVE HolderInv'
  <2>1. /\ phase' = [phase EXCEPT ![w][m] = "later"] /\ step' = [step EXCEPT ![w] = "idle"]
        /\ UNCHANGED <<up, rec>> /\ phase[w][m] = "writing"
    BY <1>4 DEF Elsewhere
  <2> QED BY <2>1 DEF HolderInv, TypeOK
<1>5. ASSUME NEW w \in Workers, NEW m \in Results,
             Idle(w, m) \/ ReadChat(w, m) \/ WriteChat(w, m) \/ ReadBack(w, m) \/ AppendRaises(w, m)
      PROVE  HolderInv'
  <2>1. /\ phase[w][m] = "writing" /\ UNCHANGED <<phase, up, rec>>
        /\ \E s : s # "idle" /\ StepTo(w, s)
    BY <1>5 DEF Idle, ReadChat, WriteChat, ReadBack, AppendRaises
  <2> QED BY <2>1 DEF HolderInv, TypeOK
<1>6. ASSUME NEW w \in Workers, NEW m \in Results,
             Mark(w, m) \/ ScheduleRetry(w, m) \/ GiveUp(w, m)
      PROVE  HolderInv'
  <2>1. /\ phase[w][m] = "writing" /\ UNCHANGED up
        /\ rec'[m] # "none" /\ \A n \in Results : n # m => rec'[n] = rec[n]
        /\ \E p \in {"off", "later"} : Unlock(w, m, p)
    BY <1>6 DEF Mark, ScheduleRetry, GiveUp, TypeOK
  <2>2. PICK p \in {"off", "later"} : Unlock(w, m, p)
    BY <2>1
  <2>3. CASE Move(w, m, p) /\ StepTo(w, "idle")
    <3>1. \A v \in Workers, n \in Results : phase'[v][n] = IF v = w /\ n = m THEN p ELSE phase[v][n]
      BY <2>3 DEF TypeOK
    <3>2. \A v \in Workers : step'[v] = IF v = w THEN "idle" ELSE step[v]
      BY <2>3 DEF TypeOK
    <3>3. up[w]
      BY <2>1 DEF HolderInv
    <3> QED BY <2>1, <2>2, <3>1, <3>2, <3>3 DEF HolderInv
  <2>4. ASSUME NEW k \in Drained(w), phase' = [phase EXCEPT ![w][m] = p, ![w][k] = "writing"],
               StepTo(w, "read")
        PROVE  HolderInv'
    <3>1. k \in Results /\ k # m /\ phase[w][k] = "drained"
      BY <2>1 DEF Drained
    <3>2. \A v \in Workers, n \in Results :
            phase'[v][n] = IF v = w /\ n = m THEN p ELSE IF v = w /\ n = k THEN "writing" ELSE phase[v][n]
      BY <2>4, <3>1 DEF TypeOK
    <3>3. \A v \in Workers : step'[v] = IF v = w THEN "read" ELSE step[v]
      BY <2>4 DEF TypeOK
    <3>4. up[w]
      BY <2>1 DEF HolderInv
    <3> QED BY <2>1, <2>2, <3>1, <3>2, <3>3, <3>4 DEF HolderInv
  <2> QED BY <2>2, <2>3, <2>4 DEF Unlock
<1>7. ASSUME NEW r \in Runs, FinalDrain(r) \/ DoneDrain(r) PROVE HolderInv'
  <2> DEFINE w == HomeOf[r]
  <2>1. w \in Workers /\ LockFree(w) /\ Drain(w, r) /\ UNCHANGED <<up, rec>>
    BY <1>7, ConstantsAssumption DEF FinalDrain, DoneDrain
  <2>2. CASE UNCHANGED <<phase, step>>
    BY <2>1, <2>2 DEF HolderInv
  <2>3. ASSUME NEW k \in Queue(w),
               phase' = [phase EXCEPT ![w] =
                 [m \in Results |-> CASE m = k                -> "writing"
                                      [] m \in Queue(w) \ {k} -> "drained"
                                      [] OTHER                -> phase[w][m]]],
               StepTo(w, "read")
        PROVE  HolderInv'
    <3>1. \A v \in Workers, n \in Results :
            /\ phase'[v][n] = "writing" <=> (IF v = w THEN n = k ELSE phase[v][n] = "writing")
            /\ phase[v][n] = "off" => phase'[v][n] = "off"
      <4> TAKE v \in Workers, n \in Results
      <4>1. CASE v # w
        BY <2>1, <2>3, <4>1 DEF TypeOK
      <4>2. CASE v = w
        <5>1. phase'[w][n] = CASE n = k                -> "writing"
                               [] n \in Queue(w) \ {k} -> "drained"
                               [] OTHER                -> phase[w][n]
          BY <2>1, <2>3 DEF TypeOK
        <5>2. phase[w][n] # "writing" /\ phase[w][k] = "queued"
          BY <2>1, <2>3 DEF LockFree, Queue
        <5> QED BY <4>2, <5>1, <5>2 DEF Queue
      <4> QED BY <4>1, <4>2
    <3>2. \A v \in Workers : step'[v] = IF v = w THEN "read" ELSE step[v]
      BY <2>3 DEF TypeOK
    <3>3. k \in Results
      BY DEF Queue
    <3> QED BY <2>1, <3>1, <3>2, <3>3 DEF HolderInv
  <2> QED BY <2>1, <2>2, <2>3 DEF Drain
<1>8. ASSUME NEW w \in Workers, Crash(w) PROVE HolderInv'
  BY <1>8 DEF Crash, HolderInv, TypeOK
<1>9. ASSUME NEW w \in Workers, Restart(w) PROVE HolderInv'
  BY <1>9 DEF Restart, HolderInv, TypeOK
<1> QED
  BY <1>1, <1>2, <1>3, <1>4, <1>5, <1>6, <1>7, <1>8, <1>9
  DEF Next, PostStep, RunEnds, Create, Cancel, Launch, Begin, Snapshot, Load, Finish, Stop, Undo,
      TaskDone, Save, GoStale, Delete, vars

-----------------------------------------------------------------------------

\* The lives of a run that has no copy of the chat, and will take none before it
\* has had the lock.
Quiet == {"none", "created", "launched", "ending", "done", "over", "lost"}

\* While a write holds the lock of a worker, the runs of that worker stay quiet.
LEMMA LockStep == TypeOK /\ HolderInv /\ LockInv /\ [Next]_vars => LockInv'
<1> SUFFICES ASSUME TypeOK, HolderInv, LockInv, [Next]_vars PROVE LockInv'
  OBVIOUS
<1> USE DEF Quiet
<1>1. CASE UNCHANGED <<step, life>>
  BY <1>1 DEF LockInv, RunsOf
<1>2. ASSUME NEW w \in Workers, NEW m \in Results,
             \/ Elsewhere(w, m) \/ Idle(w, m) \/ ReadChat(w, m) \/ WriteChat(w, m) \/ ReadBack(w, m)
             \/ AppendRaises(w, m) \/ Mark(w, m) \/ ScheduleRetry(w, m) \/ GiveUp(w, m)
      PROVE  LockInv'
  <2>1. /\ phase[w][m] = "writing" /\ UNCHANGED life
        /\ \A v \in Workers : v # w => step'[v] = step[v]
    BY <1>2 DEF Elsewhere, Idle, ReadChat, WriteChat, ReadBack, AppendRaises, Mark, ScheduleRetry,
                GiveUp, Unlock, TypeOK
  <2>2. step[w] # "idle"
    BY <2>1, LockFacts
  <2> QED BY <2>1, <2>2 DEF LockInv, RunsOf
<1>3. ASSUME NEW w \in Workers, NEW m \in Results, TakeLock(w, m) PROVE LockInv'
  <2>1. /\ UNCHANGED life /\ ~Busy(w, {})
        /\ \A v \in Workers : v # w => step'[v] = step[v]
    BY <1>3 DEF TakeLock, TypeOK
  <2>2. \A r \in RunsOf(w) : life[r] \in Quiet
    BY <2>1 DEF Busy, TypeOK, Lives, LiveTask, RunsOf
  <2> QED BY <2>1, <2>2 DEF LockInv, RunsOf
<1>4. ASSUME NEW r \in Runs, NEW how \in Strategies, Create(r, how) \/ Cancel(r, how)
      PROVE  LockInv'
  <2>1. step[HomeOf[r]] = "idle" /\ UNCHANGED step
    BY <1>4, LockFacts, ConstantsAssumption DEF Create, Cancel
  <2>2. ASSUME NEW q \in Runs, HomeOf[q] # HomeOf[r] PROVE life'[q] = life[q]
    <3>1. CASE Create(r, how)
      <4>1. PICK U \in Unbegun(Inflight(HomeOf[r])) :
              life' = [Stopped(Inflight(HomeOf[r]), U) EXCEPT ![r] = "created"]
        BY <3>1 DEF Create
      <4>2. q \notin Inflight(HomeOf[r]) /\ q # r
        BY <2>2 DEF Inflight, RunsOf
      <4> QED BY <4>1, <4>2 DEF Stopped, Unbegun
    <3>2. CASE Cancel(r, how)
      <4>1. PICK U \in Unbegun({r}) : life' = Stopped({r}, U)
        BY <3>2 DEF Cancel
      <4> QED BY <2>2, <4>1 DEF Stopped, Unbegun
    <3> QED BY <1>4, <3>1, <3>2
  <2> QED BY <2>1, <2>2 DEF LockInv, RunsOf
<1>5. ASSUME NEW r \in Runs,
             \/ Launch(r) \/ Begin(r) \/ Snapshot(r) \/ Load(r) \/ Finish(r) \/ Stop(r)
             \/ Undo(r) \/ TaskDone(r)
      PROVE  LockInv'
  <2>1. UNCHANGED step /\ \A q \in Runs : q # r => life'[q] = life[q]
    BY <1>5 DEF Launch, Begin, Snapshot, Load, Finish, Stop, Undo, TaskDone, TypeOK
  <2>2. step[HomeOf[r]] = "idle" \/ life'[r] \in Quiet
    <3>1. CASE Launch(r)
      BY <3>1 DEF Launch, TypeOK
    <3>2. CASE Begin(r) \/ Finish(r) \/ Stop(r) \/ TaskDone(r)
      BY <3>2, LockFacts, ConstantsAssumption DEF Begin, Finish, Stop, TaskDone
    <3>3. CASE Snapshot(r) \/ Load(r) \/ Undo(r)
      BY <3>3, ConstantsAssumption DEF Snapshot, Load, Undo, LockInv, RunsOf
    <3> QED BY <1>5, <3>1, <3>2, <3>3
  <2> QED BY <2>1, <2>2 DEF LockInv, RunsOf
<1>6. ASSUME NEW r \in Runs, FinalDrain(r) \/ DoneDrain(r) PROVE LockInv'
  <2> DEFINE w == HomeOf[r]
  <2>1. w \in Workers /\ LockFree(w) /\ Drain(w, r)
    BY <1>6, ConstantsAssumption DEF FinalDrain, DoneDrain
  <2>2. /\ \A q \in Runs : q # r => life'[q] = life[q]
        /\ life'[r] \in Quiet
    BY <1>6 DEF FinalDrain, DoneDrain, TypeOK
  <2>3. CASE UNCHANGED step
    BY <2>1, <2>2, <2>3, LockFacts DEF LockInv, RunsOf
  <2>4. CASE StepTo(w, "read") /\ ~Busy(w, {r})
    <3>1. \A q \in RunsOf(w) : life'[q] \in Quiet
      BY <2>2, <2>4 DEF Busy, RunsOf, TypeOK, Lives, LiveTask
    <3>2. \A v \in Workers : v # w => step'[v] = step[v]
      BY <2>4 DEF TypeOK
    <3> QED BY <2>2, <3>1, <3>2 DEF LockInv, RunsOf
  <2> QED BY <2>1, <2>3, <2>4 DEF Drain
<1>7. ASSUME NEW w \in Workers, Crash(w) PROVE LockInv'
  BY <1>7 DEF Crash, LockInv, RunsOf, TypeOK
<1> QED
  BY <1>1, <1>2, <1>3, <1>4, <1>5, <1>6, <1>7
  DEF Next, PostStep, RunEnds, Executed, PostResult, Defer, Save, GoStale, Restart, Delete, vars

\* With one worker, a write that holds the lock finds no copy of the chat.
LEMMA NoCopies ==
  ASSUME CopiesInv, LockInv, ConstantsAssumption, NEW w, Workers = {w}, step[w] # "idle", NEW r \in Runs
  PROVE  /\ ~mem[r].there /\ ~pre[r].there
         /\ life[r] \notin {"ready", "working", "unwind", "undo"}
<1>1. r \in RunsOf(w)
  BY ConstantsAssumption DEF RunsOf
<1> QED BY <1>1 DEF CopiesInv, LockInv

\* A chat that was removed stays removed as far as wiped tells.
LEMMA WipedStays ==
  ASSUME [Next]_vars, wiped' = {}
  PROVE  wiped = {}
<1>1. ASSUME NEW w \in Workers, NEW m \in Results, Executed(w, m) \/ PostStep(w, m)
      PROVE  wiped' = wiped
  BY <1>1 DEF PostStep, Executed, PostResult, Defer, TakeLock, Elsewhere, Idle, ReadChat, WriteChat,
              ReadBack, AppendRaises, Mark, ScheduleRetry, GiveUp
<1>2. ASSUME NEW r \in Runs,
             \/ Launch(r) \/ Begin(r) \/ Snapshot(r) \/ Load(r) \/ Save(r) \/ Finish(r) \/ Stop(r)
             \/ FinalDrain(r) \/ TaskDone(r) \/ DoneDrain(r) \/ GoStale(r)
             \/ \E how \in Strategies : Create(r, how) \/ Cancel(r, how)
      PROVE  wiped' = wiped
  BY <1>2 DEF Launch, Begin, Snapshot, Load, Save, Finish, Stop, FinalDrain, TaskDone, DoneDrain,
              GoStale, Create, Cancel
<1>3. ASSUME NEW r \in Runs, Undo(r) PROVE wiped \subseteq wiped'
  BY <1>3 DEF Undo
<1>4. ASSUME NEW w \in Workers, Crash(w) \/ Restart(w) PROVE wiped' = wiped
  BY <1>4 DEF Crash, Restart
<1>5. CASE Delete
  BY <1>5 DEF Delete
<1>6. CASE UNCHANGED vars
  BY <1>6 DEF vars
<1> QED BY <1>1, <1>2, <1>3, <1>4, <1>5, <1>6 DEF Next, RunEnds

\* A checkpoint that holds every posted result.
Holds(c) == \A m \in Results : rec[m] = "posted" => c.msgs[m] > 0

\* With one worker, every step keeps the posted results in the chat and in every
\* copy of it that may still be written.
LEMMA KeptStep ==
  ASSUME NEW w, Workers = {w}, KeepInv, [Next]_vars
  PROVE  KeptInv'
<1>0. /\ TypeOK /\ StatusInv /\ CopiesInv /\ HolderInv /\ LockInv /\ KeptInv
      /\ w \in Workers /\ \A r \in Runs : HomeOf[r] = w
  BY ConstantsAssumption DEF KeepInv, WatchInv
<1> DEFINE Goal ==
      /\ chat'.there
      /\ \A m \in Results :
           /\ rec'[m] = "posted" =>
                /\ chat'.msgs[m] > 0
                /\ \A r \in Runs : /\ mem'[r].there => mem'[r].msgs[m] > 0
                                   /\ pre'[r].there => pre'[r].msgs[m] > 0
                /\ step'[w] = "write" => base'[w].msgs[m] > 0
           /\ phase'[w][m] = "writing" /\ step'[w] = "written" => chat'.msgs[m] > 0
<1> SUFFICES ASSUME wiped' = {} PROVE Goal
  BY <1>0 DEF KeptInv
<1>1. wiped = {}
  BY WipedStays
<1>2. /\ chat.there /\ Holds(chat)
      /\ \A r \in Runs : (mem[r].there => Holds(mem[r])) /\ (pre[r].there => Holds(pre[r]))
      /\ step[w] = "write" => Holds(base[w])
      /\ \A m \in Results : phase[w][m] = "writing" /\ step[w] = "written" => chat.msgs[m] > 0
  BY <1>0, <1>1 DEF KeptInv, Holds
<1>3. \A c \in Checkpoint, m, n \in Results : c.msgs[n] > 0 \/ n = m => With(c, m).msgs[n] > 0
  BY DEF With, Checkpoint
<1> USE DEF Holds
<1>4. ASSUME /\ UNCHANGED <<chat, mem, pre>>
             /\ \A m \in Results : rec'[m] = "posted" => rec[m] = "posted"
             /\ step'[w] = "write" => step[w] = "write" /\ base'[w] = base[w]
             /\ \A m \in Results : phase'[w][m] = "writing" /\ step'[w] = "written" =>
                   phase[w][m] = "writing" /\ step[w] = "written"
      PROVE  Goal
  BY <1>2, <1>4
<1>5. ASSUME NEW m \in Results, Executed(w, m) \/ PostResult(w, m) \/ Defer(w, m) PROVE Goal
  <2>1. /\ UNCHANGED <<chat, mem, pre, step, base>>
        /\ rec' = rec \/ rec' = [rec EXCEPT ![m] = "waiting"]
        /\ \E p \in {"call", "wait", "queued"} : Move(w, m, p)
    BY <1>5 DEF Executed, PostResult, Defer
  <2>2. /\ \A n \in Results : rec'[n] = "posted" => rec[n] = "posted"
        /\ \A n \in Results : phase'[w][n] = "writing" => phase[w][n] = "writing"
    BY <1>0, <2>1 DEF TypeOK
  <2> QED BY <1>4, <2>1, <2>2
<1>6. ASSUME NEW m \in Results, TakeLock(w, m) \/ Elsewhere(w, m) \/ Idle(w, m) PROVE Goal
  <2>1. /\ UNCHANGED <<chat, mem, pre, rec>>
        /\ step'[w] \in {"check", "idle", "read"}
    BY <1>0, <1>6 DEF TakeLock, Elsewhere, Idle, TypeOK
  <2> QED BY <1>4, <2>1
<1>7. ASSUME NEW m \in Results, ScheduleRetry(w, m) \/ GiveUp(w, m) PROVE Goal
  <2>1. /\ UNCHANGED <<chat, mem, pre>>
        /\ step'[w] \in {"idle", "read"}
        /\ \A n \in Results : rec'[n] = "posted" => rec[n] = "posted"
    BY <1>0, <1>7 DEF ScheduleRetry, GiveUp, Unlock, TypeOK
  <2> QED BY <1>4, <2>1
<1>8. ASSUME NEW m \in Results, ReadChat(w, m) PROVE Goal
  <2>1. /\ UNCHANGED <<chat, mem, pre, rec, phase>> /\ phase[w][m] = "writing"
        /\ base'[w] = chat
        /\ step'[w] = "written" => chat.msgs[m] > 0
    <3>1. UNCHANGED <<chat, mem, pre, rec, phase>> /\ phase[w][m] = "writing" /\ base'[w] = chat
      BY <1>0, <1>8 DEF ReadChat, TypeOK
    <3>2. CASE chat.msgs[m] > 0
      BY <3>1, <3>2
    <3>3. CASE ~(chat.msgs[m] > 0)
      <4>1. step' = [step EXCEPT ![w] = "write"]
        BY <1>2, <1>8, <3>3, Zenon DEF ReadChat
      <4> QED BY <1>0, <3>1, <4>1 DEF TypeOK
    <3> QED BY <3>1, <3>2, <3>3
  <2>2. \A n \in Results : phase[w][n] = "writing" => n = m
    BY <1>0, <2>1 DEF HolderInv
  <2> QED BY <1>2, <2>1, <2>2
<1>9. ASSUME NEW m \in Results, WriteChat(w, m) \/ AppendRaises(w, m) PROVE Goal
  <2>1. /\ UNCHANGED <<mem, pre, rec>>
        /\ step'[w] \in {"verify", "error"} /\ phase[w][m] = "writing"
        /\ chat' = chat \/ (step[w] = "write" /\ chat' = With(base[w], m))
    BY <1>0, <1>9 DEF WriteChat, AppendRaises, TypeOK
  <2>2. base[w] \in Checkpoint
    BY <1>0 DEF TypeOK
  <2>3. CASE chat' = chat
    BY <1>2, <2>1, <2>3
  <2>4. CASE step[w] = "write" /\ chat' = With(base[w], m)
    <3>1. With(base[w], m).there
      BY DEF With
    <3>2. \A n \in Results : rec[n] = "posted" => With(base[w], m).msgs[n] > 0
      BY <1>2, <1>3, <2>2, <2>4
    <3> QED BY <1>2, <2>1, <2>4, <3>1, <3>2
  <2> QED BY <2>1, <2>3, <2>4
<1>10. ASSUME NEW m \in Results, ReadBack(w, m) PROVE Goal
  <2>1. /\ UNCHANGED <<chat, mem, pre, rec, phase>> /\ phase[w][m] = "writing"
        /\ step'[w] = "written" => chat.msgs[m] > 0
        /\ step'[w] # "write"
    BY <1>0, <1>10 DEF ReadBack, TypeOK
  <2>2. \A n \in Results : phase[w][n] = "writing" => n = m
    BY <1>0, <2>1 DEF HolderInv
  <2> QED BY <1>2, <2>1, <2>2
<1>11. ASSUME NEW m \in Results, Mark(w, m) PROVE Goal
  <2>1. /\ UNCHANGED <<chat, mem, pre>>
        /\ phase[w][m] = "writing" /\ step'[w] \in {"idle", "read"}
        /\ rec'[m] = "posted" => step[w] = "written"
        /\ \A n \in Results : n # m => rec'[n] = rec[n]
    BY <1>0, <1>11 DEF Mark, Unlock, TypeOK
  <2>2. \A r \in Runs : ~mem[r].there /\ ~pre[r].there
    BY <1>0, <2>1, LockFacts, NoCopies, ConstantsAssumption
  <2> QED BY <1>2, <2>1, <2>2
<1>12. ASSUME NEW r \in Runs,
              \/ Launch(r) \/ Begin(r) \/ Finish(r) \/ Stop(r) \/ TaskDone(r) \/ GoStale(r)
              \/ \E how \in Strategies : Create(r, how) \/ Cancel(r, how)
       PROVE  Goal
  <2>1. /\ UNCHANGED <<chat, rec, phase, step, base>>
        /\ \A q \in Runs : /\ mem'[q] = mem[q] \/ ~mem'[q].there
                           /\ pre'[q] = pre[q] \/ ~pre'[q].there
    BY <1>0, <1>12, CheckpointTypes
    DEF Launch, Begin, Finish, Stop, TaskDone, GoStale, Create, Cancel, TypeOK
  <2> QED BY <1>2, <2>1
<1>13. ASSUME NEW r \in Runs, Snapshot(r) \/ Load(r) PROVE Goal
  <2>1. /\ UNCHANGED <<chat, rec, phase, step, base>>
        /\ \A q \in Runs : /\ mem'[q] = mem[q] \/ mem'[q].msgs = chat.msgs
                           /\ pre'[q] = pre[q] \/ pre'[q] = chat
    BY <1>0, <1>13 DEF Snapshot, Load, TypeOK, Checkpoint
  <2> QED BY <1>2, <2>1
<1>14. ASSUME NEW r \in Runs, Save(r) PROVE Goal
  <2>1. /\ UNCHANGED <<mem, pre, rec, phase, step, base>>
        /\ chat' = mem[r] /\ mem[r].there /\ life[r] \in {"working", "unwind"}
    BY <1>0, <1>14 DEF Save, CopiesInv
  <2>2. step[w] = "idle"
    BY <1>0, <2>1, NoCopies, ConstantsAssumption
  <2> QED BY <1>2, <2>1, <2>2
<1>15. ASSUME NEW r \in Runs, Undo(r) PROVE Goal
  <2>1. /\ UNCHANGED <<mem, rec, phase, step, base>> /\ life[r] = "undo"
        /\ \A q \in Runs : pre'[q] = pre[q] \/ ~pre'[q].there
        /\ chat' \in {chat, pre[r]} /\ chat'.there
    BY <1>0, <1>1, <1>2, <1>15, CheckpointTypes DEF Undo, TypeOK
  <2>2. step[w] = "idle"
    BY <1>0, <2>1, NoCopies, ConstantsAssumption
  <2> QED BY <1>2, <2>1, <2>2
<1>16. ASSUME NEW r \in Runs, FinalDrain(r) \/ DoneDrain(r) PROVE Goal
  <2>1. /\ UNCHANGED <<chat, mem, pre, rec, base>> /\ LockFree(w) /\ Drain(w, r)
    BY <1>0, <1>16 DEF FinalDrain, DoneDrain
  <2>2. step[w] = "idle"
    BY <1>0, <2>1, LockFacts
  <2>3. step'[w] \in {"idle", "read"}
    BY <1>0, <2>1, <2>2 DEF Drain, TypeOK
  <2> QED BY <1>4, <2>1, <2>3
<1>17. ASSUME Crash(w) \/ Restart(w) PROVE Goal
  <2>1. /\ UNCHANGED <<chat, rec>> /\ step'[w] = "idle"
        /\ \A q \in Runs : /\ mem'[q] = mem[q] \/ ~mem'[q].there
                           /\ pre'[q] = pre[q] \/ ~pre'[q].there
    BY <1>0, <1>17, CheckpointTypes DEF Crash, Restart, TypeOK, HolderInv
  <2> QED BY <1>2, <2>1
<1>18. CASE Delete
  BY <1>18 DEF Delete
<1>19. CASE UNCHANGED vars
  BY <1>4, <1>19 DEF vars
<1> QED
  BY <1>0, <1>5, <1>6, <1>7, <1>8, <1>9, <1>10, <1>11, <1>12, <1>13, <1>14, <1>15, <1>16, <1>17,
     <1>18, <1>19
  DEF Next, PostStep, RunEnds

\* With one worker process, a posted result stays in the chat whatever runs,
\* cancellations, rollbacks and restarts come after, until the chat is removed
\* (RunManager.write_when_idle): for any number of results and runs.
THEOREM Kept ==
  ASSUME NEW w, Workers = {w}
  PROVE  Spec => []PostedStays
<1>1. Init => KeepInv
  BY TypeInit, CheckpointTypes
  DEF Init, KeepInv, WatchInv, StatusInv, QueueIsWatched, Queue, Active, CopiesInv, HolderInv,
      LockInv, KeptInv, NewChat
<1>2. KeepInv /\ [Next]_vars => KeepInv'
  BY TypeStep, WatchStep, CopiesStep, HolderStep, LockStep, KeptStep DEF KeepInv, WatchInv
<1>3. KeepInv => PostedStays
  BY DEF KeepInv, KeptInv, PostedStays
<1> QED BY <1>1, <1>2, <1>3, PTL DEF Spec

-----------------------------------------------------------------------------

\* Copying a checkpoint doubles nothing, nor does writing a result it did not have.
LEMMA SingleCopies ==
  /\ Single(NoChat) /\ Single(NewChat)
  /\ \A c \in Checkpoint : Single(c) => Single([c EXCEPT !.there = TRUE])
  /\ \A c \in Checkpoint, m \in Results : Single(c) /\ c.msgs[m] = 0 => Single(With(c, m))
<1>1. Single(NoChat) /\ Single(NewChat)
  BY DEF Single, NoChat, NewChat, Blank
<1>2. ASSUME NEW c \in Checkpoint, Single(c) PROVE Single([c EXCEPT !.there = TRUE])
  BY <1>2 DEF Single, Checkpoint
<1>3. ASSUME NEW c \in Checkpoint, NEW m \in Results, Single(c), c.msgs[m] = 0
      PROVE  Single(With(c, m))
  <2>1. c.msgs \in [Results -> Nat]
    BY DEF Checkpoint
  <2>2. \A n \in Results : With(c, m).msgs[n] = IF n = m THEN 1 ELSE c.msgs[n]
    BY <1>3, <2>1 DEF With
  <2> QED BY <1>3, <2>2 DEF Single
<1> QED BY <1>1, <1>2, <1>3

\* Every step keeps the results single in the chat and in every copy of it: only
\* ReadChat leads to a write, and it looks for the message first.
LEMMA OnceStep == TypeOK /\ HolderInv /\ OnceInv /\ [Next]_vars => OnceInv'
<1> SUFFICES ASSUME TypeOK, HolderInv, OnceInv, [Next]_vars PROVE OnceInv'
  OBVIOUS
<1> USE SingleCopies
\* A step that writes no new copy, and starts no write.
<1>1. ASSUME chat' \in {chat, NoChat} \/ (\E r \in Runs : chat' \in {mem[r], pre[r]}),
             \A r \in Runs : mem'[r] \in {mem[r], NoChat, [chat EXCEPT !.there = TRUE]},
             \A r \in Runs : pre'[r] \in {pre[r], NoChat, chat},
             \A w \in Workers : base'[w] \in {base[w], NoChat},
             \A w \in Workers, m \in Results :
               phase'[w][m] = "writing" /\ step'[w] = "write" =>
                 phase[w][m] = "writing" /\ step[w] = "write" /\ base'[w] = base[w]
      PROVE  OnceInv'
  <2>1. chat \in Checkpoint
    BY DEF TypeOK
  <2>2. Single(chat')
    BY <1>1 DEF OnceInv
  <2>3. ASSUME NEW r \in Runs PROVE Single(mem'[r]) /\ Single(pre'[r])
    BY <1>1, <2>1 DEF OnceInv
  <2>4. ASSUME NEW w \in Workers PROVE Single(base'[w])
    BY <1>1 DEF OnceInv
  <2>5. ASSUME NEW w \in Workers, NEW m \in Results, phase'[w][m] = "writing", step'[w] = "write"
        PROVE  base'[w].msgs[m] = 0
    BY <1>1, <2>5 DEF OnceInv
  <2> QED BY <2>2, <2>3, <2>4, <2>5 DEF OnceInv
<1>2. ASSUME NEW w \in Workers, NEW m \in Results,
             Executed(w, m) \/ PostResult(w, m) \/ Defer(w, m)
      PROVE  OnceInv'
  <2>1. /\ UNCHANGED <<chat, mem, pre, base, step>>
        /\ \E p \in {"call", "wait", "queued"} : Move(w, m, p)
    BY <1>2 DEF Executed, PostResult, Defer
  <2>2. \A v \in Workers, n \in Results : phase'[v][n] = "writing" => phase[v][n] = "writing"
    BY <2>1 DEF TypeOK
  <2> QED BY <1>1, <2>1, <2>2
<1>3. ASSUME NEW w \in Workers, NEW m \in Results, TakeLock(w, m) \/ Elsewhere(w, m) \/ Idle(w, m)
      PROVE  OnceInv'
  <2>1. /\ UNCHANGED <<chat, mem, pre, base>>
        /\ \E s \in {"check", "idle", "read"} : StepTo(w, s)
        /\ \E p \in {"writing", "later", phase[w][m]} : Move(w, m, p) \/ UNCHANGED phase
    BY <1>3 DEF TakeLock, Elsewhere, Idle
  <2>2. \A v \in Workers : step'[v] = "write" => v # w /\ step[v] = "write"
    BY <2>1 DEF TypeOK
  <2>3. \A v \in Workers, n \in Results : v # w => phase'[v][n] = phase[v][n]
    BY <2>1 DEF TypeOK
  <2> QED BY <1>1, <2>1, <2>2, <2>3
<1>4. ASSUME NEW w \in Workers, NEW m \in Results, ReadChat(w, m) PROVE OnceInv'
  <2>1. /\ UNCHANGED <<chat, mem, pre, phase>> /\ phase[w][m] = "writing"
        /\ \A v \in Workers : base'[v] = IF v = w THEN chat ELSE base[v]
    BY <1>4 DEF ReadChat, TypeOK
  <2>2. \A v \in Workers : v # w => step'[v] = step[v]
    BY <1>4 DEF ReadChat, TypeOK
  <2>3. step'[w] = "write" => chat.msgs[m] = 0
    <3>1. chat.msgs[m] \in Nat
      BY DEF TypeOK, Checkpoint
    <3>2. CASE chat.msgs[m] > 0
      <4> DEFINE next == CASE ~chat.there      -> "gone"
                           [] chat.msgs[m] > 0 -> "written"
                           [] OTHER            -> "write"
      <4>1. step' = [step EXCEPT ![w] = next]
        BY <1>4 DEF ReadChat
      <4>2. next \in {"gone", "written"}
        BY <3>2
      <4> HIDE DEF next
      <4> QED BY <4>1, <4>2 DEF TypeOK
    <3> QED BY <3>1, <3>2
  <2>4. \A n \in Results : phase[w][n] = "writing" => n = m
    BY <2>1 DEF HolderInv
  <2> QED BY <2>1, <2>2, <2>3, <2>4 DEF OnceInv
<1>5. ASSUME NEW w \in Workers, NEW m \in Results,
             WriteChat(w, m) \/ ReadBack(w, m) \/ AppendRaises(w, m)
      PROVE  OnceInv'
  <2>1. /\ UNCHANGED <<mem, pre, base, phase>> /\ phase[w][m] = "writing"
        /\ chat' = chat \/ (step[w] = "write" /\ chat' = With(base[w], m))
    BY <1>5 DEF WriteChat, ReadBack, AppendRaises
  <2>2. \A v \in Workers : step'[v] = "write" => v # w /\ step[v] = "write"
    BY <1>5 DEF WriteChat, ReadBack, AppendRaises, TypeOK
  <2>3. Single(chat')
    <3>1. base[w] \in Checkpoint
      BY DEF TypeOK
    <3> QED BY <2>1, <3>1 DEF OnceInv
  <2> QED BY <2>1, <2>2, <2>3 DEF OnceInv
<1>6. ASSUME NEW w \in Workers, NEW m \in Results,
             Mark(w, m) \/ ScheduleRetry(w, m) \/ GiveUp(w, m)
      PROVE  OnceInv'
  <2>1. /\ UNCHANGED <<chat, mem, pre>> /\ \E p \in {"off", "later"} : Unlock(w, m, p)
    BY <1>6 DEF Mark, ScheduleRetry, GiveUp
  <2>2. /\ \A v \in Workers : base'[v] \in {base[v], NoChat} /\ (v # w => base'[v] = base[v])
        /\ \A v \in Workers : step'[v] = "write" => v # w /\ step[v] = "write"
    BY <2>1 DEF Unlock, TypeOK
  <2>3. \A v \in Workers, n \in Results : v # w => phase'[v][n] = phase[v][n]
    BY <2>1 DEF Unlock, TypeOK
  <2> QED BY <1>1, <2>1, <2>2, <2>3
<1>7. ASSUME NEW r \in Runs,
             \/ Launch(r) \/ Begin(r) \/ Snapshot(r) \/ Load(r) \/ Save(r) \/ Finish(r) \/ Stop(r)
             \/ Undo(r) \/ TaskDone(r) \/ GoStale(r)
             \/ \E how \in Strategies : Create(r, how) \/ Cancel(r, how)
      PROVE  OnceInv'
  <2>1. /\ UNCHANGED <<phase, step, base>>
        /\ chat' \in {chat, mem[r], pre[r]}
        /\ \A q \in Runs : /\ mem'[q] \in {mem[q], NoChat, [chat EXCEPT !.there = TRUE]}
                           /\ pre'[q] \in {pre[q], NoChat, chat}
    BY <1>7
    DEF Launch, Begin, Snapshot, Load, Save, Finish, Stop, Undo, TaskDone, GoStale, Create, Cancel,
        TypeOK
  <2> QED BY <1>1, <2>1
<1>8. ASSUME NEW r \in Runs, FinalDrain(r) \/ DoneDrain(r) PROVE OnceInv'
  <2> DEFINE w == HomeOf[r]
  <2>1. w \in Workers /\ UNCHANGED <<chat, mem, pre, base>> /\ LockFree(w) /\ Drain(w, r)
    BY <1>8, ConstantsAssumption DEF FinalDrain, DoneDrain
  <2>2. \A v \in Workers : v # w => step'[v] = step[v] /\ phase'[v] = phase[v]
    BY <2>1 DEF Drain, TypeOK
  <2>3. step'[w] # "write"
    BY <2>1, LockFacts DEF Drain, TypeOK
  <2> QED BY <1>1, <2>1, <2>2, <2>3
<1>9. ASSUME NEW w \in Workers, Crash(w) \/ Restart(w) PROVE OnceInv'
  <2>1. /\ chat' = chat
        /\ \A q \in Runs : mem'[q] \in {mem[q], NoChat} /\ pre'[q] \in {pre[q], NoChat}
        /\ \A v \in Workers : base'[v] \in {base[v], NoChat}
    BY <1>9 DEF Crash, Restart, TypeOK
  <2>2. step'[w] = "idle"
    BY <1>9 DEF Crash, Restart, TypeOK, HolderInv
  <2>3. \A v \in Workers : v # w => step'[v] = step[v] /\ phase'[v] = phase[v] /\ base'[v] = base[v]
    BY <1>9 DEF Crash, Restart, TypeOK
  <2> QED BY <1>1, <2>1, <2>2, <2>3
<1>10. CASE Delete \/ UNCHANGED vars
  BY <1>1, <1>10 DEF Delete, vars
<1> QED
  BY <1>2, <1>3, <1>4, <1>5, <1>6, <1>7, <1>8, <1>9, <1>10 DEF Next, PostStep, RunEnds

\* A result is never in the chat twice, however often its post is retried, whatever
\* runs write the chat in between, and however often its worker restarts
\* (_append_to_checkpoint): for any number of results, runs and workers.
THEOREM Once == Spec => []PostedOnce
<1>1. Init => OnlyOnceInv
  BY TypeInit, SingleCopies DEF Init, OnlyOnceInv, HolderInv, OnceInv
<1>2. OnlyOnceInv /\ [Next]_vars => OnlyOnceInv'
  BY TypeStep, HolderStep, OnceStep DEF OnlyOnceInv
<1>3. OnlyOnceInv => PostedOnce
  BY DEF OnlyOnceInv, OnceInv, Single, PostedOnce
<1> QED BY <1>1, <1>2, <1>3, PTL DEF Spec

=============================================================================
