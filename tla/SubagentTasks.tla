------------------------------ MODULE SubagentTasks ------------------------------
(***************************************************************************)
(* Delegations that run in the background (subagents/executor.py) and the  *)
(* `task` tool that waits for them (tools/builtins/task_tool.py).          *)
(*                                                                         *)
(* Three parties share one result: the tool, which polls a registry and    *)
(* may be cancelled or give up; a thread of the small scheduler pool,      *)
(* which waits for the subagent with a timeout; and the subagent itself,   *)
(* on the isolated loop, which looks for a cancellation at each boundary   *)
(* of its stream.                                                          *)
(***************************************************************************)
EXTENDS Naturals, FiniteSets

CONSTANTS Delegations,
          CallIds,     \* tool-call ids, which providers use again
          PoolThreads, \* max_workers of _scheduler_pool
          MaxPolls,    \* max_poll_count
          MaxWork,     \* bound: steps of one subagent after it was told to stop
          NoOne

ASSUME TaskAssumption == MaxPolls \in Nat /\ MaxWork \in Nat /\ NoOne \notin Delegations

VARIABLES
  callId,   \* the tool call of each delegation
  registry, \* _background_tasks
  status,   \* the results: status, and whether completed_at is set
  event,    \* cancel_event
  thread,   \* the scheduler's part of each delegation
  agent,    \* the subagent's part
  late,     \* history: steps it took after its cancel_event was set
  tool,     \* the `task` tool's part
  polls,
  told      \* what the tool said, and of whose result

taskVars == <<callId, registry, status, event, thread, agent, late, tool, polls, told>>

Terminal == {"completed", "failed", "cancelled", "timed_out"}

\* Mutant: the registry is keyed by the tool call.
KeyByCall(d) == callId[d]

\* The registry's key has a random suffix.
Key(d) == d

TaskInit ==
  /\ callId \in [Delegations -> CallIds]
  /\ registry = [k \in Delegations \cup CallIds |-> NoOne]
  /\ status = [d \in Delegations |-> "none"] /\ event = [d \in Delegations |-> FALSE]
  /\ thread = [d \in Delegations |-> "none"] /\ agent = [d \in Delegations |-> "none"]
  /\ late = [d \in Delegations |-> 0]
  /\ tool = [d \in Delegations |-> "idle"] /\ polls = [d \in Delegations |-> 0]
  /\ told = [d \in Delegations |-> [what |-> "nothing", whose |-> NoOne]]

\* The result a delegation's parties find in the registry.
Found(d) == registry[Key(d)]
SetStatus(r, s) == status' = [status EXCEPT ![r] = s]
WhileRunning(r, s) == SetStatus(r, IF status[r] = "running" THEN s ELSE status[r])

----------------------------------------------------------------------------
\* execute_async: registered and handed to the pool; the tool starts polling.
Delegate(d) ==
  /\ tool[d] = "idle" /\ tool' = [tool EXCEPT ![d] = "polling"]
  /\ registry' = [registry EXCEPT ![Key(d)] = d]
  /\ SetStatus(d, "pending")
  /\ thread' = [thread EXCEPT ![d] = "queued"]
  /\ UNCHANGED <<callId, event, agent, late, polls, told>>

Taken == {d \in Delegations : thread[d] = "waiting"}

\* A pool thread takes it up and submits the subagent to the loop, which may not start.
PickUp(d) == \E loop \in BOOLEAN :
  /\ thread[d] = "queued" /\ Cardinality(Taken) < PoolThreads /\ Found(d) # NoOne
  /\ SetStatus(Found(d), IF loop THEN "running" ELSE "failed")
  /\ thread' = [thread EXCEPT ![d] = IF loop THEN "waiting" ELSE "done"]
  /\ agent' = [agent EXCEPT ![d] = IF loop THEN "submitted" ELSE "ended"]
  /\ UNCHANGED <<callId, registry, event, late, tool, polls, told>>

\* The subagent has ended: its thread copies the result onto itself, or finds the entry gone.
ThreadReturns(d) ==
  /\ thread[d] = "waiting" /\ agent[d] = "ended"
  /\ thread' = [thread EXCEPT ![d] = "done"]
  /\ UNCHANGED <<callId, registry, status, event, agent, late, tool, polls, told>>

\* Mutant: the thread waits for a subagent that was told to stop.
WaitOn(d) == event[d] = FALSE

\* The thread waits for timeout_seconds, whatever the subagent does.
WaitIsUp(d) == TRUE

\* Timed out: the subagent is told to stop and its future is cancelled.  When the entry is
\* gone meanwhile, the thread ends before either.
ThreadTimesOut(d) ==
  /\ thread[d] = "waiting" /\ agent[d] # "ended" /\ WaitIsUp(d)
  /\ thread' = [thread EXCEPT ![d] = "done"]
  /\ IF Found(d) = NoOne THEN UNCHANGED <<status, event, agent>>
     ELSE /\ WhileRunning(Found(d), "timed_out")
          /\ event' = [event EXCEPT ![Found(d)] = TRUE]
          /\ agent' = [agent EXCEPT ![d] = IF @ = "closing" THEN "ended" ELSE "killed"]
  /\ UNCHANGED <<callId, registry, late, tool, polls, told>>

----------------------------------------------------------------------------
(* The subagent: it writes into its own result. *)

AgentStarts(d) ==
  /\ agent[d] = "submitted"
  /\ IF event[d] THEN agent' = [agent EXCEPT ![d] = "closing"] /\ WhileRunning(d, "cancelled")
     ELSE agent' = [agent EXCEPT ![d] = "streaming"] /\ UNCHANGED status
  /\ UNCHANGED <<callId, registry, event, thread, late, tool, polls, told>>

\* Mutant: the boundary is not looked at.
BoundaryPassed(d) == agent' = agent /\ UNCHANGED status

\* A boundary of the stream: a subagent that was cancelled stops there.
Boundary(d) ==
  IF event[d] THEN agent' = [agent EXCEPT ![d] = "closing"] /\ WhileRunning(d, "cancelled")
  ELSE agent' = agent /\ UNCHANGED status

AgentWorks(d) ==
  /\ agent[d] = "streaming" /\ late[d] < MaxWork
  /\ late' = [late EXCEPT ![d] = IF event[d] THEN @ + 1 ELSE @]
  /\ Boundary(d)
  /\ UNCHANGED <<callId, registry, event, thread, tool, polls, told>>

\* The stream's end, or an error, is written whatever the status is by now.
AgentFinishes(d) == \E s \in {"completed", "failed"} :
  /\ agent[d] \in {"submitted", "streaming"} /\ (agent[d] = "submitted" => s = "failed")
  /\ agent' = [agent EXCEPT ![d] = "closing"]
  /\ SetStatus(d, s)
  /\ UNCHANGED <<callId, registry, event, thread, late, tool, polls, told>>

\* The cancelled future reaches it at its next await; it may come too late.
AgentKilled(d) ==
  /\ agent[d] = "killed"
  /\ \/ agent' = [agent EXCEPT ![d] = "ended"] /\ UNCHANGED status
     \/ agent' = [agent EXCEPT ![d] = "ended"] /\ \E s \in {"completed", "failed"} : SetStatus(d, s)
  /\ UNCHANGED <<callId, registry, event, thread, late, tool, polls, told>>

\* Its connections are closed before it returns to its thread.
AgentCloses(d) ==
  /\ agent[d] = "closing" /\ agent' = [agent EXCEPT ![d] = "ended"]
  /\ UNCHANGED <<callId, registry, status, event, thread, late, tool, polls, told>>

----------------------------------------------------------------------------
(* The tool. *)

\* cleanup_background_task: only a result that has ended is removed.
Cleaned(d) == registry' = [registry EXCEPT ![Key(d)] = IF @ # NoOne /\ status[@] \in Terminal THEN NoOne ELSE @]

Says(d, what, whose) == told' = [told EXCEPT ![d] = [what |-> what, whose |-> whose]]

PollEnded(d) ==
  /\ tool[d] = "polling" /\ (Found(d) = NoOne \/ status[Found(d)] \in Terminal)
  /\ tool' = [tool EXCEPT ![d] = "answered"]
  /\ Says(d, IF Found(d) = NoOne THEN "disappeared" ELSE status[Found(d)], Found(d))
  /\ Cleaned(d)
  /\ UNCHANGED <<callId, status, event, thread, agent, late, polls>>

\* Mutant: one poll more.
OnePollMore(d) == polls[d] <= MaxPolls

PollsLeft(d) == polls[d] < MaxPolls

\* Still running; after the last poll the tool gives up, and leaves the delegation as it is.
PollAgain(d) ==
  /\ tool[d] = "polling" /\ Found(d) # NoOne /\ status[Found(d)] \notin Terminal
  /\ IF PollsLeft(d) THEN polls' = [polls EXCEPT ![d] = @ + 1] /\ UNCHANGED <<tool, told>>
     ELSE /\ tool' = [tool EXCEPT ![d] = "gave up"]
          /\ Says(d, "polling timed out", Found(d)) /\ UNCHANGED polls
  /\ UNCHANGED <<callId, registry, status, event, thread, agent, late>>

\* The lead's run is cancelled: the subagent is told to stop, and a task of the tool's stays
\* to clean up after it.
ToolCancelled(d) ==
  /\ tool[d] = "polling" /\ tool' = [tool EXCEPT ![d] = "cleaning"]
  /\ event' = IF Found(d) # NoOne THEN [event EXCEPT ![Found(d)] = TRUE] ELSE event
  /\ polls' = [polls EXCEPT ![d] = 0]
  /\ UNCHANGED <<callId, registry, status, thread, agent, late, told>>

CleanUp(d) ==
  /\ tool[d] = "cleaning"
  /\ IF Found(d) = NoOne \/ status[Found(d)] \in Terminal
     THEN tool' = [tool EXCEPT ![d] = "cleaned"] /\ Cleaned(d) /\ UNCHANGED polls
     ELSE /\ UNCHANGED registry
          /\ IF PollsLeft(d) THEN polls' = [polls EXCEPT ![d] = @ + 1] /\ UNCHANGED tool
             ELSE tool' = [tool EXCEPT ![d] = "gave up"] /\ UNCHANGED polls
  /\ UNCHANGED <<callId, status, event, thread, agent, late, told>>

ThreadStep(d) == PickUp(d) \/ ThreadReturns(d) \/ ThreadTimesOut(d)

TaskNext == \E d \in Delegations :
  \/ Delegate(d) \/ ThreadStep(d)
  \/ AgentStarts(d) \/ AgentWorks(d) \/ AgentFinishes(d) \/ AgentKilled(d) \/ AgentCloses(d)
  \/ PollEnded(d) \/ PollAgain(d) \/ ToolCancelled(d) \/ CleanUp(d)

TaskSpec == TaskInit /\ [][TaskNext]_taskVars

\* Pool threads get on, and their wait has an end; a subagent need not.
TaskFairness == \A d \in Delegations : WF_taskVars(ThreadStep(d))

----------------------------------------------------------------------------
TaskTypeOK ==
  /\ callId \in [Delegations -> CallIds]
  /\ registry \in [Delegations \cup CallIds -> Delegations \cup {NoOne}]
  /\ status \in [Delegations -> {"none", "pending", "running"} \cup Terminal]
  /\ event \in [Delegations -> BOOLEAN]
  /\ thread \in [Delegations -> {"none", "queued", "waiting", "done"}]
  /\ agent \in [Delegations -> {"none", "submitted", "streaming", "closing", "killed", "ended"}]
  /\ late \in [Delegations -> 0 .. MaxWork]
  /\ tool \in [Delegations -> {"idle", "polling", "answered", "gave up", "cleaning", "cleaned"}]
  /\ polls \in [Delegations -> 0 .. MaxPolls]
  /\ told \in [Delegations -> [what : {"nothing", "disappeared", "polling timed out"} \cup Terminal,
                               whose : Delegations \cup {NoOne}]]

\* A delegation's answer is its own result, also when two run under one tool-call id
\* (task_tool.py: "two delegations must never share an entry").
OwnResult ==
  \A d \in Delegations : told[d].what # "nothing" => told[d].whose = d

\* A subagent that was told to stop ends at the next boundary, whoever told it, and also when
\* it had not started (executor.py, request_cancel_background_task).
StopsSoon == \A d \in Delegations : late[d] <= 1

\* A delegation that waits for a pool thread gets one, though others before it hang.
QueueDrains == \A d \in Delegations : thread[d] = "queued" ~> thread[d] = "done"

(* What they rest on: a delegation's entry is its own, and is there for as long as its tool asks *)
(* for it; and a subagent that took a step after it was told to stop is past its stream.         *)

EntryInv == \A d \in Delegations :
  /\ registry[d] \in {d, NoOne}
  /\ tool[d] = "polling" => registry[d] = d
  /\ told[d].what # "nothing" => told[d].whose = d

LateInv == \A d \in Delegations :
  /\ tool[d] = "idle" => thread[d] = "none"
  /\ thread[d] \in {"none", "queued"} => agent[d] = "none"
  /\ agent[d] \in {"none", "submitted", "streaming"} => late[d] = 0
  /\ late[d] <= 1

TaskInv == TaskTypeOK /\ EntryInv /\ LateInv

=============================================================================
