----------------------------- MODULE MCPartsLive -----------------------------
\* Parts of the gateway that share no state, each on a small instance, in one run: every
\* behaviour is one of ContinueLock, SubagentTasks, StreamBridge, MemoryQueue or
\* HistoryThreads, under the fairness of that part; the others stay as they start.
EXTENDS ContinueLock, SubagentTasks, StreamBridge, MemoryQueue, HistoryThreads

VARIABLE part
Parts == {"continue", "subagents", "stream", "memory", "chats"}

PartsInit == part \in Parts /\ ContInit /\ TaskInit /\ StreamInit /\ MemoryInit /\ HistoryInit

PartsNext ==
  /\ UNCHANGED part
  /\ \/ part = "continue" /\ ContNext /\ UNCHANGED <<taskVars, streamVars, memoryVars, historyVars>>
     \/ part = "subagents" /\ TaskNext /\ UNCHANGED <<contVars, streamVars, memoryVars, historyVars>>
     \/ part = "stream" /\ StreamNext /\ UNCHANGED <<contVars, taskVars, memoryVars, historyVars>>
     \/ part = "memory" /\ MemoryNext /\ UNCHANGED <<contVars, taskVars, streamVars, historyVars>>
     \/ part = "chats" /\ HistoryNext /\ UNCHANGED <<contVars, taskVars, streamVars, memoryVars>>

\* The fairness of each part, where that part moves.
PartsFairness ==
  /\ \A p \in Presses : WF_contVars(part = "continue" /\ PressStep(p))
  /\ \A g \in Gateways : WF_contVars(part = "continue" /\ Boot(g)) /\ WF_contVars(part = "continue" /\ ScanStep(g))
  /\ \A d \in Delegations : WF_taskVars(part = "subagents" /\ ThreadStep(d))
  /\ WF_streamVars(part = "stream" /\ PublishEnd)
  /\ \A r \in Readers : WF_streamVars(part = "stream" /\ (ReadEvent(r) \/ ReadEnd(r)))
  /\ WF_memoryVars(part = "memory" /\ TimerFires) /\ WF_memoryVars(part = "memory" /\ ProcessQueue)
  /\ WF_memoryVars(part = "memory" /\ UpdateMemory) /\ WF_memoryVars(part = "memory" /\ EndBatch)
  /\ WF_historyVars(part = "chats" /\ JobStep) /\ WF_historyVars(part = "chats" /\ Sweep)
  /\ WF_historyVars(part = "chats" /\ Purge)
  /\ \A t \in Threads : WF_historyVars(part = "chats" /\ TalkEnds(t))

PartsSpec ==
  PartsInit /\ [][PartsNext]_<<contVars, taskVars, streamVars, memoryVars, historyVars, part>> /\ PartsFairness

\* Every part's state has its type.
PartsTypeOK == ContTypeOK /\ TaskTypeOK /\ StreamTypeOK /\ MemoryTypeOK /\ HistoryTypeOK

=============================================================================
