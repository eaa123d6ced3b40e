------------------------- MODULE PartsLive_proofs -------------------------
(***************************************************************************)
(* Theorems about what a run leaves behind, and about MCPartsLive.         *)
(*                                                                         *)
(* StreamBridge: the events its readers are sent.  SubagentTasks: the      *)
(* delegations that run beside it.  MemoryQueue: the conversations handed  *)
(* to the memory.  MCPartsLive: its behaviours are those of its parts, so  *)
(* what is proved of each part holds of the composition.                   *)
(***************************************************************************)
EXTENDS MCPartsLive, ContinueLock_proofs, HistoryThreads_proofs


(***************************************************************************)
(* StreamBridge                                                            *)
(***************************************************************************)

USE DEF Streams

\* Where a stream begins, how long it is, and where a reader resumes in it.
LEMMA Offsets ==
  ASSUME StreamTypeOK, NEW s \in Streams \cup {"none"}
  PROVE  /\ Had(s) \in 0 .. MaxEvents /\ StartOffset(s) \in 0 .. MaxEvents /\ StartOffset(s) <= Had(s)
         /\ \A n \in 0 .. MaxEvents : CaughtUp(s, n) \in 0 .. MaxEvents /\ ResumeAt(s, n) \in 0 .. MaxEvents
BY StreamBounds DEF StreamTypeOK, Had, StartOffset, CaughtUp, ResumeAt

\* A reader's record after it joins, reads, sees the end or leaves.
LEMMA JoinType ==
  ASSUME StreamTypeOK, NEW r \in Readers, Join(r)
  PROVE  LET s == registered'
         IN  /\ StreamTypeOK' /\ s \in Streams
             /\ reader'[r].at = "on" /\ reader'[r].of = s /\ reader'[r].next = ResumeAt(s, lastSeen[r])
             /\ \A q \in Readers \ {r} : reader'[q] = reader[q]
             /\ UNCHANGED <<published, ended, seen, lastSeen>>
<1>1. registered' \in Streams /\ lastSeen[r] \in 0 .. MaxEvents /\ reader[r].joins + 1 \in 0 .. MaxJoins
  BY StreamBounds DEF Join, StreamTypeOK
<1>2. ResumeAt(registered', lastSeen[r]) \in 0 .. MaxEvents
  BY <1>1, Offsets
<1>3. reader' = [reader EXCEPT ![r] = [at |-> "on", of |-> registered', next |-> ResumeAt(registered', lastSeen[r]),
                                      joins |-> reader[r].joins + 1]]
  BY DEF Join
<1>4. [at |-> "on", of |-> registered', next |-> ResumeAt(registered', lastSeen[r]), joins |-> reader[r].joins + 1]
        \in [at : {"off", "on", "ended"}, of : Streams \cup {"none"}, next : 0 .. MaxEvents, joins : 0 .. MaxJoins]
  BY <1>1, <1>2
<1> QED BY <1>1, <1>3, <1>4 DEF Join, StreamTypeOK

LEMMA ReadType ==
  ASSUME StreamTypeOK, NEW r \in Readers, ReadEvent(r)
  PROVE  LET n == CaughtUp(reader[r].of, reader[r].next)
         IN  /\ StreamTypeOK' /\ reader[r].of = "run" /\ n \in 0 .. MaxEvents - 1 /\ n < published
             /\ reader'[r].at = "on" /\ reader'[r].of = "run" /\ reader'[r].next = n + 1
             /\ seen'[r] = seen[r] \cup {n} /\ lastSeen'[r] = n + 1
             /\ \A q \in Readers \ {r} : reader'[q] = reader[q] /\ seen'[q] = seen[q] /\ lastSeen'[q] = lastSeen[q]
             /\ UNCHANGED <<published, ended>>
<1> DEFINE n == CaughtUp(reader[r].of, reader[r].next)
<1>1. reader[r].of \in Streams \cup {"none"} /\ reader[r].next \in 0 .. MaxEvents
  BY DEF StreamTypeOK
<1>2. n \in 0 .. MaxEvents /\ n < Had(reader[r].of)
  BY <1>1, Offsets DEF ReadEvent, HeldStream
<1>3. reader[r].of = "run" /\ n < published /\ n \in 0 .. MaxEvents - 1
  BY <1>1, <1>2, StreamBounds DEF Had, StreamTypeOK
<1> HIDE DEF n
<1>4. /\ reader' = [reader EXCEPT ![r].next = n + 1] /\ reader[r].at = "on"
      /\ seen' = [seen EXCEPT ![r] = seen[r] \cup {n}] /\ lastSeen' = [lastSeen EXCEPT ![r] = n + 1]
      /\ UNCHANGED <<registered, published, ended>>
  BY DEF ReadEvent, HeldStream, n
<1>5. n + 1 \in 0 .. MaxEvents
  BY <1>3, StreamBounds
<1>6. StreamTypeOK' /\ reader'[r].at = "on" /\ reader'[r].of = "run" /\ reader'[r].next = n + 1
  BY <1>3, <1>4, <1>5 DEF StreamTypeOK
<1>7. \A q \in Readers \ {r} : reader'[q] = reader[q] /\ seen'[q] = seen[q] /\ lastSeen'[q] = lastSeen[q]
  BY <1>4 DEF StreamTypeOK
<1>8. seen'[r] = seen[r] \cup {n} /\ lastSeen'[r] = n + 1
  BY <1>4 DEF StreamTypeOK
<1> QED BY <1>3, <1>4, <1>6, <1>7, <1>8 DEF n

\* A reader that ends or leaves is where it was.
LEMMA StopType ==
  ASSUME StreamTypeOK, NEW r \in Readers, ReadEnd(r) \/ Leave(r)
  PROVE  /\ StreamTypeOK' /\ reader[r].at = "on"
         /\ reader'[r].at = (IF ReadEnd(r) THEN "ended" ELSE "off")
         /\ reader'[r].of = reader[r].of /\ reader'[r].next = reader[r].next
         /\ \A q \in Readers \ {r} : reader'[q] = reader[q]
         /\ UNCHANGED <<published, ended, seen, lastSeen>>
<1>1. CASE ReadEnd(r)
  BY <1>1 DEF ReadEnd, StreamTypeOK
<1>2. CASE Leave(r) /\ ~ReadEnd(r)
  BY <1>2 DEF Leave, StreamTypeOK
<1> QED BY <1>1, <1>2

\* What was sent stays sent, and what has left the buffer does not come back.
LEMMA SentStays ==
  ASSUME StreamTypeOK, NEW r \in Readers, NEW n \in Nat, Sent(r, n),
         seen[r] \subseteq seen'[r], published' \in Nat, published <= published'
  PROVE  Sent(r, n)'
BY StreamBounds DEF Sent, StartOffset, Had, StreamTypeOK

\* The invariant in terms of one reader.
Reads(r) ==
  /\ \A n \in 0 .. MaxEvents - 1 : n < lastSeen[r] => Sent(r, n)
  /\ reader[r].at = "ended" => ended
  /\ reader[r].at # "off" /\ reader[r].of = "run" =>
       \A n \in 0 .. MaxEvents - 1 :
         n < (IF reader[r].at = "ended" THEN published ELSE reader[r].next) => Sent(r, n)

LEMMA PerReader ==
  /\ StreamInv => StreamTypeOK /\ \A r \in Readers : Reads(r)
  /\ StreamTypeOK' /\ (\A r \in Readers : Reads(r)') => StreamInv'
BY DEF StreamInv, ResumeInv, NothingSkipped, Reads, Sent

\* A reader whose own record did not change is no worse off for what others do.
LEMMA Untouched ==
  ASSUME StreamTypeOK, NEW r \in Readers, Reads(r), reader'[r] = reader[r], seen'[r] = seen[r],
         lastSeen'[r] = lastSeen[r], ended => ended', published' \in Nat, published <= published',
         ended => published' = published
  PROVE  Reads(r)'
<1>1. \A n \in 0 .. MaxEvents - 1 : Sent(r, n) => Sent(r, n)'
  BY SentStays, StreamBounds
<1> QED BY <1>1 DEF Reads

\* Every step preserves it.
LEMMA StreamStep == StreamInv /\ [StreamNext]_streamVars => StreamInv'
<1> SUFFICES ASSUME StreamInv, [StreamNext]_streamVars PROVE StreamInv'
  OBVIOUS
<1>0. StreamTypeOK /\ (\A r \in Readers : Reads(r)) /\ published \in Nat
  BY PerReader, StreamBounds DEF StreamTypeOK
<1>1. CASE Publish
  <2>1. /\ StreamTypeOK' /\ published' \in Nat /\ published <= published' /\ ~ended
        /\ UNCHANGED <<ended, reader, seen, lastSeen>>
    BY <1>0, <1>1, StreamBounds DEF Publish, StreamTypeOK
  <2> QED BY <1>0, <2>1, Untouched, PerReader
<1>2. CASE PublishEnd
  <2>1. StreamTypeOK' /\ ended' /\ ~ended /\ UNCHANGED <<published, reader, seen, lastSeen>>
    BY <1>0, <1>2 DEF PublishEnd, StreamTypeOK
  <2> QED BY <1>0, <2>1, Untouched, PerReader
<1>3. CASE Cleanup
  <2>1. StreamTypeOK' /\ UNCHANGED <<published, ended, reader, seen, lastSeen>>
    BY <1>0, <1>3 DEF Cleanup, StreamTypeOK
  <2> QED BY <1>0, <2>1, Untouched, PerReader
<1>4. ASSUME NEW r \in Readers, Join(r) PROVE StreamInv'
  <2>1. ASSUME NEW q \in Readers \ {r} PROVE Reads(q)'
    BY <1>0, <1>4, JoinType, Untouched
  <2>2. Reads(r)'
    <3>1. /\ reader'[r].at = "on" /\ reader'[r].of = registered'
          /\ reader'[r].next = ResumeAt(registered', lastSeen[r]) /\ UNCHANGED <<published, ended, seen, lastSeen>>
      BY <1>0, <1>4, JoinType
    <3>2. \A n \in 0 .. MaxEvents - 1 : Sent(r, n)' <=> Sent(r, n)
      BY <3>1 DEF Sent, StartOffset, Had
    <3>3. \A n \in 0 .. MaxEvents - 1 : n < ResumeAt("run", lastSeen[r]) => Sent(r, n)
      BY <1>0 DEF Reads, ResumeAt, Sent
    <3> QED BY <1>0, <3>1, <3>2, <3>3 DEF Reads
  <2> QED BY <1>0, <1>4, <2>1, <2>2, JoinType, PerReader
<1>5. ASSUME NEW r \in Readers, ReadEvent(r) PROVE StreamInv'
  <2>1. ASSUME NEW q \in Readers \ {r} PROVE Reads(q)'
    BY <1>0, <1>5, ReadType, Untouched
  <2>2. Reads(r)'
    <3> DEFINE n == CaughtUp("run", reader[r].next)
    <3>1. /\ reader[r].of = "run" /\ reader[r].at = "on" /\ n \in 0 .. MaxEvents - 1
          /\ reader'[r].at = "on" /\ reader'[r].next = n + 1 /\ lastSeen'[r] = n + 1
          /\ seen'[r] = seen[r] \cup {n} /\ UNCHANGED <<published, ended>>
      BY <1>0, <1>5, ReadType DEF ReadEvent
    <3>2. \A m \in 0 .. MaxEvents - 1 : m < n => Sent(r, m)
      <4>1. \A m \in 0 .. MaxEvents - 1 : m < reader[r].next => Sent(r, m)
        BY <1>0, <3>1 DEF Reads
      <4> QED BY <4>1 DEF CaughtUp, Sent
    <3> HIDE DEF n
    <3>3. \A m \in 0 .. MaxEvents - 1 : m < n + 1 => Sent(r, m)'
      BY <1>0, <3>1, <3>2, StreamBounds DEF Sent, StartOffset, Had
    <3> QED BY <3>1, <3>3 DEF Reads
  <2> QED BY <1>0, <1>5, <2>1, <2>2, ReadType, PerReader
<1>6. ASSUME NEW r \in Readers, ReadEnd(r) \/ Leave(r) PROVE StreamInv'
  <2>1. ASSUME NEW q \in Readers \ {r} PROVE Reads(q)'
    BY <1>0, <1>6, StopType, Untouched
  <2>2. Reads(r)'
    <3>1. /\ reader[r].at = "on" /\ reader'[r].at = (IF ReadEnd(r) THEN "ended" ELSE "off")
          /\ reader'[r].of = reader[r].of /\ UNCHANGED <<published, ended, seen, lastSeen>>
      BY <1>0, <1>6, StopType
    <3>2. \A n \in 0 .. MaxEvents - 1 : Sent(r, n)' <=> Sent(r, n)
      BY <3>1 DEF Sent, StartOffset, Had
    <3>3. ReadEnd(r) => ended /\ \A n \in 0 .. MaxEvents - 1 : n < published => Sent(r, n)
      <4> SUFFICES ASSUME ReadEnd(r), NEW n \in 0 .. MaxEvents - 1, n < published PROVE ended /\ Sent(r, n)
        BY DEF ReadEnd, HeldStream, HasEnded
      <4>1. ended /\ reader[r].of = "run" /\ published <= CaughtUp("run", reader[r].next)
        BY <1>0 DEF ReadEnd, HeldStream, HasEnded, Had, CaughtUp, StartOffset
      <4>2. n < reader[r].next \/ n < StartOffset("run")
        <5>1. StartOffset("run") \in Nat /\ reader[r].next \in Nat
          BY <1>0, Offsets DEF StreamTypeOK
        <5> QED BY <1>0, <4>1, <5>1 DEF CaughtUp
      <4> QED BY <1>0, <3>1, <4>1, <4>2 DEF Reads, Sent
    <3> QED BY <1>0, <3>1, <3>2, <3>3 DEF Reads
  <2> QED BY <1>0, <1>6, <2>1, <2>2, StopType, PerReader
<1>7. CASE UNCHANGED streamVars
  <2>1. StreamTypeOK' /\ UNCHANGED <<published, ended, reader, seen, lastSeen>>
    BY <1>0, <1>7 DEF streamVars, StreamTypeOK
  <2> QED BY <1>0, <2>1, Untouched, PerReader
<1> QED BY <1>1, <1>2, <1>3, <1>4, <1>5, <1>6, <1>7 DEF StreamNext

LEMMA StreamInvariance == StreamSpec => []StreamInv
<1>1. StreamInit => StreamInv
  <2> SUFFICES ASSUME StreamInit PROVE StreamInv
    OBVIOUS
  <2>1. Off \in [at : {"off", "on", "ended"}, of : Streams \cup {"none"}, next : 0 .. MaxEvents, joins : 0 .. MaxJoins]
    BY StreamBounds DEF Off
  <2>2. StreamTypeOK
    <3>1. 0 \in 0 .. MaxEvents
      BY StreamBounds
    <3> QED BY <2>1, <3>1 DEF StreamInit, StreamTypeOK
  <2>3. ResumeInv /\ NothingSkipped
    BY DEF StreamInit, ResumeInv, NothingSkipped, Off
  <2> QED BY <2>2, <2>3 DEF StreamInv
<1> QED BY <1>1, StreamStep, PTL DEF StreamSpec

\* What a reader of a run was not sent had left the buffer: for any number of readers and events, any
\* size of the buffer, and readers that leave and come back with the last id they saw at any time
\* (memory.py, subscribe).
THEOREM NoneSkipped == StreamSpec => []NothingSkipped
<1>1. StreamInv => NothingSkipped
  BY DEF StreamInv
<1> QED BY <1>1, StreamInvariance, PTL

(***************************************************************************)
(* SubagentTasks                                                           *)
(***************************************************************************)

\* What a party of a delegation finds in the registry is its own entry, or none.
LEMMA OwnEntry ==
  ASSUME TaskInv, NEW d \in Delegations
  PROVE  Found(d) \in {d, NoOne} /\ (tool[d] = "polling" => Found(d) = d)
BY DEF TaskInv, EntryInv, Found, Key

LEMMA CleanedType ==
  ASSUME TaskTypeOK, NEW d \in Delegations, Cleaned(d)
  PROVE  /\ registry' \in [Delegations \cup CallIds -> Delegations \cup {NoOne}]
         /\ registry'[d] \in {registry[d], NoOne}
         /\ \A e \in Delegations \ {d} : registry'[e] = registry[e]
BY DEF Cleaned, Key, TaskTypeOK

Statuses == {"none", "pending", "running"} \cup Terminal

LEMMA StatusType ==
  ASSUME TaskTypeOK, NEW d \in Delegations, NEW s \in Statuses, SetStatus(d, s) \/ WhileRunning(d, s)
  PROVE  status' \in [Delegations -> Statuses]
BY DEF SetStatus, WhileRunning, TaskTypeOK, Statuses

\* What the tool says.
LEMMA SaysType ==
  ASSUME TaskTypeOK, NEW d \in Delegations, NEW what \in {"disappeared", "polling timed out"} \cup Statuses,
         NEW whose \in Delegations \cup {NoOne}, Says(d, what, whose),
         what \notin {"none", "pending", "running"}
  PROVE  /\ told' \in [Delegations -> [what : {"nothing", "disappeared", "polling timed out"} \cup Terminal,
                                      whose : Delegations \cup {NoOne}]]
         /\ told'[d].whose = whose /\ \A e \in Delegations \ {d} : told'[e] = told[e]
<1>1. [what |-> what, whose |-> whose]
        \in [what : {"nothing", "disappeared", "polling timed out"} \cup Terminal, whose : Delegations \cup {NoOne}]
  BY DEF Statuses
<1> QED BY <1>1 DEF Says, TaskTypeOK

\* The parties' state keeps its type.
LEMMA TaskTypeStep == TaskInv /\ [TaskNext]_taskVars => TaskTypeOK'
<1> SUFFICES ASSUME TaskInv, [TaskNext]_taskVars PROVE TaskTypeOK'
  OBVIOUS
<1> USE TaskAssumption DEF Terminal
<1>0. TaskTypeOK
  BY DEF TaskInv
<1>1. ASSUME NEW d \in Delegations, Delegate(d) PROVE TaskTypeOK'
  BY <1>0, <1>1 DEF Delegate, SetStatus, Key, TaskTypeOK
<1>2. ASSUME NEW d \in Delegations, PickUp(d) PROVE TaskTypeOK'
  <2>1. Found(d) = d
    BY <1>2, OwnEntry DEF PickUp
  <2> QED BY ZenonT(60), <1>0, <1>2, <2>1 DEF PickUp, SetStatus, TaskTypeOK
<1>3. ASSUME NEW d \in Delegations, ThreadReturns(d) PROVE TaskTypeOK'
  BY <1>0, <1>3 DEF ThreadReturns, TaskTypeOK
<1>4. ASSUME NEW d \in Delegations, ThreadTimesOut(d) PROVE TaskTypeOK'
  BY ZenonT(60), <1>0, <1>4, OwnEntry DEF ThreadTimesOut, WhileRunning, SetStatus, TaskTypeOK
<1>5. ASSUME NEW d \in Delegations, AgentStarts(d) PROVE TaskTypeOK'
  BY <1>0, <1>5 DEF AgentStarts, WhileRunning, SetStatus, TaskTypeOK
<1>6. ASSUME NEW d \in Delegations, AgentWorks(d) PROVE TaskTypeOK'
  <2>1. status' \in [Delegations -> Statuses] /\ agent' \in {agent, [agent EXCEPT ![d] = "closing"]}
    BY <1>0, <1>6, StatusType DEF AgentWorks, Boundary, Statuses, TaskTypeOK
  <2>2. late' \in [Delegations -> 0 .. MaxWork]
    <3>1. late \in [Delegations -> 0 .. MaxWork] /\ late[d] < MaxWork
          /\ late' = [late EXCEPT ![d] = IF event[d] THEN late[d] + 1 ELSE late[d]]
      BY <1>0, <1>6 DEF AgentWorks, TaskTypeOK
    <3>2. late[d] + 1 \in 0 .. MaxWork
      BY <3>1
    <3> QED BY <3>1, <3>2
  <2>3. UNCHANGED <<callId, registry, event, thread, tool, polls, told>>
    BY <1>6 DEF AgentWorks
  <2> QED BY <1>0, <2>1, <2>2, <2>3 DEF TaskTypeOK, Statuses
<1>7. ASSUME NEW d \in Delegations, AgentFinishes(d) \/ AgentKilled(d) \/ AgentCloses(d) PROVE TaskTypeOK'
  <2>1. status' \in [Delegations -> Statuses]
    BY <1>0, <1>7, StatusType DEF AgentFinishes, AgentKilled, AgentCloses, Statuses, TaskTypeOK
  <2>2. agent' \in {[agent EXCEPT ![d] = "closing"], [agent EXCEPT ![d] = "ended"]}
        /\ UNCHANGED <<callId, registry, event, thread, late, tool, polls, told>>
    BY <1>7 DEF AgentFinishes, AgentKilled, AgentCloses
  <2> QED BY <1>0, <2>1, <2>2 DEF TaskTypeOK, Statuses
<1>8. ASSUME NEW d \in Delegations, PollEnded(d) PROVE TaskTypeOK'
  <2>1. Found(d) = d /\ status[d] \in Terminal /\ Says(d, status[d], d)
    BY <1>8, OwnEntry DEF PollEnded
  <2> QED BY <1>0, <1>8, <2>1, CleanedType, SaysType DEF PollEnded, TaskTypeOK, Statuses
<1>9. ASSUME NEW d \in Delegations, PollAgain(d) PROVE TaskTypeOK'
  <2>1. polls' \in [Delegations -> 0 .. MaxPolls]
    <3>1. polls \in [Delegations -> 0 .. MaxPolls]
          /\ (polls' = polls \/ (polls[d] < MaxPolls /\ polls' = [polls EXCEPT ![d] = polls[d] + 1]))
      BY <1>0, <1>9 DEF PollAgain, PollsLeft, TaskTypeOK
    <3>2. polls[d] < MaxPolls => polls[d] + 1 \in 0 .. MaxPolls
      BY <3>1
    <3> QED BY <3>1, <3>2
  <2>2. /\ tool' \in {tool, [tool EXCEPT ![d] = "gave up"]}
        /\ UNCHANGED <<callId, registry, status, event, thread, agent, late>>
    BY <1>9 DEF PollAgain
  <2>3. told' = told \/ Says(d, "polling timed out", d)
    BY <1>9, OwnEntry DEF PollAgain
  <2> QED BY <1>0, <2>1, <2>2, <2>3, SaysType DEF TaskTypeOK, Statuses
<1>10. ASSUME NEW d \in Delegations, ToolCancelled(d) PROVE TaskTypeOK'
  <2>1. event' \in [Delegations -> BOOLEAN]
    BY <1>0, <1>10, OwnEntry DEF ToolCancelled, TaskTypeOK
  <2>2. polls' \in [Delegations -> 0 .. MaxPolls]
    <3>1. 0 \in 0 .. MaxPolls
      OBVIOUS
    <3> QED BY <1>0, <1>10, <3>1 DEF ToolCancelled, TaskTypeOK
  <2> QED BY <1>0, <1>10, <2>1, <2>2 DEF ToolCancelled, TaskTypeOK
<1>11. ASSUME NEW d \in Delegations, CleanUp(d) PROVE TaskTypeOK'
  <2>1. polls' \in [Delegations -> 0 .. MaxPolls]
    <3>1. polls \in [Delegations -> 0 .. MaxPolls]
          /\ (polls' = polls \/ (polls[d] < MaxPolls /\ polls' = [polls EXCEPT ![d] = polls[d] + 1]))
      BY <1>0, <1>11 DEF CleanUp, PollsLeft, TaskTypeOK
    <3>2. polls[d] < MaxPolls => polls[d] + 1 \in 0 .. MaxPolls
      BY <3>1
    <3> QED BY <3>1, <3>2
  <2>2. tool' \in {tool, [tool EXCEPT ![d] = "cleaned"], [tool EXCEPT ![d] = "gave up"]}
        /\ (registry' = registry \/ Cleaned(d)) /\ UNCHANGED <<callId, status, event, thread, agent, late, told>>
    BY <1>11 DEF CleanUp
  <2> QED BY <1>0, <2>1, <2>2, CleanedType DEF TaskTypeOK
<1>12. CASE UNCHANGED taskVars
  BY <1>0, <1>12 DEF taskVars, TaskTypeOK
<1> QED BY <1>1, <1>2, <1>3, <1>4, <1>5, <1>6, <1>7, <1>8, <1>9, <1>10, <1>11, <1>12 DEF TaskNext, ThreadStep

\* A delegation's entry is its own, and is there while its tool asks for it.
LEMMA EntryStep == TaskInv /\ [TaskNext]_taskVars => EntryInv'
<1> SUFFICES ASSUME TaskInv, [TaskNext]_taskVars PROVE EntryInv'
  OBVIOUS
<1>0. TaskTypeOK /\ EntryInv
  BY DEF TaskInv
<1>1. ASSUME NEW d \in Delegations, Delegate(d) PROVE EntryInv'
  BY <1>0, <1>1 DEF Delegate, Key, EntryInv, TaskTypeOK
<1>2. ASSUME NEW d \in Delegations, PollEnded(d) PROVE EntryInv'
  <2>1. Found(d) = d /\ tool[d] = "polling"
    BY <1>2, OwnEntry DEF PollEnded
  <2>2. told'[d].whose = d /\ \A e \in Delegations \ {d} : told'[e] = told[e]
    <3>1. status[d] \in Terminal /\ Says(d, status[d], d)
      BY <1>2, <2>1, TaskAssumption DEF PollEnded
    <3> QED BY <1>0, <3>1, SaysType DEF Statuses, Terminal
  <2>3. Cleaned(d) /\ tool' = [tool EXCEPT ![d] = "answered"]
    BY <1>2 DEF PollEnded
  <2>4. \A e \in Delegations : tool'[e] = "polling" => tool[e] = "polling" /\ e # d
    BY <1>0, <2>3 DEF TaskTypeOK
  <2> QED BY <1>0, <2>2, <2>3, <2>4, CleanedType DEF EntryInv
<1>3. ASSUME NEW d \in Delegations, PollAgain(d) PROVE EntryInv'
  <2>1. told' = told \/ Says(d, "polling timed out", d)
    BY <1>3, OwnEntry DEF PollAgain
  <2>2. tool' \in {tool, [tool EXCEPT ![d] = "gave up"]} /\ UNCHANGED registry
    BY <1>3 DEF PollAgain
  <2>3. \A e \in Delegations : told'[e] = told[e] \/ told'[e].whose = e
    BY <1>0, <2>1, SaysType
  <2> QED BY <1>0, <2>2, <2>3 DEF EntryInv, TaskTypeOK
<1>4. ASSUME NEW d \in Delegations, ToolCancelled(d) PROVE EntryInv'
  BY <1>0, <1>4 DEF ToolCancelled, EntryInv, TaskTypeOK
<1>5. ASSUME NEW d \in Delegations, CleanUp(d) PROVE EntryInv'
  <2>1. /\ tool' \in {[tool EXCEPT ![d] = "cleaned"], [tool EXCEPT ![d] = "gave up"], tool}
        /\ tool[d] = "cleaning" /\ UNCHANGED told /\ (UNCHANGED registry \/ Cleaned(d))
    BY <1>5 DEF CleanUp
  <2>2. \A e \in Delegations : tool'[e] = "polling" => tool[e] = "polling" /\ e # d
    BY <1>0, <2>1 DEF TaskTypeOK
  <2> QED BY ZenonT(60), <1>0, <2>1, <2>2, CleanedType DEF EntryInv
<1>6. ASSUME UNCHANGED <<registry, tool, told>> PROVE EntryInv'
  BY <1>0, <1>6 DEF EntryInv
<1> QED BY <1>1, <1>2, <1>3, <1>4, <1>5, <1>6 DEF TaskNext, ThreadStep, taskVars, PickUp, ThreadReturns, ThreadTimesOut,
     AgentStarts, AgentWorks, AgentFinishes, AgentKilled, AgentCloses

\* A subagent that was told to stop takes one step at most.
LEMMA LateStep == TaskInv /\ [TaskNext]_taskVars => LateInv'
<1> SUFFICES ASSUME TaskInv, [TaskNext]_taskVars PROVE LateInv'
  OBVIOUS
<1> USE DEF LateInv
<1>0. TaskTypeOK /\ LateInv
  BY DEF TaskInv
<1>1. ASSUME NEW d \in Delegations, Delegate(d) PROVE LateInv'
  BY <1>0, <1>1 DEF Delegate, TaskTypeOK
<1>2. ASSUME NEW d \in Delegations, PickUp(d) PROVE LateInv'
  BY <1>0, <1>2 DEF PickUp, TaskTypeOK
<1>3. ASSUME NEW d \in Delegations, ThreadReturns(d) PROVE LateInv'
  BY <1>0, <1>3 DEF ThreadReturns, TaskTypeOK
<1>4. ASSUME NEW d \in Delegations, ThreadTimesOut(d) PROVE LateInv'
  BY <1>0, <1>4 DEF ThreadTimesOut, TaskTypeOK
<1>5. ASSUME NEW d \in Delegations, AgentStarts(d) PROVE LateInv'
  BY <1>0, <1>5 DEF AgentStarts, TaskTypeOK
<1>6. ASSUME NEW d \in Delegations, AgentWorks(d) PROVE LateInv'
  <2>1. agent[d] = "streaming" /\ late[d] = 0 /\ UNCHANGED <<thread, tool>>
    BY <1>0, <1>6 DEF AgentWorks
  <2>2. /\ event[d] => agent'[d] = "closing" /\ late'[d] = 1
        /\ ~event[d] => agent' = agent /\ late'[d] = 0
        /\ \A e \in Delegations \ {d} : agent'[e] = agent[e] /\ late'[e] = late[e]
    <3>1. /\ late \in [Delegations -> 0 .. MaxWork]
          /\ agent \in [Delegations -> {"none", "submitted", "streaming", "closing", "killed", "ended"}]
      BY <1>0 DEF TaskTypeOK
    <3>2. late' = [late EXCEPT ![d] = IF event[d] THEN late[d] + 1 ELSE late[d]]
          /\ IF event[d] THEN agent' = [agent EXCEPT ![d] = "closing"] ELSE agent' = agent
      BY <1>6 DEF AgentWorks, Boundary
    <3> QED BY <2>1, <3>1, <3>2
  <2> QED BY <1>0, <2>1, <2>2
<1>7. ASSUME NEW d \in Delegations, AgentFinishes(d) \/ AgentKilled(d) \/ AgentCloses(d) PROVE LateInv'
  BY <1>0, <1>7 DEF AgentFinishes, AgentKilled, AgentCloses, TaskTypeOK
<1>8. ASSUME NEW d \in Delegations, PollEnded(d) \/ PollAgain(d) \/ ToolCancelled(d) \/ CleanUp(d) PROVE LateInv'
  <2>1. UNCHANGED <<thread, agent, late>> /\ tool[d] # "idle"
        /\ (tool' = tool \/ \E t \in {"answered", "gave up", "cleaning", "cleaned"} : tool' = [tool EXCEPT ![d] = t])
    BY <1>8 DEF PollEnded, PollAgain, ToolCancelled, CleanUp
  <2> QED BY <1>0, <2>1 DEF TaskTypeOK
<1>9. CASE UNCHANGED taskVars
  BY <1>0, <1>9 DEF taskVars
<1> QED BY <1>1, <1>2, <1>3, <1>4, <1>5, <1>6, <1>7, <1>8, <1>9 DEF TaskNext, ThreadStep

LEMMA TaskInvariance == TaskSpec => []TaskInv
<1>1. TaskInit => TaskInv
  BY TaskAssumption DEF TaskInit, TaskInv, TaskTypeOK, EntryInv, LateInv
<1>2. TaskInv /\ [TaskNext]_taskVars => TaskInv'
  BY TaskTypeStep, EntryStep, LateStep DEF TaskInv
<1> QED BY <1>1, <1>2, PTL DEF TaskSpec

\* A delegation's answer is its own result, also when any number of them run under one tool-call id
\* (task_tool.py: "two delegations must never share an entry").
THEOREM AnswersOwn == TaskSpec => []OwnResult
<1>1. TaskInv => OwnResult
  BY DEF TaskInv, EntryInv, OwnResult
<1> QED BY <1>1, TaskInvariance, PTL

\* A subagent that was told to stop ends at its next boundary, whoever told it and whenever
\* (executor.py, request_cancel_background_task).
THEOREM StopsInTime == TaskSpec => []StopsSoon
<1>1. TaskInv => StopsSoon
  BY DEF TaskInv, LateInv, StopsSoon
<1> QED BY <1>1, TaskInvariance, PTL

(***************************************************************************)
(* MemoryQueue                                                             *)
(***************************************************************************)

\* Without position i, every other context is left, in its order.
LEMMA ContextTakenOut ==
  ASSUME NEW s \in Seq(Context), NEW i \in DOMAIN s
  PROVE  LET t == RemoveAt(s, i)
         IN  /\ t \in Seq(Context) /\ Len(t) = Len(s) - 1
             /\ \A j \in DOMAIN t : t[j] = IF j < i THEN s[j] ELSE s[j + 1]
<1> DEFINE t     == RemoveAt(s, i)
           front == SubSeq(s, 1, i - 1)
           back  == SubSeq(s, i + 1, Len(s))
<1>1. front \in Seq(Context) /\ Len(front) = i - 1 /\ \A j \in 1 .. i - 1 : front[j] = s[j]
  OBVIOUS
<1>2. back \in Seq(Context) /\ Len(back) = Len(s) - i /\ \A j \in 1 .. Len(s) - i : back[j] = s[j + i]
  OBVIOUS
<1>3. t = front \o back
  BY DEF RemoveAt
<1> HIDE DEF front, back, t
<1>4. /\ t \in Seq(Context) /\ Len(t) = Len(s) - 1
      /\ \A j \in 1 .. Len(front) + Len(back) :
            t[j] = IF j <= Len(front) THEN front[j] ELSE back[j - Len(front)]
  <2>1. front \in Seq(Context) /\ back \in Seq(Context)
    BY <1>1, <1>2
  <2>2. \A j \in 1 .. Len(front) + Len(back) :
           (front \o back)[j] = IF j <= Len(front) THEN front[j] ELSE back[j - Len(front)]
    BY <2>1, ConcatProperties, Zenon
  <2>3. t \in Seq(Context) /\ Len(t) = Len(s) - 1
    BY <1>1, <1>2, <1>3
  <2> QED BY <1>3, <2>2, <2>3, Zenon
<1>5. ASSUME NEW j \in DOMAIN t PROVE t[j] = IF j < i THEN s[j] ELSE s[j + 1]
  <2>1. j \in 1 .. Len(front) + Len(back) /\ j \in Nat /\ i \in Nat
    BY <1>1, <1>2, <1>4
  <2>2. t[j] = IF j <= Len(front) THEN front[j] ELSE back[j - Len(front)]
    BY <1>4, <2>1
  <2>3. CASE j < i
    BY <1>1, <2>1, <2>2, <2>3
  <2>4. CASE ~ (j < i)
    <3>0. ~ (j <= Len(front)) /\ Len(front) = i - 1
      <4>1. Len(front) = i - 1
        BY <1>1, Zenon
      <4> QED BY <2>1, <2>4, <4>1
    <3>1. t[j] = back[j - (i - 1)]
      BY <2>2, <3>0, Zenon
    <3>2. back[j - (i - 1)] = s[j - (i - 1) + i]
      <4>1. Len(back) = Len(s) - i /\ \A k \in 1 .. Len(s) - i : back[k] = s[k + i]
        BY <1>2, Zenon
      <4>2. j - (i - 1) \in 1 .. Len(s) - i
        BY SMTT(30), <2>1, <2>4, <3>0, <4>1
      <4> QED BY <4>1, <4>2
    <3> QED BY <2>1, <2>4, <3>1, <3>2
  <2> QED BY <2>3, <2>4
<1> QED BY <1>4, <1>5 DEF t

\* What is queued without a chat's conversation is of the other chats, one of each, and all of theirs.
LEMMA OthersIs ==
  ASSUME MemoryTypeOK, OnePerTalk, NEW t \in Talks
  PROVE  /\ Others(t) \in Seq(Context)
         /\ \A i \in DOMAIN Others(t) : Others(t)[i].talk # t
         /\ \A i, j \in DOMAIN Others(t) : Others(t)[i].talk = Others(t)[j].talk => i = j
         /\ \A i \in DOMAIN waiting \ Older(t) : \E j \in DOMAIN Others(t) : Others(t)[j] = waiting[i]
<1>0. waiting \in Seq(Context)
  BY DEF MemoryTypeOK
<1>1. CASE Older(t) = {}
  BY <1>0, <1>1 DEF Others, Older, OnePerTalk
<1>2. CASE Older(t) # {}
  <2>1. PICK k \in Older(t) : Others(t) = RemoveAt(waiting, k)
    BY <1>2 DEF Others
  <2> DEFINE w == Others(t)
  <2>2. k \in DOMAIN waiting /\ k \in 1 .. Len(waiting) /\ waiting[k].talk = t
    BY <1>0, <2>1 DEF Older
  <2>3. /\ w \in Seq(Context) /\ Len(w) = Len(waiting) - 1
        /\ \A j \in DOMAIN w : w[j] = IF j < k THEN waiting[j] ELSE waiting[j + 1]
    BY <1>0, <2>1, <2>2, ContextTakenOut
  <2>4. DOMAIN w = 1 .. Len(waiting) - 1 /\ DOMAIN waiting = 1 .. Len(waiting) /\ Len(waiting) \in Nat
    BY <1>0, <2>3
  <2> HIDE DEF w
  <2> DEFINE from(j) == IF j < k THEN j ELSE j + 1
  <2>5. \A j \in DOMAIN w : from(j) \in DOMAIN waiting /\ from(j) # k /\ w[j] = waiting[from(j)]
    BY <2>2, <2>3, <2>4
  <2>6. ASSUME NEW j \in DOMAIN w PROVE w[j].talk # t
    BY <2>2, <2>5 DEF OnePerTalk
  <2>7. ASSUME NEW i \in DOMAIN w, NEW j \in DOMAIN w, w[i].talk = w[j].talk PROVE i = j
    <3>1. from(i) = from(j)
      BY <2>5, <2>7 DEF OnePerTalk
    <3> QED BY <2>2, <2>4, <3>1
  <2>8. ASSUME NEW i \in DOMAIN waiting \ Older(t) PROVE \E j \in DOMAIN w : w[j] = waiting[i]
    <3>1. i # k /\ i \in 1 .. Len(waiting)
      BY <2>1, <2>4
    <3>2. CASE i < k
      BY <2>2, <2>3, <2>4, <3>1, <3>2
    <3>3. CASE i > k
      <4>1. i - 1 \in DOMAIN w /\ ~ (i - 1 < k) /\ i - 1 + 1 = i
        BY <2>2, <2>4, <3>1, <3>3
      <4> QED BY <2>3, <4>1
    <3> QED BY <2>2, <3>1, <3>2, <3>3
  <2> QED BY <2>3, <2>6, <2>7, <2>8 DEF w
<1> QED BY <1>1, <1>2

\* A conversation that is handed over keeps one of each chat, and every signal that was queued.
LEMMA MergedIs ==
  ASSUME MemoryTypeOK, OnePerTalk, NEW t \in Talks, NEW corrected \in BOOLEAN
  PROVE  LET w == Merged(t, corrected)
         IN  /\ w \in Seq(Context)
             /\ \A i, j \in DOMAIN w : w[i].talk = w[j].talk => i = j
             /\ \A u \in Talks, c \in BOOLEAN : Holds(waiting, u, c) => Holds(w, u, c)
<1> DEFINE kept == \E i \in Older(t) : waiting[i].corrected
           last == [talk |-> t, corrected |-> corrected \/ kept]
           rest == Others(t)
           w    == Append(rest, last)
<1>1. w = Merged(t, corrected)
  BY DEF Merged
<1>2. last \in Context /\ last.talk = t /\ (kept => last.corrected)
  <2>1. (corrected \/ kept) \in BOOLEAN
    OBVIOUS
  <2> QED BY <2>1 DEF Context
<1>3. /\ rest \in Seq(Context)
      /\ \A i \in DOMAIN rest : rest[i].talk # t
      /\ \A i, j \in DOMAIN rest : rest[i].talk = rest[j].talk => i = j
      /\ \A i \in DOMAIN waiting \ Older(t) : \E j \in DOMAIN rest : rest[j] = waiting[i]
  BY OthersIs, Zenon
<1>4. waiting \in Seq(Context)
  BY DEF MemoryTypeOK
<1> HIDE DEF rest, last
<1>5. /\ w \in Seq(Context) /\ DOMAIN w = 1 .. Len(rest) + 1 /\ w[Len(rest) + 1] = last
      /\ DOMAIN rest = 1 .. Len(rest) /\ \A i \in DOMAIN rest : w[i] = rest[i]
      /\ Len(rest) \in Nat
  BY <1>2, <1>3
<1> HIDE DEF w
<1>6. ASSUME NEW i \in DOMAIN w, NEW j \in DOMAIN w, w[i].talk = w[j].talk PROVE i = j
  <2>1. (i \in DOMAIN rest \/ i = Len(rest) + 1) /\ (j \in DOMAIN rest \/ j = Len(rest) + 1)
    BY <1>5
  <2> QED BY <1>2, <1>3, <1>5, <1>6, <2>1
<1>7. ASSUME NEW u \in Talks, NEW c \in BOOLEAN, Holds(waiting, u, c) PROVE Holds(w, u, c)
  <2>1. PICK i \in DOMAIN waiting : waiting[i].talk = u /\ (c => waiting[i].corrected)
    BY <1>7 DEF Holds
  <2>2. CASE i \in Older(t)
    <3>1. u = t /\ (c => kept)
      BY <2>1, <2>2 DEF Older
    <3>2. Len(rest) + 1 \in DOMAIN w
      BY <1>5
    <3> QED BY <1>2, <1>5, <3>1, <3>2 DEF Holds
  <2>3. CASE i \notin Older(t)
    <3>1. PICK j \in DOMAIN rest : rest[j] = waiting[i]
      BY <1>3, <2>1, <2>3
    <3>2. j \in DOMAIN w /\ w[j] = waiting[i]
      BY <1>5, <3>1
    <3> QED BY <2>1, <3>2 DEF Holds
  <2> QED BY <2>2, <2>3
<1> QED BY <1>1, <1>5, <1>6, <1>7

\* One step: the queue has its type and its shape, and what leaves it goes into the batch.
LEMMA MemoryStep ==
  ASSUME MemoryInv, [MemoryNext]_memoryVars
  PROVE  /\ MemoryInv'
         /\ \A t \in Talks, c \in BOOLEAN :
               Holds(waiting, t, c) => Holds(waiting', t, c) \/ (processing' /\ Holds(batch', t, c))
<1> DEFINE NoneLost == \A t \in Talks, c \in BOOLEAN :
                      Holds(waiting, t, c) => Holds(waiting', t, c) \/ (processing' /\ Holds(batch', t, c))
<1>0. MemoryTypeOK /\ OnePerTalk /\ Tended /\ (batch # <<>> => processing)
  BY DEF MemoryInv
<1>1. ASSUME NEW t \in Talks, AddTalk(t) PROVE MemoryInv' /\ NoneLost
  <2>1. PICK corrected \in BOOLEAN : waiting' = Merged(t, corrected)
    BY <1>1 DEF AddTalk
  <2>2. /\ waiting' \in Seq(Context)
        /\ \A i, j \in DOMAIN waiting' : waiting'[i].talk = waiting'[j].talk => i = j
        /\ \A u \in Talks, c \in BOOLEAN : Holds(waiting, u, c) => Holds(waiting', u, c)
    BY <1>0, <2>1, MergedIs
  <2>3. timer' = TRUE /\ adds' = adds + 1 /\ adds < MaxAdds /\ UNCHANGED <<loose, fired, processing, batch>>
    BY <1>1 DEF AddTalk, Armed
  <2>4. MemoryTypeOK'
    <3>1. adds' \in 0 .. MaxAdds
      BY <1>0, <2>3, MemoryBounds DEF MemoryTypeOK
    <3> QED BY <1>0, <2>2, <2>3, <3>1 DEF MemoryTypeOK
  <2>5. OnePerTalk' /\ Tended'
    BY <2>2, <2>3 DEF OnePerTalk, Tended
  <2> QED BY <1>0, <2>2, <2>3, <2>4, <2>5 DEF MemoryInv
<1>2. CASE TimerFires
  <2>1. MemoryTypeOK' /\ fired' > 0
    <3>1. CASE timer /\ timer' = FALSE /\ UNCHANGED loose
      <4>1. fired' \in Nat /\ fired' > 0
        BY <1>0, <1>2 DEF TimerFires, MemoryTypeOK
      <4> QED BY <1>0, <1>2, <3>1, <4>1 DEF TimerFires, MemoryTypeOK
    <3>2. CASE loose > 0 /\ loose' = loose - 1 /\ UNCHANGED timer
      <4>1. loose' \in Nat /\ fired' \in Nat /\ fired' > 0
        BY <1>0, <1>2, <3>2 DEF TimerFires, MemoryTypeOK
      <4> QED BY <1>0, <1>2, <3>2, <4>1 DEF TimerFires, MemoryTypeOK
    <3> QED BY <1>2, <3>1, <3>2 DEF TimerFires
  <2>2. OnePerTalk' /\ UNCHANGED <<waiting, processing, batch>>
    BY <1>0, <1>2 DEF TimerFires, OnePerTalk
  <2>3. NoneLost
    BY <2>2, Zenon DEF Holds
  <2> QED BY <1>0, <2>1, <2>2, <2>3 DEF MemoryInv, Tended
<1>3. CASE ProcessQueue
  <2>1. fired > 0 /\ fired' = fired - 1 /\ adds' = adds
    BY <1>3 DEF ProcessQueue
  <2>2. CASE processing /\ Later /\ UNCHANGED <<waiting, processing, batch>>
    BY <1>0, <2>1, <2>2 DEF Later, Armed, MemoryInv, MemoryTypeOK, OnePerTalk, Tended, Holds
  <2>3. CASE ~processing /\ waiting = <<>> /\ UNCHANGED <<waiting, timer, loose, processing, batch>>
    BY <1>0, <2>1, <2>3 DEF MemoryInv, MemoryTypeOK, OnePerTalk, Tended, Holds
  <2>4. CASE /\ ~processing /\ processing' = TRUE /\ batch' = waiting /\ waiting' = <<>>
             /\ timer' = FALSE /\ loose' = IF timer THEN loose + 1 ELSE loose
    <3>1. fired' \in Nat /\ loose' \in Nat
      BY <1>0, <2>1, <2>4 DEF MemoryTypeOK
    <3>2. MemoryTypeOK'
      BY <1>0, <2>1, <2>4, <3>1 DEF MemoryTypeOK
    <3> QED BY <2>4, <3>2 DEF MemoryInv, OnePerTalk, Tended, Holds
  <2> QED BY <1>3, <2>2, <2>3, <2>4 DEF ProcessQueue
<1>4. CASE UpdateMemory
  BY <1>0, <1>4 DEF UpdateMemory, MemoryInv, MemoryTypeOK, OnePerTalk, Tended, Holds
<1>5. CASE EndBatch
  BY <1>0, <1>5 DEF EndBatch, MemoryInv, MemoryTypeOK, OnePerTalk, Tended, Holds
<1>6. CASE UNCHANGED memoryVars
  BY <1>0, <1>6 DEF memoryVars, MemoryInv, MemoryTypeOK, OnePerTalk, Tended, Holds
<1> QED BY <1>1, <1>2, <1>3, <1>4, <1>5, <1>6 DEF MemoryNext

LEMMA MemoryInvariance == MemorySpec => []MemoryInv
<1>1. MemoryInit => MemoryInv
  <2> SUFFICES ASSUME MemoryInit PROVE MemoryInv
    OBVIOUS
  <2>1. MemoryTypeOK
    <3>1. <<>> \in Seq(Context) /\ 0 \in 0 .. MaxAdds
      BY MemoryBounds
    <3> QED BY <3>1 DEF MemoryInit, MemoryTypeOK
  <2> QED BY <2>1 DEF MemoryInit, MemoryInv, OnePerTalk, Tended
<1>2. MemoryInv /\ [MemoryNext]_memoryVars => MemoryInv'
  BY MemoryStep
<1> QED BY <1>1, <1>2, PTL DEF MemorySpec

\* While a conversation is queued somebody will come for it: a timer waits, although nothing may be
\* able to cancel it, or a thread is on its way to the lock, whatever order conversations, timers
\* and batches come in (queue.py, _schedule_timer, _process_queue).
THEOREM QueueTended == MemorySpec => [](OnePerTalk /\ Tended)
<1>1. MemoryInv => OnePerTalk /\ Tended
  BY DEF MemoryInv
<1> QED BY <1>1, MemoryInvariance, PTL

\* No conversation is lost from the queue, nor the correction signalled in it: it leaves for the
\* batch that is being processed, or for a newer one of its chat that carries its signal
\* (queue.py, _enqueue_locked; the safety half of TalkIsTaken).
THEOREM TalksKept == MemorySpec => LeavesToBatch
<1>1. MemoryInv /\ [MemoryNext]_memoryVars =>
        [\A t \in Talks, c \in BOOLEAN :
            Holds(waiting, t, c) => Holds(waiting', t, c) \/ (processing' /\ Holds(batch', t, c))]_memoryVars
  BY MemoryStep
<1> QED BY <1>1, MemoryInvariance, PTL DEF MemorySpec, LeavesToBatch

(***************************************************************************)
(* MCPartsLive                                                             *)
(***************************************************************************)

\* Every behaviour of the composed run is, part by part, a behaviour of that part on its own, so
\* what is proved of ContinueLock, SubagentTasks, StreamBridge, MemoryQueue and HistoryThreads
\* holds of the run.
THEOREM LiveParts == PartsSpec => ContSpec /\ TaskSpec /\ StreamSpec /\ MemorySpec /\ HistorySpec
<1>1. PartsInit => ContInit /\ TaskInit /\ StreamInit /\ MemoryInit /\ HistoryInit
  BY DEF PartsInit
<1> DEFINE all == <<contVars, taskVars, streamVars, memoryVars, historyVars, part>>
<1>2. [PartsNext]_all => [ContNext]_contVars
  BY Zenon DEF PartsNext
<1>3. [PartsNext]_all => [TaskNext]_taskVars
  BY Zenon DEF PartsNext
<1>4. [PartsNext]_all => [StreamNext]_streamVars
  BY Zenon DEF PartsNext
<1>5. [PartsNext]_all => [MemoryNext]_memoryVars
  BY Zenon DEF PartsNext
<1>6. [PartsNext]_all => [HistoryNext]_historyVars
  BY Zenon DEF PartsNext
<1> QED BY <1>1, <1>2, <1>3, <1>4, <1>5, <1>6, PTL DEF PartsSpec, ContSpec, TaskSpec, StreamSpec, MemorySpec, HistorySpec

\* The state of every part keeps its type: locks and answers, delegations and their registry,
\* streams and their readers, the queue and its timers, chats and checkpoints.
THEOREM LivePartsTyped == PartsSpec => []PartsTypeOK
<1>1. LockInv /\ TaskInv /\ StreamInv /\ MemoryInv /\ ChatsInv => PartsTypeOK
  BY DEF PartsTypeOK, LockInv, TaskInv, StreamInv, MemoryInv, ChatsInv
<1> QED BY <1>1, LiveParts, LockInvariance, TaskInvariance, StreamInvariance, MemoryInvariance,
           ChatsInvariance, PTL

\* Every safety property the run checks, for any number of gateways, delegations, readers and events.
THEOREM LivePartsKeep ==
  PartsSpec => [](OneAtATime /\ SpentOnce /\ GroupWhole /\ OwnResult /\ StopsSoon /\ NothingSkipped)
BY LiveParts, NeverTwice, NeverAgain, WholeTurn, AnswersOwn, StopsInTime, NoneSkipped, PTL

=============================================================================
