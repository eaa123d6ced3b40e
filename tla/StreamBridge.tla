------------------------------ MODULE StreamBridge ------------------------------
(***************************************************************************)
(* The event stream of one run (runtime/stream_bridge/memory.py): the      *)
(* run publishes, clients read from wherever they are in it, leave and     *)
(* come back with the last id they saw.  The bridge keeps the newest       *)
(* events, and forgets the stream a while after the run's end; a reader    *)
(* holds on to the stream it found.                                        *)
(***************************************************************************)
EXTENDS Naturals, FiniteSets

CONSTANTS Readers,
          MaxEvents,  \* bound: events the run publishes
          Retained,   \* queue_maxsize
          MaxJoins    \* bound: how often a reader joins

ASSUME StreamBounds == MaxEvents \in Nat /\ Retained \in Nat \ {0} /\ MaxJoins \in Nat \ {0}

\* Streams: the run's own, and the empty ones that a late join brings into being.
Streams == {"run", "late"}

VARIABLES
  registered, \* _streams of the run: a stream, or "none"
  published,  \* how many events the run's stream has had
  ended,      \* its `ended`
  reader,     \* each reader: the stream it holds and its next_offset
  seen,       \* the events each client was sent, over all its joins
  lastSeen    \* its Last-Event-ID: one past the last event, 0 for none

streamVars == <<registered, published, ended, reader, seen, lastSeen>>

Off == [at |-> "off", of |-> "none", next |-> 0, joins |-> 0]

StreamInit ==
  /\ registered = "run" /\ published = 0 /\ ended = FALSE
  /\ reader = [r \in Readers |-> Off]
  /\ seen = [r \in Readers |-> {}] /\ lastSeen = [r \in Readers |-> 0]

\* The events a stream still has are numbered from its start_offset.
Had(s) == IF s = "run" THEN published ELSE 0
StartOffset(s) == IF Had(s) > Retained THEN Had(s) - Retained ELSE 0
HasEnded(s) == s = "run" /\ ended

----------------------------------------------------------------------------
(* The run. *)

Publish ==
  /\ ~ended /\ published < MaxEvents
  /\ published' = published + 1
  /\ UNCHANGED <<registered, ended, reader, seen, lastSeen>>

PublishEnd ==
  /\ ~ended /\ ended' = TRUE
  /\ UNCHANGED <<registered, published, reader, seen, lastSeen>>

\* After a delay; a reader that came late may have registered a new stream by then.
Cleanup ==
  /\ ended /\ registered = "run" /\ registered' = "none"
  /\ UNCHANGED <<published, ended, reader, seen, lastSeen>>

----------------------------------------------------------------------------
(* The clients. *)

\* After the last event seen, while the stream has that event; else from the earliest it has.
ResumeAt(s, last) == IF last > StartOffset(s) /\ last <= Had(s) THEN last ELSE StartOffset(s)

Join(r) ==
  LET s == IF registered = "none" THEN "late" ELSE registered IN
  /\ reader[r].at = "off" /\ reader[r].joins < MaxJoins
  /\ registered' = s
  /\ reader' = [reader EXCEPT ![r] = [at |-> "on", of |-> s, next |-> ResumeAt(s, lastSeen[r]), joins |-> @.joins + 1]]
  /\ UNCHANGED <<published, ended, seen, lastSeen>>

\* Mutant: one that fell behind goes on with what comes next.
CatchUpToNew(s, n) == IF n < StartOffset(s) THEN Had(s) ELSE n

\* A reader that fell behind the retained events goes on with the earliest of them.
CaughtUp(s, n) == IF n < StartOffset(s) THEN StartOffset(s) ELSE n

\* Mutant: a reader looks the stream up each time.
Registered(r) == registered

HeldStream(r) == reader[r].of

ReadEvent(r) ==
  LET s == HeldStream(r)  n == CaughtUp(s, reader[r].next) IN
  /\ reader[r].at = "on" /\ n < Had(s)
  /\ reader' = [reader EXCEPT ![r].next = n + 1]
  /\ seen' = [seen EXCEPT ![r] = @ \cup {n}]
  /\ lastSeen' = [lastSeen EXCEPT ![r] = n + 1]
  /\ UNCHANGED <<registered, published, ended>>

\* Nothing is left, and the stream has ended.
ReadEnd(r) ==
  LET s == HeldStream(r) IN
  /\ reader[r].at = "on" /\ CaughtUp(s, reader[r].next) >= Had(s) /\ HasEnded(s)
  /\ reader' = [reader EXCEPT ![r].at = "ended"]
  /\ UNCHANGED <<registered, published, ended, seen, lastSeen>>

Leave(r) ==
  /\ reader[r].at = "on" /\ reader' = [reader EXCEPT ![r].at = "off"]
  /\ UNCHANGED <<registered, published, ended, seen, lastSeen>>

StreamNext ==
  \/ Publish \/ PublishEnd \/ Cleanup
  \/ \E r \in Readers : Join(r) \/ ReadEvent(r) \/ ReadEnd(r) \/ Leave(r)

StreamSpec == StreamInit /\ [][StreamNext]_streamVars

\* A run ends, and a reader that is there is sent what there is (woken, or by its heartbeat).
StreamFairness ==
  /\ WF_streamVars(PublishEnd)
  /\ \A r \in Readers : WF_streamVars(ReadEvent(r) \/ ReadEnd(r))

----------------------------------------------------------------------------
StreamTypeOK ==
  /\ registered \in Streams \cup {"none"} /\ published \in 0 .. MaxEvents /\ ended \in BOOLEAN
  /\ reader \in [Readers -> [at : {"off", "on", "ended"}, of : Streams \cup {"none"},
                             next : 0 .. MaxEvents, joins : 0 .. MaxJoins]]
  /\ seen \in [Readers -> SUBSET (0 .. MaxEvents - 1)]
  /\ lastSeen \in [Readers -> 0 .. MaxEvents]

\* What a reader was not sent had left the buffer, before it joined or while it was slow
\* (memory.py, subscribe).
NothingSkipped ==
  \A r \in Readers : reader[r].at # "off" /\ reader[r].of = "run" =>
    \A n \in 0 .. MaxEvents - 1 :
      n < (IF reader[r].at = "ended" THEN published ELSE reader[r].next) => n \in seen[r] \/ n < StartOffset("run")

\* A reader that found the run's stream gets to its end, also when the stream is forgotten
\* while it reads (memory.py, cleanup).
EndIsSent ==
  \A r \in Readers : reader[r].at = "on" /\ reader[r].of = "run" ~> reader[r].at # "on"

(* What NothingSkipped rests on: the last id a client comes back with is past nothing it missed *)
(* while it was in the buffer, and a stream that has ended has no more events.                  *)

Sent(r, n) == n \in seen[r] \/ n < StartOffset("run")

ResumeInv == \A r \in Readers :
  /\ \A n \in 0 .. MaxEvents - 1 : n < lastSeen[r] => Sent(r, n)
  /\ reader[r].at = "ended" => ended

StreamInv == StreamTypeOK /\ ResumeInv /\ NothingSkipped

=============================================================================
