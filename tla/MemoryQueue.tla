---------------------------- MODULE MemoryQueue ----------------------------
(* The queue that debounces the updates of the long-term memory: one process,
   a lock, one `_timer`, and a thread for every timer that went off.

   `Timer.cancel` stops a timer that still waits and nothing else: a thread
   whose timer went off a moment before an `add` runs all the same, and by
   dropping `_timer` it may leave the newer timer armed with nobody able to
   cancel it.  What the update does with a conversation (a model call, a save)
   is one step that may succeed or fail; `flush` and `clear` have no caller in
   the program. *)
EXTENDS Naturals, SequencesExt

CONSTANTS
    Talks,        \* the chats (thread ids)
    MaxAdds       \* bound: conversations handed to the queue

ASSUME MemoryBounds == MaxAdds \in Nat

VARIABLES
    waiting,      \* _queue: <<[talk, corrected]>>
    timer,        \* the timer `_timer` names still waits
    loose,        \* timers that wait and that `_timer` no longer names
    fired,        \* threads in _process_queue that have not the lock yet
    processing,   \* _processing
    batch,        \* contexts_to_process, what is left of it
    adds          \* conversations handed over so far

memoryVars == <<waiting, timer, loose, fired, processing, batch, adds>>

Context == [talk : Talks, corrected : BOOLEAN]

MemoryTypeOK ==
    /\ waiting \in Seq(Context) /\ batch \in Seq(Context)
    /\ timer \in BOOLEAN /\ processing \in BOOLEAN
    /\ loose \in Nat /\ fired \in Nat /\ adds \in 0..MaxAdds

MemoryInit ==
    /\ waiting = <<>> /\ batch = <<>>
    /\ timer = FALSE /\ processing = FALSE
    /\ loose = 0 /\ fired = 0 /\ adds = 0

(* existing_context: where an older conversation of the chat waits.  At most one
   does (OnePerTalk), so taking it out leaves what the code's filter leaves. *)
Older(t) == {i \in DOMAIN waiting : waiting[i].talk = t}
Others(t) == IF Older(t) = {} THEN waiting ELSE RemoveAt(waiting, CHOOSE i \in Older(t) : TRUE)

(* Mutant: the newer conversation's own signal only. *)
MergedAnew(t, corrected) == Append(Others(t), [talk |-> t, corrected |-> corrected])

(* The newer conversation replaces the older one of its chat, keeping the
   signals the older one carried, and goes to the end. *)
Merged(t, corrected) ==
    LET kept == \E i \in Older(t) : waiting[i].corrected
    IN  Append(Others(t), [talk |-> t, corrected |-> corrected \/ kept])

(* _schedule_timer: the timer it names is cancelled, a new one waits. *)
Armed == timer' = TRUE /\ UNCHANGED loose

(* add, add_nowait: they differ in how long the new timer waits. *)
AddTalk(t) ==
    /\ adds < MaxAdds
    /\ \E corrected \in BOOLEAN : waiting' = Merged(t, corrected)
    /\ Armed
    /\ adds' = adds + 1
    /\ UNCHANGED <<fired, processing, batch>>

TimerFires ==
    /\ \/ timer /\ timer' = FALSE /\ UNCHANGED loose
       \/ loose > 0 /\ loose' = loose - 1 /\ UNCHANGED timer
    /\ fired' = fired + 1
    /\ UNCHANGED <<waiting, processing, batch, adds>>

(* Somebody is processing: come back at once. *)
Later == Armed

(* The lock of _process_queue. *)
ProcessQueue ==
    /\ fired > 0
    /\ fired' = fired - 1
    /\ \/ /\ processing
          /\ Later
          /\ UNCHANGED <<waiting, processing, batch>>
       \/ /\ ~processing /\ waiting = <<>>
          /\ UNCHANGED <<waiting, timer, loose, processing, batch>>
       \/ /\ ~processing /\ waiting # <<>>
          /\ processing' = TRUE
          /\ batch' = waiting
          /\ waiting' = <<>>
          /\ timer' = FALSE                      \* self._timer = None
          /\ loose' = IF timer THEN loose + 1 ELSE loose
    /\ UNCHANGED adds

UpdateMemory ==
    /\ batch # <<>>
    /\ batch' = Tail(batch)
    /\ UNCHANGED <<waiting, timer, loose, fired, processing, adds>>

EndBatch ==
    /\ processing /\ batch = <<>>
    /\ processing' = FALSE
    /\ UNCHANGED <<waiting, timer, loose, fired, batch, adds>>

MemoryNext ==
    \/ \E t \in Talks : AddTalk(t)
    \/ TimerFires \/ ProcessQueue \/ UpdateMemory \/ EndBatch

MemorySpec == MemoryInit /\ [][MemoryNext]_memoryVars

(* A timer goes off, a thread gets the lock, a model call returns. *)
MemoryFairness ==
    /\ WF_memoryVars(TimerFires) /\ WF_memoryVars(ProcessQueue)
    /\ WF_memoryVars(UpdateMemory) /\ WF_memoryVars(EndBatch)

Holds(contexts, t, corrected) ==
    \E i \in DOMAIN contexts :
        contexts[i].talk = t /\ (corrected => contexts[i].corrected)

(* A chat has at most one conversation in the queue (queue.py:133). *)
OnePerTalk ==
    \A i, j \in DOMAIN waiting : waiting[i].talk = waiting[j].talk => i = j

(* While anything is queued, a timer waits or a thread is on its way to the lock,
   although `_timer` may name neither (queue.py:162, 170). *)
Tended == waiting # <<>> => timer \/ loose > 0 \/ fired > 0

(* A queued conversation leaves the queue only into a batch that is being
   processed, or for a newer one of its chat with the same correction. *)
LeavesToBatch ==
    [][\A t \in Talks, c \in BOOLEAN :
          Holds(waiting, t, c) => Holds(waiting', t, c) \/ (processing' /\ Holds(batch', t, c))]_memoryVars

(* The inductive invariant: what is being processed belongs to the thread that
   processes. *)
MemoryInv == MemoryTypeOK /\ OnePerTalk /\ Tended /\ (batch # <<>> => processing)

(* A conversation that is queued reaches an update, also when it comes while
   the queue is being processed, and the correction signalled in it or in one it
   replaced reaches the update with it (queue.py:156, 128). *)
TalkIsTaken ==
    \A t \in Talks, c \in BOOLEAN :
        Holds(waiting, t, c) ~> Holds(batch, t, c)
=============================================================================
