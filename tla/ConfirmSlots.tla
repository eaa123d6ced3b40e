------------------------------ MODULE ConfirmSlots ------------------------------
(***************************************************************************)
(* The slots of confirmed calls in one gateway process (routers/           *)
(* confirmations.py, _ConfirmSlots) and who is told how a call ended.      *)
(*                                                                         *)
(* A card's confirmation, a plan's Apply all and a typed "yes" take a slot *)
(* before anything is claimed and hand the call to a pool of its own.  The *)
(* card's slot is given back by the task that waits for the pool; a typed  *)
(* answer's by the pool's thread.  The card's route may answer "running"   *)
(* while a delegation runs, and its client may go away.                    *)
(***************************************************************************)
EXTENDS Naturals, FiniteSets

CONSTANTS Clients,      \* the users
          Calls,        \* confirmations that are asked for
          PoolWorkers,  \* CONFIRM_WORKERS
          PerUser,      \* CONFIRMS_PER_USER
          NoClient

ASSUME SlotsAssumption == PoolWorkers \in Nat /\ PerUser \in Nat /\ NoClient \notin Clients

VARIABLES
  slots,    \* _by_user
  call,     \* each confirmation: where it is, its kind and its user
  fn,       \* what the pool has of it
  claimed,  \* the card's claimed_by, as this call set it
  ended,    \* how the call ended
  waiting,  \* whether its client still waits for the reply
  reply,    \* what the client was told
  inChat    \* whether its end was posted in the chat

slotVars == <<slots, call, fn, claimed, ended, waiting, reply, inChat>>

SlotInit ==
  /\ slots = [u \in Clients |-> 0]
  /\ call = [c \in Calls |-> [at |-> "idle", kind |-> "card", user |-> NoClient]]
  /\ fn = [c \in Calls |-> "none"]
  /\ claimed = [c \in Calls |-> FALSE]
  /\ ended = [c \in Calls |-> "no"]
  /\ waiting = [c \in Calls |-> TRUE]
  /\ reply = [c \in Calls |-> "none"]
  /\ inChat = [c \in Calls |-> FALSE]

At(c, a) == call' = [call EXCEPT ![c].at = a]
\* The request is over, and nothing is left that knows whose it was.
Over == [at |-> "done", kind |-> "card", user |-> NoClient]
Forget(c) == call' = [call EXCEPT ![c] = Over]
Of(u) == {c \in Calls : call[c].user = u}
\* The sum of _by_user's values: the slots that are taken, counted one by one.
Slots == UNION {{u} \X (1 .. slots[u]) : u \in Clients}
SlotsTaken == Cardinality(Slots)

\* Mutant: the user's own limit is not looked at.
RoomInPool(u) == SlotsTaken < PoolWorkers

Room(u) == SlotsTaken < PoolWorkers /\ slots[u] < PerUser

GiveBackSlot(u) == slots' = [slots EXCEPT ![u] = IF @ > 0 THEN @ - 1 ELSE 0]

\* A card (an Apply all is one call here), a delegation's card ("task"), or a typed "yes" whose
\* probe said it would run.  No slot: nothing runs, and the caller says so.
TakeSlot(c) == \E u \in Clients, k \in {"card", "task", "typed"} :
  /\ call[c].at = "idle"
  /\ IF Room(u)
     THEN /\ slots' = [slots EXCEPT ![u] = @ + 1]
          /\ call' = [call EXCEPT ![c] = [at |-> IF k = "typed" THEN "handed" ELSE "building", kind |-> k, user |-> u]]
          /\ fn' = [fn EXCEPT ![c] = IF k = "typed" THEN "queued" ELSE @]
          /\ UNCHANGED reply
     ELSE /\ Forget(c)
          /\ reply' = [reply EXCEPT ![c] = "busy"]
          /\ UNCHANGED <<slots, fn>>
  /\ UNCHANGED <<claimed, ended, waiting, inChat>>

\* The proposer's tools cannot be built, or the client leaves meanwhile.
BuildFails(c) ==
  /\ call[c].at = "building" /\ Forget(c) /\ GiveBackSlot(call[c].user)
  /\ reply' = [reply EXCEPT ![c] = "error"]
  /\ UNCHANGED <<fn, claimed, ended, waiting, inChat>>

\* The detached task, shielded from its request, gives the call to the pool.
HandOver(c) ==
  /\ call[c].at = "building" /\ At(c, "handed")
  /\ fn' = [fn EXCEPT ![c] = "queued"]
  /\ UNCHANGED <<slots, claimed, ended, waiting, reply, inChat>>

PoolRuns == {c \in Calls : fn[c] = "runs"}

StartThread(c) ==
  /\ fn[c] = "queued" /\ Cardinality(PoolRuns) < PoolWorkers
  /\ fn' = [fn EXCEPT ![c] = "runs"]
  /\ UNCHANGED <<slots, call, claimed, ended, waiting, reply, inChat>>

\* The flow claims the action ...
ClaimInFlow(c) ==
  /\ fn[c] = "runs" /\ ~claimed[c]
  /\ claimed' = [claimed EXCEPT ![c] = TRUE]
  /\ UNCHANGED <<slots, call, fn, ended, waiting, reply, inChat>>

\* ... and ends: refused before the claim; executed, or failed, after it.
FlowEnds(c) == \E o \in IF claimed[c] THEN {"executed", "failed"} ELSE {"refused"} :
  /\ fn[c] = "runs"
  /\ fn' = [fn EXCEPT ![c] = "returned"]
  /\ ended' = [ended EXCEPT ![c] = o]
  /\ IF call[c].kind = "typed" THEN GiveBackSlot(call[c].user) ELSE UNCHANGED slots
  /\ UNCHANGED <<call, claimed, waiting, reply, inChat>>

\* A typed answer's slot is not its run's to give back.
CancelKeeps(c) == UNCHANGED slots

\* The run of a typed answer is cancelled.  A call that no thread has taken up yet is dropped
\* from the pool's queue with it.
CancelTyped(c) ==
  /\ call[c].kind = "typed" /\ call[c].at = "handed" /\ fn[c] # "returned"
  /\ At(c, "done") /\ CancelKeeps(c)
  /\ fn' = [fn EXCEPT ![c] = IF @ = "queued" THEN "dropped" ELSE @]
  /\ UNCHANGED <<claimed, ended, waiting, reply, inChat>>

\* Mutant: only a result is posted.
TellsResult(c) == ended[c] = "executed"

\* A result is posted into the chat; of a failure the chat is told when the card cannot be.
Tells(c) == ended[c] = "executed" \/ (ended[c] = "failed" /\ reply[c] = "running")

\* The task goes on when the pool has returned: slot, post, reply.
TaskEnds(c) ==
  /\ call[c].at = "handed" /\ fn[c] = "returned" /\ Forget(c)
  /\ IF call[c].kind = "typed" THEN UNCHANGED <<slots, inChat>>
     ELSE GiveBackSlot(call[c].user) /\ inChat' = [inChat EXCEPT ![c] = Tells(c)]
  /\ reply' = [reply EXCEPT ![c] = IF waiting[c] /\ @ = "none" THEN ended[c] ELSE @]
  /\ UNCHANGED <<fn, claimed, ended, waiting>>

\* CONFIRM_REPLY_WAIT_SECONDS is up: a delegation that is claimed is answered "running".
ReplyRunning(c) ==
  /\ call[c].kind = "task" /\ call[c].at = "handed" /\ waiting[c] /\ reply[c] = "none"
  /\ claimed[c]
  /\ reply' = [reply EXCEPT ![c] = "running"]
  /\ UNCHANGED <<slots, call, fn, claimed, ended, waiting, inChat>>

\* A client that goes away cancels its wait, never the call.
Disconnect(c) ==
  /\ call[c].kind # "typed" /\ call[c].at = "handed" /\ waiting[c] /\ reply[c] = "none"
  /\ waiting' = [waiting EXCEPT ![c] = FALSE]
  /\ UNCHANGED <<slots, call, fn, claimed, ended, reply, inChat>>

SlotStep(c) ==
  \/ BuildFails(c) \/ HandOver(c) \/ StartThread(c) \/ ClaimInFlow(c) \/ FlowEnds(c)
  \/ CancelTyped(c) \/ TaskEnds(c) \/ ReplyRunning(c) \/ Disconnect(c)

SlotNext == \E c \in Calls : TakeSlot(c) \/ SlotStep(c)

SlotSpec == SlotInit /\ [][SlotNext]_slotVars

----------------------------------------------------------------------------
(* What the slots are for. *)

SlotTypeOK ==
  /\ slots \in [Clients -> Nat]
  /\ call \in [Calls -> [at : {"idle", "building", "handed", "done"},
                         kind : {"card", "task", "typed"}, user : Clients \cup {NoClient}]]
  /\ fn \in [Calls -> {"none", "queued", "runs", "returned", "dropped"}]
  /\ claimed \in [Calls -> BOOLEAN] /\ waiting \in [Calls -> BOOLEAN] /\ inChat \in [Calls -> BOOLEAN]
  /\ ended \in [Calls -> {"no", "executed", "failed", "refused"}]
  /\ reply \in [Calls -> {"none", "busy", "error", "running", "executed", "failed", "refused"}]

\* A confirmation never waits behind others for a thread, and one user never has more than
\* its share of them: what is in the pool has a slot, also after its run was cancelled or its
\* client has gone (_ConfirmSlots: "NEVER a queue").
NeverQueued ==
  LET inPool == {c \in Calls : fn[c] \in {"queued", "runs"}} IN
  /\ Cardinality(inPool) <= PoolWorkers
  /\ \A u \in Clients : Cardinality(inPool \cap Of(u)) <= PerUser

\* A person whose card said "running" is told in the chat how the call ended
\* (confirmations.py, _confirm_and_post).
EndIsTold ==
  \A c \in Calls : call[c].at = "done" /\ reply[c] = "running" => inChat[c]

(* The inductive invariants behind them: where a call is says what the pool has of it, and the *)
(* slots that are taken are, in all and for each user, those of the calls that use one.  A     *)
(* typed answer's call uses its slot until its thread ends, whatever became of its run.        *)

Uses == {c \in Calls : \/ call[c].at = "building"
                       \/ call[c].at = "handed" /\ call[c].kind # "typed"
                       \/ call[c].kind = "typed" /\ fn[c] \in {"queued", "runs", "dropped"}}

CallInv == \A c \in Calls :
  /\ fn[c] = "returned" => ended[c] # "no"
  /\ call[c].at = "idle" => call[c].kind = "card" /\ fn[c] = "none"
  /\ call[c].at = "building" => call[c].user \in Clients /\ call[c].kind # "typed" /\ fn[c] = "none"
  /\ call[c].at = "handed" => call[c].user \in Clients /\ fn[c] \in {"queued", "runs", "returned"}
  /\ call[c].at = "done" =>
       \/ call[c] = Over /\ fn[c] \in {"none", "returned"}
       \/ call[c].kind = "typed" /\ call[c].user \in Clients /\ fn[c] \in {"runs", "returned", "dropped"}

CountInv ==
  /\ IsFiniteSet(Slots) /\ IsFiniteSet(Uses)
  /\ Cardinality(Uses) = SlotsTaken /\ SlotsTaken <= PoolWorkers
  /\ \A u \in Clients : Cardinality(Uses \cap Of(u)) = slots[u] /\ slots[u] <= PerUser

\* A call that was answered "running" is claimed, and ends with a result or a failure.
ToldInv == \A c \in Calls :
  /\ claimed[c] => fn[c] \in {"runs", "returned"}
  /\ claimed[c] /\ fn[c] = "returned" => ended[c] \in {"executed", "failed"}
  /\ reply[c] = "running" =>
       \/ call[c].at = "handed" /\ call[c].kind = "task" /\ claimed[c]
       \/ call[c].at = "done" /\ call[c] = Over /\ inChat[c]

SlotInv == SlotTypeOK /\ CallInv /\ CountInv /\ ToldInv

=============================================================================
