-------------------------- MODULE Confirmed_proofs --------------------------
(***************************************************************************)
(* Theorems about what runs once a person, or a standing grant, has said   *)
(* yes: ConfirmSlots and LedgerWrites.                                     *)
(*                                                                         *)
(* ConfirmSlots.  The slots that are taken are counted against the calls   *)
(* that use one: CountInv is kept because every action that begins or ends *)
(* a call's use of the pool moves exactly its own user's count (Takes,     *)
(* Frees), and every other action moves neither (Keeps).                   *)
(*                                                                         *)
(* LedgerWrites.  A plan of any length is applied change by change, and    *)
(* an undo of any number of writes goes through them one by one; what      *)
(* holds after the last one is proved by induction on their number         *)
(* (Induct, AppliedGood, RevertedGood).  LedgerInv follows action by       *)
(* action: types, pins, the cap and the versions of the rows.              *)
(***************************************************************************)
EXTENDS ConfirmSlots, LedgerWrites, FiniteSetTheorems, SequenceTheorems, TLAPS

(***************************************************************************)
(* ConfirmSlots                                                            *)
(***************************************************************************)

Places == {"idle", "building", "handed", "done"}

\* A call that goes on is still of its kind and its user.
LEMMA AtType ==
  ASSUME SlotTypeOK, NEW c \in Calls, NEW a \in Places, At(c, a)
  PROVE  /\ call' \in [Calls -> [at : Places, kind : {"card", "task", "typed"}, user : Clients \cup {NoClient}]]
         /\ call'[c].at = a /\ call'[c].kind = call[c].kind /\ call'[c].user = call[c].user
         /\ \A d \in Calls \ {c} : call'[d] = call[d]
BY DEF At, SlotTypeOK, Places

\* A call that is over has no kind and no user left.
LEMMA ForgetType ==
  ASSUME SlotTypeOK, NEW c \in Calls, Forget(c)
  PROVE  /\ call' \in [Calls -> [at : Places, kind : {"card", "task", "typed"}, user : Clients \cup {NoClient}]]
         /\ call'[c] = Over /\ \A d \in Calls \ {c} : call'[d] = call[d]
<1>1. Over \in [at : Places, kind : {"card", "task", "typed"}, user : Clients \cup {NoClient}]
  BY DEF Over, Places
<1> QED BY <1>1 DEF Forget, SlotTypeOK, Places

\* What a confirmation that finds room does, and what one that does not.
Opens(c, u, k) ==
  /\ slots' = [slots EXCEPT ![u] = @ + 1] /\ reply' = reply
  /\ call' = [call EXCEPT ![c] = [at |-> IF k = "typed" THEN "handed" ELSE "building", kind |-> k, user |-> u]]
  /\ fn' = [fn EXCEPT ![c] = IF k = "typed" THEN "queued" ELSE @]

TurnsAway(c) == Forget(c) /\ reply' = [reply EXCEPT ![c] = "busy"] /\ slots' = slots /\ fn' = fn

LEMMA Taking ==
  ASSUME NEW c \in Calls, TakeSlot(c)
  PROVE  /\ call[c].at = "idle" /\ UNCHANGED <<claimed, ended, waiting, inChat>>
         /\ \/ \E u \in Clients, k \in {"card", "task", "typed"} : Room(u) /\ Opens(c, u, k)
            \/ TurnsAway(c)
BY DEF TakeSlot, Opens, TurnsAway

LEMMA OpensType ==
  ASSUME SlotTypeOK, NEW c \in Calls, NEW u \in Clients, NEW k \in {"card", "task", "typed"}, Opens(c, u, k)
  PROVE  /\ call' \in [Calls -> [at : Places, kind : {"card", "task", "typed"}, user : Clients \cup {NoClient}]]
         /\ call'[c].at = (IF k = "typed" THEN "handed" ELSE "building")
         /\ call'[c].kind = k /\ call'[c].user = u
         /\ \A d \in Calls \ {c} : call'[d] = call[d] /\ fn'[d] = fn[d]
         /\ fn' \in [Calls -> {"none", "queued", "runs", "returned", "dropped"}]
         /\ fn'[c] = (IF k = "typed" THEN "queued" ELSE fn[c])
         /\ slots' \in [Clients -> Nat] /\ slots'[u] = slots[u] + 1 /\ reply' = reply
         /\ \A v \in Clients \ {u} : slots'[v] = slots[v]
<1>1. [at |-> IF k = "typed" THEN "handed" ELSE "building", kind |-> k, user |-> u]
        \in [at : Places, kind : {"card", "task", "typed"}, user : Clients \cup {NoClient}]
  BY DEF Places
<1> QED BY <1>1 DEF Opens, SlotTypeOK, Places

\* A slot that is given back is its user's.
LEMMA GivesBackType ==
  ASSUME SlotTypeOK, NEW u, GiveBackSlot(u)
  PROVE  /\ slots' \in [Clients -> Nat]
         /\ u \in Clients /\ slots[u] > 0 => slots'[u] = slots[u] - 1
         /\ \A v \in Clients \ {u} : slots'[v] = slots[v]
<1>1. \A n \in Nat : (IF n > 0 THEN n - 1 ELSE 0) \in Nat
  OBVIOUS
<1>2. CASE u \in Clients
  BY <1>1, <1>2 DEF GiveBackSlot, SlotTypeOK
<1>3. CASE u \notin Clients
  BY <1>3 DEF GiveBackSlot, SlotTypeOK
<1> QED BY <1>2, <1>3

\* The state keeps its type.
LEMMA SlotTypeStep == SlotTypeOK /\ CallInv /\ [SlotNext]_slotVars => SlotTypeOK'
<1> SUFFICES ASSUME SlotTypeOK, CallInv, [SlotNext]_slotVars PROVE SlotTypeOK'
  OBVIOUS
<1> USE DEF Places
<1>1. ASSUME NEW c \in Calls, TakeSlot(c) PROVE SlotTypeOK'
  <2>1. ASSUME NEW u \in Clients, NEW k \in {"card", "task", "typed"}, Opens(c, u, k) PROVE SlotTypeOK'
    BY ZenonT(60), <1>1, <2>1, Taking, OpensType DEF SlotTypeOK, Opens
  <2>2. CASE TurnsAway(c)
    BY <1>1, <2>2, Taking, ForgetType DEF SlotTypeOK, TurnsAway
  <2> QED BY <1>1, <2>1, <2>2, Taking
<1>2. ASSUME NEW c \in Calls, BuildFails(c) PROVE SlotTypeOK'
  BY <1>2, ForgetType, GivesBackType DEF BuildFails, SlotTypeOK
<1>3. ASSUME NEW c \in Calls, HandOver(c) PROVE SlotTypeOK'
  BY <1>3, AtType DEF HandOver, SlotTypeOK
<1>4. ASSUME NEW c \in Calls, StartThread(c) \/ ClaimInFlow(c) \/ ReplyRunning(c) \/ Disconnect(c) PROVE SlotTypeOK'
  BY <1>4 DEF StartThread, ClaimInFlow, ReplyRunning, Disconnect, SlotTypeOK
<1>5. ASSUME NEW c \in Calls, FlowEnds(c) PROVE SlotTypeOK'
  BY <1>5, GivesBackType DEF FlowEnds, SlotTypeOK
<1>6. ASSUME NEW c \in Calls, CancelTyped(c) PROVE SlotTypeOK'
  BY <1>6, AtType DEF CancelTyped, CancelKeeps, SlotTypeOK
<1>7. ASSUME NEW c \in Calls, TaskEnds(c) PROVE SlotTypeOK'
  <2>1. ended[c] \in {"executed", "failed", "refused"}
    BY <1>7 DEF TaskEnds, CallInv, SlotTypeOK
  <2>2. inChat' \in [Calls -> BOOLEAN]
    BY <1>7 DEF TaskEnds, Tells, SlotTypeOK
  <2> QED BY <1>7, <2>1, <2>2, ForgetType, GivesBackType DEF TaskEnds, SlotTypeOK
<1>8. CASE UNCHANGED slotVars
  BY <1>8 DEF slotVars, SlotTypeOK
<1> QED BY <1>1, <1>2, <1>3, <1>4, <1>5, <1>6, <1>7, <1>8 DEF SlotNext, SlotStep

\* Where a call is says what the pool has of it, and a call that was answered "running" ends
\* with something to tell.
LEMMA CallStep == SlotTypeOK /\ CallInv /\ ToldInv /\ [SlotNext]_slotVars => CallInv' /\ ToldInv'
<1> SUFFICES ASSUME SlotTypeOK, CallInv, ToldInv, [SlotNext]_slotVars PROVE CallInv' /\ ToldInv'
  OBVIOUS
<1> USE DEF Places
<1>1. ASSUME NEW c \in Calls, TakeSlot(c) PROVE CallInv' /\ ToldInv'
  <2>1. ASSUME NEW u \in Clients, NEW k \in {"card", "task", "typed"}, Opens(c, u, k)
        PROVE  CallInv' /\ ToldInv'
    <3>1. CallInv'
      BY <1>1, <2>1, Taking, OpensType DEF CallInv, SlotTypeOK
    <3>2. /\ call[c].at = "idle" /\ fn[c] = "none" /\ fn'[c] # "returned"
          /\ UNCHANGED <<reply, claimed, ended, inChat>>
          /\ \A d \in Calls \ {c} : call'[d] = call[d] /\ fn'[d] = fn[d]
      BY <1>1, <2>1, Taking, OpensType DEF CallInv
    <3>3. reply[c] # "running" /\ ~claimed[c]
      BY <3>2 DEF ToldInv, Over
    <3> QED BY <3>1, <3>2, <3>3 DEF ToldInv
  <2>2. CASE TurnsAway(c)
    <3>1. /\ call'[c] = Over /\ \A d \in Calls \ {c} : call'[d] = call[d]
          /\ reply'[c] # "running" /\ \A d \in Calls \ {c} : reply'[d] = reply[d]
          /\ fn[c] = "none" /\ UNCHANGED <<fn, claimed, ended, inChat>>
      BY <1>1, <2>2, Taking, ForgetType DEF TurnsAway, CallInv, SlotTypeOK
    <3> QED BY <3>1 DEF CallInv, ToldInv, Over
  <2> QED BY <1>1, <2>1, <2>2, Taking
<1>2. ASSUME NEW c \in Calls, BuildFails(c) PROVE CallInv' /\ ToldInv'
  <2>1. /\ call'[c] = Over /\ \A d \in Calls \ {c} : call'[d] = call[d]
        /\ reply'[c] # "running" /\ \A d \in Calls \ {c} : reply'[d] = reply[d]
        /\ fn[c] = "none" /\ UNCHANGED <<fn, claimed, ended, inChat>>
    BY <1>2, ForgetType DEF BuildFails, CallInv, SlotTypeOK
  <2> QED BY <2>1 DEF CallInv, ToldInv, Over
<1>3. ASSUME NEW c \in Calls, HandOver(c) PROVE CallInv' /\ ToldInv'
  BY <1>3, AtType DEF HandOver, CallInv, ToldInv, Over, SlotTypeOK
<1>4. ASSUME NEW c \in Calls, StartThread(c) PROVE CallInv' /\ ToldInv'
  BY <1>4 DEF StartThread, CallInv, ToldInv, SlotTypeOK
<1>5. ASSUME NEW c \in Calls, ClaimInFlow(c) PROVE CallInv' /\ ToldInv'
  BY <1>5 DEF ClaimInFlow, CallInv, ToldInv, SlotTypeOK
<1>6. ASSUME NEW c \in Calls, FlowEnds(c) PROVE CallInv' /\ ToldInv'
  BY <1>6 DEF FlowEnds, CallInv, ToldInv, SlotTypeOK
<1>7. ASSUME NEW c \in Calls, CancelTyped(c) PROVE CallInv' /\ ToldInv'
  BY <1>7, AtType DEF CancelTyped, CallInv, ToldInv, Over, SlotTypeOK
<1>8. ASSUME NEW c \in Calls, TaskEnds(c) PROVE CallInv' /\ ToldInv'
  <2>1. /\ call'[c] = Over /\ \A d \in Calls \ {c} : call'[d] = call[d]
        /\ fn[c] = "returned" /\ UNCHANGED <<fn, claimed, ended>>
        /\ \A d \in Calls \ {c} : reply'[d] = reply[d] /\ inChat'[d] = inChat[d]
    BY <1>8, ForgetType DEF TaskEnds, SlotTypeOK
  <2>2. reply'[c] = "running" => inChat'[c]
    <3>1. reply'[c] = "running" => reply[c] = "running" /\ claimed[c] /\ call[c].kind = "task"
      BY <1>8 DEF TaskEnds, ToldInv, SlotTypeOK
    <3>2. reply[c] = "running" /\ claimed[c] => Tells(c)
      BY <1>8 DEF TaskEnds, ToldInv, Tells
    <3> QED BY <1>8, <3>1, <3>2 DEF TaskEnds, SlotTypeOK
  <2> QED BY <2>1, <2>2 DEF CallInv, ToldInv, Over
<1>9. ASSUME NEW c \in Calls, ReplyRunning(c) PROVE CallInv' /\ ToldInv'
  BY <1>9 DEF ReplyRunning, CallInv, ToldInv, SlotTypeOK
<1>10. ASSUME NEW c \in Calls, Disconnect(c) PROVE CallInv' /\ ToldInv'
  BY <1>10 DEF Disconnect, CallInv, ToldInv, SlotTypeOK
<1>11. CASE UNCHANGED slotVars
  BY <1>11 DEF slotVars, CallInv, ToldInv
<1> QED BY <1>1, <1>2, <1>3, <1>4, <1>5, <1>6, <1>7, <1>8, <1>9, <1>10, <1>11 DEF SlotNext, SlotStep

----------------------------------------------------------------------------
(* The count.  c begins to use the pool for u, or ends; or nobody does. *)

StartsUse(c, u) ==
  /\ Uses' = Uses \cup {c} /\ slots'[u] = slots[u] + 1
  /\ \A v \in Clients \ {u} : (Uses \cap Of(v))' = Uses \cap Of(v) /\ slots'[v] = slots[v]
  /\ (Uses \cap Of(u))' = (Uses \cap Of(u)) \cup {c}

Finishes(c, u) ==
  /\ Uses' = Uses \ {c} /\ slots'[u] = slots[u] - 1
  /\ \A v \in Clients \ {u} : (Uses \cap Of(v))' = Uses \cap Of(v) /\ slots'[v] = slots[v]
  /\ (Uses \cap Of(u))' = (Uses \cap Of(u)) \ {c}

LEMMA Takes ==
  ASSUME SlotTypeOK, SlotTypeOK', CountInv, NEW u \in Clients, NEW c \in Calls \ Uses, Room(u), StartsUse(c, u)
  PROVE  CountInv'
<1> USE SlotsAssumption
<1>1. Slots' = Slots \cup {<<u, slots[u] + 1>>} /\ <<u, slots[u] + 1>> \notin Slots
  <2>1. \A v \in Clients : slots[v] \in Nat /\ slots'[v] \in Nat
    BY DEF SlotTypeOK
  <2>2. 1 .. slots'[u] = (1 .. slots[u]) \cup {slots[u] + 1}
    BY <2>1 DEF StartsUse
  <2> QED BY <2>1, <2>2 DEF Slots, StartsUse
<1>2. IsFiniteSet(Slots') /\ SlotsTaken' = SlotsTaken + 1
  BY <1>1, FS_AddElement DEF CountInv, SlotsTaken
<1>3. IsFiniteSet(Uses') /\ Cardinality(Uses') = Cardinality(Uses) + 1
  BY FS_AddElement DEF CountInv, StartsUse
<1>4. Cardinality((Uses \cap Of(u))') = Cardinality(Uses \cap Of(u)) + 1
  <2> DEFINE S == Uses \cap Of(u)
  <2>1. S' = S \cup {c} /\ c \notin S
    BY DEF StartsUse
  <2>2. IsFiniteSet(S)
    BY FS_Subset DEF CountInv
  <2>3. Cardinality(S \cup {c}) = Cardinality(S) + 1
    <3> HIDE DEF S
    <3> QED BY <2>1, <2>2, FS_AddElement
  <2> QED BY <2>1, <2>3
<1>5. SlotsTaken \in Nat /\ slots[u] \in Nat
  BY FS_CardinalityType DEF CountInv, SlotsTaken, SlotTypeOK
<1>6. \A v \in Clients : Cardinality((Uses \cap Of(v))') = slots'[v] /\ slots'[v] <= PerUser
  <2> TAKE v \in Clients
  <2>1. CASE v = u
    BY <1>4, <1>5, <2>1 DEF CountInv, StartsUse, Room
  <2>2. CASE v # u
    BY <2>2 DEF CountInv, StartsUse
  <2> QED BY <2>1, <2>2
<1> QED BY <1>2, <1>3, <1>5, <1>6 DEF CountInv, Room

LEMMA Frees ==
  ASSUME SlotTypeOK, SlotTypeOK', CountInv, NEW u \in Clients, NEW c \in Uses \cap Of(u), Finishes(c, u)
  PROVE  CountInv'
<1> USE SlotsAssumption
<1>1. IsFiniteSet(Uses \cap Of(u)) /\ slots[u] \in Nat \ {0}
  <2>1. IsFiniteSet(Uses \cap Of(u)) /\ Cardinality(Uses \cap Of(u)) = slots[u]
    BY FS_Subset DEF CountInv
  <2> QED BY <2>1, FS_EmptySet DEF SlotTypeOK
<1>2. Slots' = Slots \ {<<u, slots[u]>>} /\ <<u, slots[u]>> \in Slots
  <2>1. \A v \in Clients : slots[v] \in Nat /\ slots'[v] \in Nat
    BY DEF SlotTypeOK
  <2>2. 1 .. slots'[u] = (1 .. slots[u]) \ {slots[u]} /\ slots[u] \in 1 .. slots[u]
    BY <1>1, <2>1 DEF Finishes
  <2> QED BY <2>1, <2>2 DEF Slots, Finishes
<1>3. IsFiniteSet(Slots') /\ SlotsTaken' = SlotsTaken - 1
  BY <1>2, FS_RemoveElement DEF CountInv, SlotsTaken
<1>4. IsFiniteSet(Uses') /\ Cardinality(Uses') = Cardinality(Uses) - 1
  BY FS_RemoveElement DEF CountInv, Finishes
<1>5. Cardinality((Uses \cap Of(u))') = Cardinality(Uses \cap Of(u)) - 1
  <2>1. (Uses \cap Of(u))' = (Uses \cap Of(u)) \ {c} /\ c \in Uses \cap Of(u)
    BY DEF Finishes
  <2> DEFINE S == Uses \cap Of(u)
  <2>2. Cardinality(S \ {c}) = Cardinality(S) - 1
    <3> HIDE DEF S
    <3> QED BY <1>1, <2>1, FS_RemoveElement DEF S
  <2> QED BY <2>1, <2>2
<1>6. SlotsTaken \in Nat
  BY FS_CardinalityType DEF CountInv, SlotsTaken
<1>7. \A v \in Clients : Cardinality((Uses \cap Of(v))') = slots'[v] /\ slots'[v] <= PerUser
  <2> TAKE v \in Clients
  <2>1. CASE v = u
    BY <1>1, <1>5, <2>1 DEF CountInv, Finishes
  <2>2. CASE v # u
    BY <2>2 DEF CountInv, Finishes
  <2> QED BY <2>1, <2>2
<1> QED BY <1>3, <1>4, <1>6, <1>7 DEF CountInv

LEMMA Keeps ==
  ASSUME CountInv, slots' = slots, Uses' = Uses, \A v \in Clients : (Uses \cap Of(v))' = Uses \cap Of(v)
  PROVE  CountInv'
BY DEF CountInv, SlotsTaken, Slots

\* Only c's own record and thread change.
OnlyOf(c) == \A d \in Calls \ {c} : call'[d] = call[d] /\ fn'[d] = fn[d]

LEMMA SameUse ==
  ASSUME CountInv, slots' = slots, NEW c \in Calls, OnlyOf(c), c \in Uses' <=> c \in Uses,
         c \in Uses => call'[c].user = call[c].user
  PROVE  CountInv'
<1>1. Uses' = Uses
  BY DEF OnlyOf, Uses
<1>2. \A v \in Clients : (Uses \cap Of(v))' = Uses \cap Of(v)
  BY <1>1 DEF OnlyOf, Uses, Of
<1> QED BY <1>1, <1>2, Keeps

LEMMA EndsUse ==
  ASSUME SlotTypeOK, SlotTypeOK', CountInv, NEW c \in Uses, NEW u \in Clients, call[c].user = u,
         OnlyOf(c), c \notin Uses', GiveBackSlot(u)
  PROVE  CountInv'
<1>1. c \in Calls /\ c \in Uses \cap Of(u)
  BY DEF Uses, Of
<1>2. slots[u] > 0
  <2>1. IsFiniteSet(Uses \cap Of(u)) /\ Cardinality(Uses \cap Of(u)) = slots[u]
    BY FS_Subset DEF CountInv
  <2>2. slots[u] # 0
    BY <1>1, <2>1, FS_EmptySet
  <2> QED BY <2>2 DEF SlotTypeOK
<1>3. Finishes(c, u)
  <2>1. Uses' = Uses \ {c}
    BY DEF OnlyOf, Uses
  <2>2. \A v \in Clients : (Uses \cap Of(v))' = (Uses \cap Of(v)) \ {c}
    BY <2>1 DEF OnlyOf, Uses, Of
  <2>3. \A v \in Clients \ {u} : c \notin Of(v)
    BY DEF Of
  <2>4. slots'[u] = slots[u] - 1 /\ \A v \in Clients \ {u} : slots'[v] = slots[v]
    BY <1>2, GivesBackType
  <2> QED BY <2>1, <2>2, <2>3, <2>4 DEF Finishes
<1> QED BY <1>1, <1>3, Frees

\* Every step keeps the count.
LEMMA CountStep ==
  SlotTypeOK /\ SlotTypeOK' /\ CallInv /\ CallInv' /\ CountInv /\ [SlotNext]_slotVars => CountInv'
<1> SUFFICES ASSUME SlotTypeOK, SlotTypeOK', CallInv, CallInv', CountInv, [SlotNext]_slotVars PROVE CountInv'
  OBVIOUS
<1> USE DEF Places
<1>1. ASSUME NEW c \in Calls, TakeSlot(c) PROVE CountInv'
  <2>1. c \notin Uses
    BY <1>1, Taking DEF Uses, CallInv
  <2>2. ASSUME NEW u \in Clients, NEW k \in {"card", "task", "typed"}, Room(u), Opens(c, u, k) PROVE CountInv'
    <3>1. OnlyOf(c) /\ c \in Uses' /\ c \in Of(u)' /\ slots'[u] = slots[u] + 1
          /\ \A v \in Clients \ {u} : c \notin Of(v)' /\ slots'[v] = slots[v]
      BY <2>2, OpensType DEF OnlyOf, Uses, Of
    <3>2. Uses' = Uses \cup {c}
      BY <2>1, <3>1 DEF OnlyOf, Uses
    <3>3. StartsUse(c, u)
      BY <2>1, <3>1, <3>2 DEF StartsUse, OnlyOf, Of, Uses
    <3> QED BY <2>1, <2>2, <3>3, Takes
  <2>3. CASE TurnsAway(c)
    <3>1. OnlyOf(c) /\ c \notin Uses' /\ slots' = slots
      BY <1>1, <2>3, Taking, ForgetType DEF OnlyOf, Uses, CallInv, TurnsAway, Over
    <3> QED BY <2>1, <3>1, SameUse
  <2> QED BY <1>1, <2>2, <2>3, Taking
<1>2. ASSUME NEW c \in Calls, BuildFails(c) PROVE CountInv'
  <2>1. /\ c \in Uses /\ call[c].user \in Clients /\ OnlyOf(c)
        /\ c \notin Uses' /\ GiveBackSlot(call[c].user)
    BY <1>2, ForgetType DEF BuildFails, OnlyOf, Uses, CallInv, Over
  <2> QED BY <2>1, EndsUse
<1>3. ASSUME NEW c \in Calls, HandOver(c) PROVE CountInv'
  <2>1. /\ slots' = slots /\ OnlyOf(c) /\ c \in Uses' /\ c \in Uses /\ call'[c].user = call[c].user
    BY <1>3, AtType DEF HandOver, OnlyOf, Uses, CallInv, SlotTypeOK
  <2> QED BY <2>1, SameUse
<1>4. ASSUME NEW c \in Calls, StartThread(c) PROVE CountInv'
  <2>1. /\ slots' = slots /\ call' = call /\ OnlyOf(c) /\ (c \in Uses' <=> c \in Uses)
    BY <1>4 DEF StartThread, OnlyOf, Uses, SlotTypeOK
  <2> QED BY <2>1, SameUse
<1>5. ASSUME NEW c \in Calls, FlowEnds(c) PROVE CountInv'
  <2>1. OnlyOf(c) /\ call' = call /\ fn[c] = "runs" /\ fn'[c] = "returned"
    BY <1>5 DEF FlowEnds, OnlyOf, SlotTypeOK
  <2>2. CASE call[c].kind = "typed"
    <3>1. c \in Uses /\ c \notin Uses' /\ call[c].user \in Clients /\ GiveBackSlot(call[c].user)
      <4>1. c \in Uses /\ call[c].at \notin {"idle", "building"}
        BY <2>1, <2>2 DEF Uses, CallInv
      <4>2. call[c].user \in Clients
        BY <2>1, <2>2, <4>1 DEF CallInv, Over, SlotTypeOK
      <4> QED BY <1>5, <2>1, <2>2, <4>1, <4>2 DEF FlowEnds, Uses
    <3> QED BY <2>1, <3>1, EndsUse
  <2>3. CASE call[c].kind # "typed"
    <3>1. slots' = slots /\ (c \in Uses' <=> c \in Uses)
      BY <1>5, <2>1, <2>3 DEF FlowEnds, Uses
    <3> QED BY <2>1, <3>1, SameUse
  <2> QED BY <2>2, <2>3
<1>6. ASSUME NEW c \in Calls, CancelTyped(c) PROVE CountInv'
  <2>1. /\ slots' = slots /\ OnlyOf(c) /\ c \in Uses' /\ c \in Uses /\ call'[c].user = call[c].user
    BY <1>6, AtType DEF CancelTyped, CancelKeeps, OnlyOf, Uses, CallInv, SlotTypeOK
  <2> QED BY <2>1, SameUse
<1>7. ASSUME NEW c \in Calls, TaskEnds(c) PROVE CountInv'
  <2>1. OnlyOf(c) /\ c \notin Uses' /\ call[c].user \in Clients
    BY <1>7, ForgetType DEF TaskEnds, OnlyOf, Uses, CallInv, Over
  <2>2. CASE call[c].kind = "typed"
    <3>1. c \notin Uses /\ slots' = slots
      BY <1>7, <2>2 DEF TaskEnds, Uses
    <3> QED BY <2>1, <3>1, SameUse
  <2>3. CASE call[c].kind # "typed"
    <3>1. c \in Uses /\ GiveBackSlot(call[c].user)
      BY <1>7, <2>3 DEF TaskEnds, Uses
    <3> QED BY <2>1, <3>1, EndsUse
  <2> QED BY <2>2, <2>3
<1>8. ASSUME NEW c \in Calls, ClaimInFlow(c) \/ ReplyRunning(c) \/ Disconnect(c) PROVE CountInv'
  <2>1. UNCHANGED <<slots, call, fn>>
    BY <1>8 DEF ClaimInFlow, ReplyRunning, Disconnect
  <2> QED BY <2>1, Keeps DEF Uses, Of
<1>9. CASE UNCHANGED slotVars
  BY <1>9, Keeps DEF slotVars, Uses, Of
<1> QED BY <1>1, <1>2, <1>3, <1>4, <1>5, <1>6, <1>7, <1>8, <1>9 DEF SlotNext, SlotStep

\* The invariant holds throughout.
LEMMA SlotInvariance == SlotSpec => []SlotInv
<1>1. SlotInit => SlotInv
  <2> SUFFICES ASSUME SlotInit PROVE SlotInv
    OBVIOUS
  <2>1. SlotTypeOK /\ CallInv /\ ToldInv
    BY DEF SlotInit, SlotTypeOK, CallInv, ToldInv
  <2>2. Uses = {} /\ \A u \in Clients : Uses \cap Of(u) = {}
    BY DEF SlotInit, Uses
  <2>3. Slots = {}
    BY DEF SlotInit, Slots
  <2>4. CountInv
    BY <2>2, <2>3, FS_EmptySet, SlotsAssumption DEF SlotInit, CountInv, SlotsTaken
  <2> QED BY <2>1, <2>4 DEF SlotInv
<1>2. SlotInv /\ [SlotNext]_slotVars => SlotInv'
  BY SlotTypeStep, CallStep, CountStep DEF SlotInv
<1> QED BY <1>1, <1>2, PTL DEF SlotSpec

\* A confirmation never waits behind others for a thread, and a user never has more than its share
\* of them: for any number of users and calls, and any limits (_ConfirmSlots: "NEVER a queue").
THEOREM NoQueue == SlotSpec => []NeverQueued
<1>1. SlotInv => NeverQueued
  <2> SUFFICES ASSUME SlotInv PROVE NeverQueued
    OBVIOUS
  <2> DEFINE inPool == {c \in Calls : fn[c] \in {"queued", "runs"}}
  <2>1. inPool \subseteq Uses
    BY DEF SlotInv, SlotTypeOK, CallInv, Uses, Over
  <2>2. IsFiniteSet(Uses) /\ Cardinality(Uses) <= PoolWorkers
    BY DEF SlotInv, CountInv
  <2>3. Cardinality(inPool) <= PoolWorkers
    <3>1. IsFiniteSet(inPool) /\ Cardinality(inPool) <= Cardinality(Uses)
      BY <2>1, <2>2, FS_Subset
    <3> QED BY <2>2, <3>1, FS_CardinalityType, SlotsAssumption
  <2>4. ASSUME NEW u \in Clients PROVE Cardinality(inPool \cap Of(u)) <= PerUser
    <3>1. IsFiniteSet(Uses \cap Of(u)) /\ Cardinality(Uses \cap Of(u)) <= PerUser
      BY <2>2, FS_Subset DEF SlotInv, CountInv
    <3>2. IsFiniteSet(inPool \cap Of(u)) /\ Cardinality(inPool \cap Of(u)) <= Cardinality(Uses \cap Of(u))
      BY <2>1, <3>1, FS_Subset
    <3> QED BY <3>1, <3>2, FS_CardinalityType, SlotsAssumption
  <2> QED BY <2>3, <2>4 DEF NeverQueued
<1> QED BY <1>1, SlotInvariance, PTL

\* Whoever was answered "running" is told in the chat how the call ended (_confirm_and_post).
THEOREM ToldInChat == SlotSpec => []EndIsTold
<1>1. SlotInv => EndIsTold
  BY DEF SlotInv, ToldInv, EndIsTold
<1> QED BY <1>1, SlotInvariance, PTL

(***************************************************************************)
(* LedgerWrites                                                            *)
(***************************************************************************)

\* A set of numbers has a least one.
LEMMA LeastOf ==
  ASSUME NEW S, S \subseteq Nat, S # {}
  PROVE  \E n \in S : \A m \in S : n <= m
<1> DEFINE R == OpToRel(<, Nat)
<1>1. IsWellFoundedOn(R, Nat)
  BY NatLessThanWellFounded, Zenon
<1>2. \E x \in S : \A y \in S : ~ (<<y, x>> \in R)
  BY <1>1, WFMin, Zenon
<1>3. \A x, y \in Nat : x < y => <<x, y>> \in R
  BY Zenon DEF OpToRel
<1> HIDE DEF R
<1>4. PICK x \in S : \A y \in S : ~ (<<y, x>> \in R)
  BY <1>2
<1>5. ASSUME NEW y \in S PROVE x <= y
  <2>1. x \in Nat /\ y \in Nat
    OBVIOUS
  <2>2. ~ (y < x)
    BY <1>3, <1>4, <2>1
  <2> QED BY <2>1, <2>2
<1> QED BY <1>5

\* So what holds of 0, and of n + 1 when it holds of n, holds of all numbers up to N.
LEMMA Induct ==
  ASSUME NEW N \in Nat, NEW S, 0 \in S, \A n \in 0 .. N : n < N /\ n \in S => n + 1 \in S
  PROVE  0 .. N \subseteq S
<1> SUFFICES ASSUME (0 .. N) \ S # {} PROVE FALSE
  OBVIOUS
<1> DEFINE T == (0 .. N) \ S
<1>0. T \subseteq Nat /\ T # {}
  OBVIOUS
<1>1. PICK n \in T : \A m \in T : n <= m
  <2> HIDE DEF T
  <2> QED BY <1>0, LeastOf
<1>2. n # 0
  OBVIOUS
<1>3. n - 1 \in 0 .. N /\ n - 1 \notin (0 .. N) \ S
  BY <1>1, <1>2
<1> QED BY <1>1, <1>3

AfterOf(f, plan, pins) ==
  f = [n \in 0 .. Len(plan) |-> IF n = 0 THEN Transaction ELSE Change(f[n - 1], plan[n], pins[n])]

LEMMA AppliedIs ==
  ASSUME NEW plan, NEW pins, Len(plan) \in Nat
  PROVE  \E f : AfterOf(f, plan, pins) /\ Applied(plan, pins) = f[Len(plan)]
<1> DEFINE after == CHOOSE f : f = [n \in 0 .. Len(plan) |-> IF n = 0 THEN Transaction ELSE Change(f[n - 1], plan[n], pins[n])]
<1>1. Applied(plan, pins) = after[Len(plan)]
  BY DEF Applied
<1>2. \E f : AfterOf(f, plan, pins)
  <2> DEFINE Part(f, N) == f = [n \in 0 .. N |-> IF n = 0 THEN Transaction ELSE Change(f[n - 1], plan[n], pins[n])]
  <2> DEFINE S == {N \in 0 .. Len(plan) : \E f : Part(f, N)}
  <2>1. 0 \in S
    <3>1. Part([n \in 0 .. 0 |-> Transaction], 0)
      OBVIOUS
    <3> HIDE DEF Part
    <3> QED BY <3>1
  <2>2. ASSUME NEW N \in 0 .. Len(plan), N < Len(plan), N \in S PROVE N + 1 \in S
    <3>1. PICK f : Part(f, N)
      BY <2>2
    <3> DEFINE g == [n \in 0 .. N + 1 |-> IF n = N + 1 THEN Change(f[N], plan[N + 1], pins[N + 1]) ELSE f[n]]
    <3>2. ASSUME NEW n \in 0 .. N + 1
          PROVE  g[n] = IF n = 0 THEN Transaction ELSE Change(g[n - 1], plan[n], pins[n])
      <4>1. CASE n = N + 1
        BY <4>1
      <4>2. CASE n \in 0 .. N
        <5>1. f[n] = IF n = 0 THEN Transaction ELSE Change(f[n - 1], plan[n], pins[n])
          BY <3>1, <4>2
        <5>2. n > 0 => g[n - 1] = f[n - 1]
          BY <4>2
        <5> QED BY <4>2, <5>1, <5>2
      <4> QED BY <4>1, <4>2
    <3>3. Part(g, N + 1)
      BY <3>2
    <3> HIDE DEF Part, g
    <3>4. N + 1 \in 0 .. Len(plan)
      BY <2>2
    <3> QED BY <3>3, <3>4
  <2>3. Len(plan) \in S
    <3> HIDE DEF S
    <3>1. \A n \in 0 .. Len(plan) : n < Len(plan) /\ n \in S => n + 1 \in S
      BY <2>2
    <3>2. 0 .. Len(plan) \subseteq S
      BY <2>1, <3>1, Induct
    <3> QED BY <3>2
  <2> QED BY <2>3 DEF AfterOf
<1>3. AfterOf(after, plan, pins)
  BY <1>2 DEF AfterOf
<1> QED BY <1>1, <1>3

----------------------------------------------------------------------------
(* One change of a plan. *)

\* What is recorded of a row's first change is the row as the transaction found it.
Recorded(made, n) ==
  \A m \in 1 .. n : (\A k \in 1 .. m - 1 : made[k].id # made[m].id) => made[m].before = task[made[m].id]

\* What a transaction has done after n changes of a plan, from the rows it found.
Good(st, plan, n) ==
  /\ st.next \in Nat /\ st.next >= nextTask
  /\ st.rows \in [TaskIds -> {NoTask} \cup TaskRow]
  /\ st.made \in Seq(Entry) /\ Len(st.made) = n
  /\ st.pins \in Seq(Pins) /\ Len(st.pins) = n
  /\ \A m \in 1 .. n : plan[m].op = "create" => st.pins[m] = InPlan
  /\ \A i \in st.created : \E m \in 1 .. n : plan[m].op = "create" /\ st.made[m].id = i
  /\ \A m \in 1 .. n : st.made[m].id < st.next
  /\ \A i \in TaskIds : i >= st.next => st.rows[i] = NoTask
  /\ \A i \in TaskIds : (\A m \in 1 .. n : st.made[m].id # i) => st.rows[i] = task[i]
  /\ \A m \in 1 .. n : LET i == st.made[m].id IN
       /\ (\A k \in m + 1 .. n : st.made[k].id # i) => st.rows[i] = st.made[m].after
       /\ st.rows[i] # NoTask
       /\ i < nextTask => task[i] # NoTask
       /\ task[i] # NoTask => task[i].version < st.rows[i].version
  /\ Recorded(st.made, n)

\* Each change so far is of the task its pin says, or of one the plan created.
Shown(made, plan, pins, n) ==
  \A m \in 1 .. n : \/ made[m].id = pins[m]
                    \/ pins[m] = InPlan /\ \E k \in 1 .. m : plan[k].op = "create" /\ made[k].id = made[m].id

Pinned(plan, pins) ==
  \A n \in 1 .. Len(plan) : pins[n] \in Pins /\ (plan[n].op = "create" => pins[n] = InPlan)

\* What a sequence has after Append.
LEMMA Appended ==
  ASSUME NEW S, NEW s \in Seq(S), NEW e \in S
  PROVE  /\ Append(s, e) \in Seq(S)
         /\ Len(Append(s, e)) = Len(s) + 1
         /\ Append(s, e)[Len(s) + 1] = e
         /\ \A n \in 1 .. Len(s) : Append(s, e)[n] = s[n]
OBVIOUS

\* Words name one row that is there.
LEMMA NamedIs ==
  ASSUME NEW rows, NEW ref, Named(rows, ref) # NoTask
  PROVE  Named(rows, ref) \in TaskIds /\ rows[Named(rows, ref)] # NoTask
<1> DEFINE called == {i \in TaskIds : rows[i] # NoTask /\ rows[i].title = ref}
<1>1. Cardinality(called) = 1
  BY DEF Named
<1>2. called # {}
  BY <1>1, FS_EmptySet
<1>3. Named(rows, ref) \in called
  BY <1>1, <1>2 DEF Named
<1> QED BY <1>3

\* A change is of a row that is there: of the pinned one, or of one its plan created.
LEMMA ResolvedIs ==
  ASSUME NEW st, NEW c, NEW pin, Resolved(st, c, pin) # NoTask
  PROVE  /\ Resolved(st, c, pin) \in TaskIds
         /\ st.rows[Resolved(st, c, pin)] # NoTask
         /\ pin \in Pins => \/ Resolved(st, c, pin) = pin
                            \/ pin = InPlan /\ Resolved(st, c, pin) \in st.created
<1>1. CASE pin \in TaskIds
  <2>1. pin # InPlan
    BY <1>1 DEF InPlan, TaskIds
  <2> QED BY <1>1, <2>1 DEF Resolved
<1>2. CASE pin \notin TaskIds
  <2>1. Resolved(st, c, pin) = Named(st.rows, c.ref)
    BY <1>2 DEF Resolved
  <2>2. pin = InPlan => Named(st.rows, c.ref) \in st.created
    BY <1>2, <2>1 DEF Resolved
  <2> QED BY <1>2, <2>1, <2>2, NamedIs DEF Pins
<1> QED BY <1>1, <1>2

\* What a change makes of the row.
RowOf(st, c, i) ==
  IF c.op = "create" THEN [title |-> c.title, status |-> c.status, version |-> 1]
  ELSE [title |-> Same(c.title, st.rows[i].title), status |-> Same(c.status, st.rows[i].status),
        version |-> st.rows[i].version + 1]

LEMMA RowType ==
  ASSUME NEW st, NEW c \in Changes, NEW i \in TaskIds, st.rows \in [TaskIds -> {NoTask} \cup TaskRow],
         c.op # "create" => st.rows[i] # NoTask
  PROVE  /\ RowOf(st, c, i) \in TaskRow
         /\ c.op # "create" => RowOf(st, c, i).version = st.rows[i].version + 1
<1>1. CASE c.op = "create"
  <2>1. c.title \in Titles /\ c.status \in Statuses
    BY <1>1 DEF Changes
  <2> QED BY <1>1, <2>1 DEF RowOf, TaskRow
<1>2. CASE c.op # "create"
  <2>1. c.title \in Titles \cup {"same"} /\ c.status \in Statuses \cup {"same"}
    BY <1>2 DEF Changes
  <2>2. st.rows[i] \in TaskRow
    BY <1>2
  <2>3. Same(c.title, st.rows[i].title) \in Titles /\ Same(c.status, st.rows[i].status) \in Statuses
    BY <2>1, <2>2 DEF Same, TaskRow
  <2>4. st.rows[i].version + 1 \in Nat
    BY <2>2 DEF TaskRow
  <2> QED BY <1>2, <2>3, <2>4 DEF RowOf, TaskRow
<1> QED BY <1>1, <1>2

Whole(st) ==
  st = [ok |-> st.ok, rows |-> st.rows, next |-> st.next, created |-> st.created, pins |-> st.pins, made |-> st.made]

Target(st, c, pin) == IF c.op = "create" THEN st.next ELSE Resolved(st, c, pin)
Before(st, c, i) == IF c.op = "create" THEN NoTask ELSE st.rows[i]

\* A change of row i that went well.
Outcome(new, st, c, i) ==
  /\ st.ok /\ i # NoTask
  /\ new.rows = [j \in TaskIds |-> IF j = i THEN RowOf(st, c, i) ELSE st.rows[j]]
  /\ new.next = IF c.op = "create" THEN st.next + 1 ELSE st.next
  /\ new.created = IF c.op = "create" THEN st.created \cup {i} ELSE st.created
  /\ new.pins = Append(st.pins, IF i \in st.created \/ c.op = "create" THEN InPlan ELSE i)
  /\ new.made = Append(st.made, [id |-> i, before |-> Before(st, c, i), after |-> RowOf(st, c, i)])

LEMMA ChangeIs ==
  ASSUME NEW st, NEW c, NEW pin, Whole(st)
  PROVE  LET new == Change(st, c, pin)
             i == Target(st, c, pin)
         IN /\ Whole(new)
            /\ new.ok => Outcome(new, st, c, i)
<1> DEFINE new == Change(st, c, pin)
           i == Target(st, c, pin)
<1>1. CASE ~st.ok \/ i = NoTask
  <2>1. new = [st EXCEPT !.ok = FALSE]
    BY <1>1 DEF Change, Target
  <2>2. new = [ok |-> FALSE, rows |-> st.rows, next |-> st.next, created |-> st.created, pins |-> st.pins, made |-> st.made]
    BY <2>1 DEF Whole
  <2> HIDE DEF new, i
  <2>3. Whole(new) /\ ~new.ok
    BY <2>2 DEF Whole
  <2> QED BY <2>3 DEF new
<1>2. CASE st.ok /\ i # NoTask
  <2>1. new = [ok |-> TRUE,
               rows |-> [j \in TaskIds |-> IF j = i THEN RowOf(st, c, i) ELSE st.rows[j]],
               next |-> IF c.op = "create" THEN st.next + 1 ELSE st.next,
               created |-> IF c.op = "create" THEN st.created \cup {i} ELSE st.created,
               pins |-> Append(st.pins, IF i \in st.created \/ c.op = "create" THEN InPlan ELSE i),
               made |-> Append(st.made, [id |-> i, before |-> Before(st, c, i), after |-> RowOf(st, c, i)])]
    BY <1>2 DEF Change, Target, RowOf, Before
  <2> HIDE DEF new, i
  <2>2. Whole(new)
    BY <2>1 DEF Whole
  <2>3. Outcome(new, st, c, i)
    BY <1>2, <2>1 DEF Outcome
  <2> QED BY <2>2, <2>3 DEF new, i
<1> QED BY <1>1, <1>2

\* One more change of the plan.
LEMMA ChangeStep ==
  ASSUME LedgerTypeOK, \A i \in TaskIds : i >= nextTask => task[i] = NoTask,
         NEW plan \in Seq(Changes), NEW pins, NEW n \in Nat, n < Len(plan),
         NEW st, Whole(st), Good(st, plan, n),
         Change(st, plan[n + 1], pins[n + 1]).ok, Change(st, plan[n + 1], pins[n + 1]).next <= MaxTasks + 1
  PROVE  LET new == Change(st, plan[n + 1], pins[n + 1]) IN
           /\ Good(new, plan, n + 1)
           /\ Pinned(plan, pins) /\ Shown(st.made, plan, pins, n) => Shown(new.made, plan, pins, n + 1)
<1> DEFINE c == plan[n + 1]
           pin == pins[n + 1]
           new == Change(st, c, pin)
           i == Target(st, c, pin)
           row == RowOf(st, c, i)
           entry == [id |-> i, before |-> Before(st, c, i), after |-> row]
           newPin == IF i \in st.created \/ c.op = "create" THEN InPlan ELSE i
<1>0. plan \in Seq(Changes) /\ Len(plan) \in Nat /\ c \in Changes
  <2>1. Len(plan) \in Nat /\ n + 1 \in 1 .. Len(plan)
    OBVIOUS
  <2> QED BY <2>1
<1>1. /\ st.ok /\ i # NoTask
      /\ new.rows = [j \in TaskIds |-> IF j = i THEN row ELSE st.rows[j]]
      /\ new.next = IF c.op = "create" THEN st.next + 1 ELSE st.next
      /\ new.created = IF c.op = "create" THEN st.created \cup {i} ELSE st.created
      /\ new.pins = Append(st.pins, newPin)
      /\ new.made = Append(st.made, entry)
  <2>1. Change(st, c, pin).ok
    OBVIOUS
  <2>2. Outcome(Change(st, c, pin), st, c, Target(st, c, pin))
    <3> HIDE DEF c, pin
    <3> QED BY <2>1, ChangeIs
  <2> QED BY <2>2 DEF Outcome
<1>2. nextTask \in Nat /\ nextTask >= 1 /\ MaxTasks \in Nat
  BY LedgerConstants DEF LedgerTypeOK
<1>3. /\ st.next \in Nat /\ st.next >= nextTask /\ st.next \in Nat
      /\ st.rows \in [TaskIds -> {NoTask} \cup TaskRow]
      /\ st.made \in Seq(Entry) /\ Len(st.made) = n
      /\ st.pins \in Seq(Pins) /\ Len(st.pins) = n
  BY DEF Good
<1>4. /\ i \in TaskIds
      /\ c.op # "create" => st.rows[i] # NoTask /\ i < st.next
      /\ i < new.next
  <2>1. CASE c.op = "create"
    <3>1. i = st.next
      BY <2>1 DEF Target
    <3>2. new.next = st.next + 1
      BY <1>1, <2>1
    <3>3. new.next <= MaxTasks + 1
      OBVIOUS
    <3> HIDE DEF c, new, i
    <3> QED BY <1>2, <1>3, <2>1, <3>1, <3>2, <3>3 DEF TaskIds
  <2>2. CASE c.op # "create"
    <3>1. i \in TaskIds /\ st.rows[i] # NoTask
      BY <1>1, <2>2, ResolvedIs DEF Target
    <3>2. ~(i >= st.next)
      BY <3>1 DEF Good
    <3> QED BY <1>1, <1>3, <2>2, <3>1, <3>2 DEF TaskIds
  <2> QED BY <2>1, <2>2
<1>5. /\ row \in TaskRow
      /\ c.op # "create" => row.version = st.rows[i].version + 1
  BY <1>0, <1>3, <1>4, RowType
<1>6. entry \in Entry
  <2>1. Before(st, c, i) \in {NoTask} \cup TaskRow
    BY <1>3, <1>4 DEF Before
  <2> QED BY <1>4, <1>5, <2>1 DEF Entry
<1>7. newPin \in Pins
  BY <1>4 DEF Pins
<1>8. /\ new.made \in Seq(Entry) /\ Len(new.made) = n + 1 /\ new.made[n + 1] = entry
      /\ \A m \in 1 .. n : new.made[m] = st.made[m]
  BY <1>1, <1>3, <1>6, Appended
<1>9. /\ new.pins \in Seq(Pins) /\ Len(new.pins) = n + 1 /\ new.pins[n + 1] = newPin
      /\ \A m \in 1 .. n : new.pins[m] = st.pins[m]
  BY <1>1, <1>3, <1>7, Appended
<1>10. entry.id = i /\ entry.after = row
  OBVIOUS
<1>11. row # NoTask /\ \A j \in TaskIds : j \in Nat
  BY <1>5, LedgerConstants DEF TaskIds
<1>12. \A m \in 1 .. n : st.made[m].id \in TaskIds
  <2>1. \A m \in 1 .. n : st.made[m] \in Entry
    BY <1>3
  <2> QED BY <2>1 DEF Entry
<1>13. \A m \in 1 .. n + 1 : m = n + 1 \/ m \in 1 .. n
  OBVIOUS
<1>14. /\ new.rows \in [TaskIds -> {NoTask} \cup TaskRow]
       /\ new.rows[i] = row /\ \A j \in TaskIds \ {i} : new.rows[j] = st.rows[j]
  BY <1>1, <1>3, <1>4, <1>5
<1>15. new.next \in Nat /\ new.next >= st.next /\ new.next >= nextTask
  BY <1>1, <1>2, <1>3
<1>16. \A m \in 1 .. n + 1 : plan[m].op = "create" => new.pins[m] = InPlan
  BY <1>9, <1>13 DEF Good
<1>17. \A j \in new.created : \E m \in 1 .. n + 1 : plan[m].op = "create" /\ new.made[m].id = j
  <2> SUFFICES ASSUME NEW j \in new.created
               PROVE  \E m \in 1 .. n + 1 : plan[m].op = "create" /\ new.made[m].id = j
    OBVIOUS
  <2>1. CASE j \in st.created
    <3>1. PICK m \in 1 .. n : plan[m].op = "create" /\ st.made[m].id = j
      BY <2>1 DEF Good
    <3> QED BY <1>8, <3>1
  <2>2. CASE j \notin st.created
    <3>1. c.op = "create" /\ j = i
      BY <1>1, <2>2
    <3> QED BY <1>8, <1>10, <3>1
  <2> QED BY <2>1, <2>2
<1>18. \A m \in 1 .. n + 1 : new.made[m].id < new.next
  <2>1. \A m \in 1 .. n : st.made[m].id < st.next
    BY DEF Good
  <2> HIDE DEF entry, i, row, newPin, new, c, pin
  <2> QED BY SMTT(30), <1>3, <1>4, <1>8, <1>10, <1>11, <1>12, <1>13, <1>15, <2>1
<1>19. \A j \in TaskIds : j >= new.next => new.rows[j] = NoTask
  <2>1. \A j \in TaskIds : j >= st.next => st.rows[j] = NoTask
    BY DEF Good
  <2> HIDE DEF entry, i, row, newPin, new, c, pin
  <2> QED BY <1>3, <1>4, <1>11, <1>14, <1>15, <2>1
<1>20. \A j \in TaskIds : (\A m \in 1 .. n + 1 : new.made[m].id # j) => new.rows[j] = task[j]
  <2> SUFFICES ASSUME NEW j \in TaskIds, \A m \in 1 .. n + 1 : new.made[m].id # j PROVE new.rows[j] = task[j]
    OBVIOUS
  <2>1. j # i
    BY <1>8, <1>10, <1>3
  <2>2. ASSUME NEW m \in 1 .. n PROVE st.made[m].id # j
    <3>1. m \in 1 .. n + 1 /\ new.made[m] = st.made[m]
      BY <1>8
    <3> QED BY <3>1
  <2> QED BY <1>14, <2>1, <2>2 DEF Good
<1>21. ASSUME NEW m \in 1 .. n + 1
       PROVE  LET j == new.made[m].id IN
                /\ (\A k \in m + 1 .. n + 1 : new.made[k].id # j) => new.rows[j] = new.made[m].after
                /\ new.rows[j] # NoTask
                /\ j < nextTask => task[j] # NoTask
                /\ task[j] # NoTask => task[j].version < new.rows[j].version
  <2> DEFINE j == new.made[m].id
  <2>1. CASE j = i
    <3>1. (\A k \in m + 1 .. n + 1 : new.made[k].id # j) => m = n + 1
      BY <1>8, <1>10, <2>1
    <3>2. task[j] # NoTask => task[j].version < row.version
      <4> SUFFICES ASSUME task[i] # NoTask PROVE task[i].version < row.version
        BY <2>1
      <4>1. task[i] \in TaskRow
        BY <1>4 DEF LedgerTypeOK
      <4>2. c.op # "create"
        <5>1. i < nextTask
          BY <1>2, <1>4, <1>11
        <5> QED BY <1>1, <1>3, <1>2, <5>1 DEF Target
      <4>3. st.rows[i] \in TaskRow /\ row.version = st.rows[i].version + 1
        BY <1>3, <1>4, <1>5, <4>2
      <4>4. task[i].version <= st.rows[i].version
        <5>1. CASE \A k \in 1 .. n : st.made[k].id # i
          <6>1. st.rows[i] = task[i]
            BY <1>4, <5>1 DEF Good
          <6> QED BY <4>1, <6>1 DEF TaskRow
        <5>2. CASE \E k \in 1 .. n : st.made[k].id = i
          <6>1. task[i].version < st.rows[i].version
            BY <5>2 DEF Good
          <6> QED BY <4>1, <4>3, <6>1 DEF TaskRow
        <5> QED BY <5>1, <5>2
      <4> QED BY <4>1, <4>3, <4>4 DEF TaskRow
    <3>3. ASSUME i < nextTask PROVE task[i] # NoTask
      <4>1. c.op # "create"
        BY <1>1, <1>2, <1>3, <3>3 DEF Target
      <4>2. CASE \A k \in 1 .. n : st.made[k].id # i
        BY <1>4, <4>1, <4>2 DEF Good
      <4>3. CASE \E k \in 1 .. n : st.made[k].id = i
        BY <3>3, <4>3 DEF Good
      <4> QED BY <4>2, <4>3
    <3> QED BY <1>8, <1>10, <1>11, <1>14, <2>1, <3>1, <3>2, <3>3
  <2>2. CASE j # i
    <3>1. m \in 1 .. n /\ j = st.made[m].id /\ new.made[m] = st.made[m]
      BY <1>8, <1>10, <2>2
    <3>2. j \in TaskIds /\ new.rows[j] = st.rows[j]
      BY <1>12, <1>14, <2>2, <3>1
    <3>3. ASSUME \A k \in m + 1 .. n + 1 : new.made[k].id # j, NEW k \in m + 1 .. n PROVE st.made[k].id # j
      <4>1. k \in m + 1 .. n + 1 /\ k \in 1 .. n
        BY <3>1
      <4>2. new.made[k] = st.made[k]
        BY <1>8, <4>1
      <4> QED BY <3>3, <4>1, <4>2
    <3>4. /\ (\A k \in m + 1 .. n : st.made[k].id # j) => st.rows[j] = st.made[m].after
          /\ st.rows[j] # NoTask
          /\ j < nextTask => task[j] # NoTask
          /\ task[j] # NoTask => task[j].version < st.rows[j].version
      BY <3>1 DEF Good
    <3> QED BY <3>1, <3>2, <3>3, <3>4
  <2> QED BY <2>1, <2>2
<1>24. Recorded(new.made, n + 1)
  <2> SUFFICES ASSUME NEW m \in 1 .. n + 1, \A k \in 1 .. m - 1 : new.made[k].id # new.made[m].id
               PROVE  new.made[m].before = task[new.made[m].id]
    BY DEF Recorded
  <2>1. CASE m = n + 1
    <3>1. \A k \in 1 .. n : st.made[k].id # i
      BY <1>8, <1>10, <2>1
    <3>2. new.made[m].id = i /\ new.made[m].before = Before(st, c, i)
      BY <1>8, <2>1
    <3>3. st.rows[i] = task[i]
      BY <1>4, <3>1 DEF Good
    <3>4. CASE c.op = "create"
      <4>1. i = st.next /\ i >= nextTask
        BY <1>3, <3>4 DEF Target
      <4> QED BY <1>4, <3>2, <3>4, <4>1 DEF Before
    <3>5. CASE c.op # "create"
      BY <3>2, <3>3, <3>5 DEF Before
    <3> QED BY <3>4, <3>5
  <2>2. CASE m \in 1 .. n
    <3>1. \A k \in 1 .. m : new.made[k] = st.made[k]
      BY <1>8, <2>2
    <3>2. \A k \in 1 .. m - 1 : st.made[k].id # st.made[m].id
      BY <2>2, <3>1
    <3>3. st.made[m].before = task[st.made[m].id]
      BY <2>2, <3>2 DEF Good, Recorded
    <3> QED BY <2>2, <3>1, <3>3
  <2> QED BY <1>13, <2>1, <2>2
<1>22. Good(new, plan, n + 1)
  <2> HIDE DEF new
  <2> QED BY <1>8, <1>9, <1>14, <1>15, <1>16, <1>17, <1>18, <1>19, <1>20, <1>21, <1>24 DEF Good
<1>23. ASSUME Pinned(plan, pins), Shown(st.made, plan, pins, n) PROVE Shown(new.made, plan, pins, n + 1)
  <2> SUFFICES ASSUME NEW m \in 1 .. n + 1
               PROVE  \/ new.made[m].id = pins[m]
                      \/ pins[m] = InPlan /\ \E k \in 1 .. m : plan[k].op = "create" /\ new.made[k].id = new.made[m].id
    BY DEF Shown
  <2>1. CASE m \in 1 .. n
    <3>1. \A k \in 1 .. m : new.made[k] = st.made[k]
      BY <1>8, <2>1
    <3>2. \/ st.made[m].id = pins[m]
          \/ pins[m] = InPlan /\ \E k \in 1 .. m : plan[k].op = "create" /\ st.made[k].id = st.made[m].id
      BY <1>23, <2>1 DEF Shown
    <3> QED BY <2>1, <3>1, <3>2
  <2>2. CASE m = n + 1
    <3>1. pin \in Pins /\ (c.op = "create" => pin = InPlan)
      <4>1. n + 1 \in 1 .. Len(plan)
        BY <1>0
      <4> QED BY <1>23, <4>1 DEF Pinned
    <3>2. new.made[m].id = i
      BY <1>8, <1>10, <2>2
    <3>3. CASE c.op = "create"
      BY <2>2, <3>1, <3>3
    <3>4. CASE c.op # "create"
      <4>1. i = pin \/ (pin = InPlan /\ i \in st.created)
        BY <1>1, <3>1, <3>4, ResolvedIs DEF Target
      <4>2. i \in st.created => \E k \in 1 .. n : plan[k].op = "create" /\ st.made[k].id = i
        BY DEF Good
      <4> QED BY <1>8, <2>2, <3>2, <4>1, <4>2
    <3> QED BY <3>3, <3>4
  <2> QED BY <1>13, <2>1, <2>2
<1> QED BY <1>22, <1>23

\* A plan that was applied.
LEMMA AppliedGood ==
  ASSUME LedgerTypeOK, \A i \in TaskIds : i >= nextTask => task[i] = NoTask,
         NEW plan \in Seq(Changes), NEW pins, Applied(plan, pins).ok, Fits(Applied(plan, pins))
  PROVE  /\ Good(Applied(plan, pins), plan, Len(plan))
         /\ Pinned(plan, pins) => Shown(Applied(plan, pins).made, plan, pins, Len(plan))
<1>1. PICK f : AfterOf(f, plan, pins) /\ Applied(plan, pins) = f[Len(plan)]
  <2>1. Len(plan) \in Nat
    OBVIOUS
  <2> QED BY <2>1, AppliedIs
<1> DEFINE Fine(st, n) ==
             /\ Whole(st)
             /\ st.ok => /\ st.next \in Nat
                         /\ st.next <= MaxTasks + 1 =>
                              /\ Good(st, plan, n)
                              /\ Pinned(plan, pins) => Shown(st.made, plan, pins, n)
           S == {n \in 0 .. Len(plan) : Fine(f[n], n)}
<1>2. Len(plan) \in Nat /\ MaxTasks \in Nat /\ nextTask \in Nat
  BY LedgerConstants DEF LedgerTypeOK
<1>3. 0 \in S
  <2>1. f[0] = Transaction
    BY <1>1, <1>2 DEF AfterOf
  <2>2. Whole(Transaction)
    BY DEF Whole, Transaction
  <2>3. Good(Transaction, plan, 0)
    BY <1>2 DEF Good, Recorded, Transaction, LedgerTypeOK
  <2>4. Shown(Transaction.made, plan, pins, 0)
    BY DEF Shown
  <2>5. Transaction.next \in Nat
    BY <1>2 DEF Transaction
  <2> QED BY <1>2, <2>1, <2>2, <2>3, <2>4, <2>5
<1>4. ASSUME NEW n \in 0 .. Len(plan), n < Len(plan), n \in S PROVE n + 1 \in S
  <2> DEFINE st == f[n]
             new == f[n + 1]
  <2>1. n + 1 \in 0 .. Len(plan) /\ n \in Nat /\ n + 1 # 0 /\ n + 1 - 1 = n
    BY <1>2, <1>4
  <2>2. new = Change(st, plan[n + 1], pins[n + 1])
    BY <1>1, <2>1 DEF AfterOf
  <2>3. Fine(st, n)
    BY <1>4
  <2>4. Whole(new) /\ (new.ok => Outcome(new, st, plan[n + 1], Target(st, plan[n + 1], pins[n + 1])))
    BY <2>2, <2>3, ChangeIs
  <2> HIDE DEF st, new
  <2>5. ASSUME new.ok PROVE st.ok /\ new.next \in Nat /\ st.next <= new.next
    <3>1. st.ok /\ new.next = IF plan[n + 1].op = "create" THEN st.next + 1 ELSE st.next
      BY <2>4, <2>5 DEF Outcome
    <3>2. st.next \in Nat
      BY <2>3, <3>1
    <3> QED BY <3>1, <3>2
  <2>6. ASSUME new.ok, new.next <= MaxTasks + 1
        PROVE  Good(new, plan, n + 1) /\ (Pinned(plan, pins) => Shown(new.made, plan, pins, n + 1))
    <3>1. st.ok /\ st.next \in Nat /\ st.next <= MaxTasks + 1
      BY <1>2, <2>3, <2>5, <2>6
    <3>2. Good(st, plan, n) /\ (Pinned(plan, pins) => Shown(st.made, plan, pins, n)) /\ Whole(st)
      BY <2>3, <3>1
    <3> QED BY <1>4, <2>1, <2>2, <2>6, <3>2, ChangeStep
  <2>7. Fine(new, n + 1)
    BY <2>4, <2>5, <2>6
  <2> QED BY <2>1, <2>7 DEF new
<1>5. Len(plan) \in S
  <2> HIDE DEF S
  <2>1. \A n \in 0 .. Len(plan) : n < Len(plan) /\ n \in S => n + 1 \in S
    BY <1>4
  <2>2. 0 .. Len(plan) \subseteq S
    BY <1>2, <1>3, <2>1, Induct
  <2> QED BY <1>2, <2>2
<1> QED BY <1>1, <1>5 DEF Fits

----------------------------------------------------------------------------
(* Writes, and their undo. *)

\* The place of the last change of a write to a row.
LastPlace(s, i) ==
  CHOOSE n \in 1 .. Len(s) : s[n].id = i /\ \A m \in n + 1 .. Len(s) : s[m].id # i

LEMMA LastPlaceIs ==
  ASSUME NEW s \in Seq(Entry), NEW i \in {s[n].id : n \in 1 .. Len(s)}
  PROVE  /\ LastPlace(s, i) \in 1 .. Len(s) /\ s[LastPlace(s, i)].id = i
         /\ \A m \in LastPlace(s, i) + 1 .. Len(s) : s[m].id # i
<1> DEFINE L == Len(s)
           P(n) == s[n].id = i /\ \A m \in n + 1 .. L : s[m].id # i
           S == {k \in 0 .. L : \E n \in 1 .. L : s[n].id = i /\ k = L - n}
<1>1. L \in Nat
  OBVIOUS
<1>2. S \subseteq Nat /\ S # {}
  <2>1. PICK n \in 1 .. L : s[n].id = i
    OBVIOUS
  <2>2. L - n \in S
    BY <1>1, <2>1
  <2>3. S \subseteq Nat
    BY <1>1
  <2> HIDE DEF S
  <2> QED BY <2>2, <2>3
<1>3. PICK k \in S : \A m \in S : k <= m
  <2> HIDE DEF S
  <2> QED BY <1>2, LeastOf
<1>4. PICK n \in 1 .. L : s[n].id = i /\ k = L - n
  OBVIOUS
<1>5. ASSUME NEW m \in n + 1 .. L PROVE s[m].id # i
  <2>1. m \in 1 .. L /\ L - m \in 0 .. L /\ ~(k <= L - m)
    BY <1>1, <1>4
  <2>2. L - m \notin S
    BY <1>3, <2>1
  <2> QED BY <2>1, <2>2
<1>6. \E x \in 1 .. L : P(x)
  BY <1>4, <1>5
<1>7. (CHOOSE x \in 1 .. L : P(x)) \in 1 .. L /\ P(CHOOSE x \in 1 .. L : P(x))
  <2> HIDE DEF P
  <2> QED BY <1>6
<1> QED BY <1>7 DEF LastPlace

LEMMA LastIs ==
  ASSUME NEW g, wrote[g] \in Seq(Entry), NEW i \in Touched(g)
  PROVE  \E n \in 1 .. Len(wrote[g]) : /\ LastOf(g, i) = wrote[g][n] /\ wrote[g][n].id = i
                                       /\ \A m \in n + 1 .. Len(wrote[g]) : wrote[g][m].id # i
<1>1. i \in {wrote[g][n].id : n \in 1 .. Len(wrote[g])} /\ LastOf(g, i) = wrote[g][LastPlace(wrote[g], i)]
  BY DEF Touched, LastOf, LastPlace
<1> QED BY <1>1, LastPlaceIs

\* What was written before is still told apart from what a plan that is applied changes.
LEMMA CommitGrown ==
  ASSUME LedgerTypeOK, GrownInv, NEW plan \in Seq(Changes), NEW pins, NEW who,
         Applied(plan, pins).ok, Fits(Applied(plan, pins)), Commit(Applied(plan, pins), who),
         NEW h \in Grants, wrote'[h] = wrote[h], NEW i \in Touched(h)
  PROVE  /\ Touched(h)' = Touched(h) /\ LastOf(h, i)' = LastOf(h, i) /\ i < nextTask'
         /\ task'[i] # NoTask => LastOf(h, i).after.version <= task'[i].version
         /\ task'[i] # NoTask /\ LastOf(h, i).after.version = task'[i].version =>
              lastBy'[i] = h /\ task'[i] = LastOf(h, i).after
<1> DEFINE st == Applied(plan, pins)
<1>1. Good(st, plan, Len(plan)) /\ task' = st.rows /\ nextTask' = st.next
  BY AppliedGood DEF GrownInv, Commit
<1>2. wrote[h] \in Seq(Entry) /\ nextTask \in Nat
  BY LedgerConstants DEF LedgerTypeOK
<1>3. i \in TaskIds /\ LastOf(h, i) \in Entry
  <2>1. PICK n \in 1 .. Len(wrote[h]) : LastOf(h, i) = wrote[h][n] /\ wrote[h][n].id = i
    BY <1>2, LastIs
  <2>2. wrote[h][n] \in Entry
    BY <1>2
  <2> QED BY <2>1, <2>2 DEF Entry
<1>4. /\ i < nextTask
      /\ task[i] # NoTask => LastOf(h, i).after.version <= task[i].version
      /\ task[i] # NoTask /\ LastOf(h, i).after.version = task[i].version =>
           lastBy[i] = h /\ task[i] = LastOf(h, i).after
  BY DEF GrownInv
<1>5. Touched(h)' = Touched(h) /\ LastOf(h, i)' = LastOf(h, i)
  BY DEF Touched, LastOf
<1>6. i < nextTask'
  BY <1>1, <1>2, <1>3, <1>4 DEF Good, TaskIds
<1>7. Len(st.made) = Len(plan) /\ lastBy'[i] = IF \E n \in 1 .. Len(st.made) : st.made[n].id = i THEN who ELSE lastBy[i]
  BY <1>1, <1>3 DEF Commit, Good
<1>8. CASE \E n \in 1 .. Len(plan) : st.made[n].id = i
  <2>1. task[i] # NoTask /\ task'[i] # NoTask /\ task[i].version < task'[i].version
    BY <1>1, <1>4, <1>8 DEF Good
  <2>2. task[i] \in TaskRow /\ task'[i] \in TaskRow
    BY <1>1, <1>3, <2>1 DEF Good, LedgerTypeOK
  <2>3. LastOf(h, i).after.version \in Nat /\ task[i].version \in Nat /\ task'[i].version \in Nat
    BY <1>3, <2>2 DEF Entry, TaskRow
  <2> QED BY <1>4, <1>5, <1>6, <2>1, <2>3
<1>9. CASE \A n \in 1 .. Len(plan) : st.made[n].id # i
  <2>1. task'[i] = task[i]
    BY <1>1, <1>3, <1>9 DEF Good
  <2>2. lastBy'[i] = lastBy[i]
    BY <1>7, <1>9
  <2> QED BY <1>4, <1>5, <1>6, <2>1, <2>2
<1> QED BY <1>8, <1>9

\* The place of the first change of a write to a row.
FirstPlace(s, i) ==
  CHOOSE n \in 1 .. Len(s) : s[n].id = i /\ \A m \in 1 .. n - 1 : s[m].id # i

LEMMA FirstPlaceIs ==
  ASSUME NEW s \in Seq(Entry), NEW i \in {s[n].id : n \in 1 .. Len(s)}
  PROVE  /\ FirstPlace(s, i) \in 1 .. Len(s) /\ s[FirstPlace(s, i)].id = i
         /\ \A m \in 1 .. FirstPlace(s, i) - 1 : s[m].id # i
<1> DEFINE L == Len(s)
           P(n) == s[n].id = i /\ \A m \in 1 .. n - 1 : s[m].id # i
           S == {n \in 1 .. L : s[n].id = i}
<1>1. L \in Nat
  OBVIOUS
<1>2. S \subseteq Nat /\ S # {}
  BY <1>1
<1>3. PICK n \in S : \A m \in S : n <= m
  <2> HIDE DEF S
  <2> QED BY <1>2, LeastOf
<1>4. ASSUME NEW m \in 1 .. n - 1 PROVE s[m].id # i
  <2>1. m \in 1 .. L /\ ~(n <= m)
    BY <1>1, <1>3
  <2> QED BY <1>3, <2>1
<1>5. \E x \in 1 .. L : P(x)
  BY <1>4
<1>6. (CHOOSE x \in 1 .. L : P(x)) \in 1 .. L /\ P(CHOOSE x \in 1 .. L : P(x))
  <2> HIDE DEF P
  <2> QED BY <1>5
<1> QED BY <1>6 DEF FirstPlace

LEMMA FirstIs ==
  ASSUME NEW g, wrote[g] \in Seq(Entry), NEW i \in Touched(g)
  PROVE  FirstOf(g, i) \in Entry
<1>1. i \in {wrote[g][n].id : n \in 1 .. Len(wrote[g])} /\ FirstOf(g, i) = wrote[g][FirstPlace(wrote[g], i)]
  BY DEF Touched, FirstOf, FirstPlace
<1>2. FirstPlace(wrote[g], i) \in 1 .. Len(wrote[g])
  BY <1>1, FirstPlaceIs
<1> QED BY <1>1, <1>2

\* Undoing n of several writes.
Undone(st, g) ==
  IF g \in undone THEN st
  ELSE IF st.ok /\ AsLeft(st.rows, g) THEN [st EXCEPT !.rows = PutBack(st.rows, g)]
  ELSE [st EXCEPT !.ok = FALSE]
UndoneOf(f, writes) ==
  f = [n \in 0 .. Len(writes) |-> IF n = 0 THEN [ok |-> TRUE, rows |-> task]
                                  ELSE Undone(f[n - 1], writes[Len(writes) + 1 - n])]

LEMMA RevertedIs ==
  ASSUME NEW writes, Len(writes) \in Nat
  PROVE  \E f : UndoneOf(f, writes) /\ Reverted(writes) = f[Len(writes)]
<1> DEFINE L == Len(writes)
           start == [ok |-> TRUE, rows |-> task]
           after == CHOOSE f : UndoneOf(f, writes)
<1>1. Reverted(writes) = after[L]
  BY DEF Reverted, Undone, UndoneOf
<1>2. \E f : UndoneOf(f, writes)
  <2> DEFINE Part(f, N) == f = [n \in 0 .. N |-> IF n = 0 THEN start ELSE Undone(f[n - 1], writes[L + 1 - n])]
             S == {N \in 0 .. L : \E f : Part(f, N)}
  <2>1. 0 \in S
    <3>1. Part([n \in 0 .. 0 |-> start], 0)
      OBVIOUS
    <3> HIDE DEF Part
    <3> QED BY <3>1
  <2>2. ASSUME NEW N \in 0 .. L, N < L, N \in S PROVE N + 1 \in S
    <3>1. PICK f : Part(f, N)
      BY <2>2
    <3> DEFINE h == [n \in 0 .. N + 1 |-> IF n = N + 1 THEN Undone(f[N], writes[L + 1 - (N + 1)]) ELSE f[n]]
    <3>2. ASSUME NEW n \in 0 .. N + 1
          PROVE  h[n] = IF n = 0 THEN start ELSE Undone(h[n - 1], writes[L + 1 - n])
      <4>1. CASE n = N + 1
        BY <4>1
      <4>2. CASE n \in 0 .. N
        <5>1. f[n] = IF n = 0 THEN start ELSE Undone(f[n - 1], writes[L + 1 - n])
          BY <3>1, <4>2
        <5>2. n > 0 => h[n - 1] = f[n - 1]
          BY <4>2
        <5> QED BY <4>2, <5>1, <5>2
      <4> QED BY <4>1, <4>2
    <3>3. Part(h, N + 1)
      BY <3>2
    <3> HIDE DEF Part, h
    <3>4. N + 1 \in 0 .. L
      BY <2>2
    <3> QED BY <3>3, <3>4
  <2>3. L \in S
    <3> HIDE DEF S
    <3>1. \A n \in 0 .. L : n < L /\ n \in S => n + 1 \in S
      BY <2>2
    <3>2. 0 .. L \subseteq S
      BY <2>1, <3>1, Induct
    <3> QED BY <3>2
  <2> QED BY <2>3 DEF UndoneOf
<1>3. UndoneOf(after, writes)
  BY <1>2
<1> QED BY <1>1, <1>3

\* A row as a write found it, but for its version.
Restored(row, g, i) ==
  LET before == FirstOf(g, i).before IN
  IF before = NoTask THEN row = NoTask
  ELSE row # NoTask /\ row.title = before.title /\ row.status = before.status

\* What an undo has taken back after n of its writes.
Processed(writes, n) == {writes[Len(writes) + 1 - k] : k \in 1 .. n} \ undone

\* A row as it is, or one that a write in writes was the last to change.
TakenBack(rows, writes, i) ==
  \/ rows[i] = task[i]
  \/ /\ task[i] # NoTask /\ lastBy[i] \in Pending(writes)
     /\ rows[i] # NoTask => task[i].version < rows[i].version

LEMMA PutBackGood ==
  ASSUME LedgerTypeOK, GrownInv, NEW writes \in Seq(Grants), NEW g \in Pending(writes),
         NEW rows \in [TaskIds -> {NoTask} \cup TaskRow], AsLeft(rows, g),
         \A i \in TaskIds : TakenBack(rows, writes, i)
  PROVE  /\ PutBack(rows, g) \in [TaskIds -> {NoTask} \cup TaskRow]
         /\ \A i \in TaskIds : TakenBack(PutBack(rows, g), writes, i)
         /\ \A i \in TaskIds : i \in Touched(g) => /\ rows[i] = task[i] /\ PutBack(rows, g)[i] # task[i]
                                                /\ Restored(PutBack(rows, g)[i], g, i)
         /\ \A i \in TaskIds : i \notin Touched(g) => PutBack(rows, g)[i] = rows[i]
<1>1. g \in Grants /\ wrote[g] \in Seq(Entry)
  BY DEF Pending, LedgerTypeOK
<1>2. ASSUME NEW i \in TaskIds, i \in Touched(g)
      PROVE  /\ PutBack(rows, g)[i] \in {NoTask} \cup TaskRow /\ TakenBack(PutBack(rows, g), writes, i)
             /\ rows[i] = task[i] /\ PutBack(rows, g)[i] # task[i] /\ Restored(PutBack(rows, g)[i], g, i)
  <2> DEFINE before == FirstOf(g, i).before
             after == LastOf(g, i).after
  <2>1. FirstOf(g, i) \in Entry
    BY <1>1, <1>2, FirstIs
  <2>2. LastOf(g, i) \in Entry
    <3>1. PICK n \in 1 .. Len(wrote[g]) : LastOf(g, i) = wrote[g][n]
      BY <1>1, <1>2, LastIs
    <3> QED BY <1>1, <3>1
  <2>3. rows[i] # NoTask /\ rows[i].version = after.version /\ rows[i] \in TaskRow
    BY <1>2 DEF AsLeft
  <2>4. after \in TaskRow /\ before \in {NoTask} \cup TaskRow
    BY <2>1, <2>2 DEF Entry
  <2>5. PutBack(rows, g)[i] = IF before = NoTask THEN NoTask
          ELSE [title |-> IF before.title # after.title THEN before.title ELSE rows[i].title,
                status |-> IF before.status # after.status THEN before.status ELSE rows[i].status,
                version |-> rows[i].version + 1]
    BY <1>2 DEF PutBack
  <2> HIDE DEF before, after
  <2>6. PutBack(rows, g)[i] = NoTask \/ (PutBack(rows, g)[i] \in TaskRow /\ PutBack(rows, g)[i].version = rows[i].version + 1)
    <3>1. CASE before = NoTask
      BY <2>5, <3>1
    <3>2. CASE before # NoTask
      BY <2>3, <2>4, <2>5, <3>2 DEF TaskRow
    <3> QED BY <3>1, <3>2
  <2>7. rows[i] = task[i] /\ lastBy[i] = g /\ task[i] = after
    <3>1. task[i] # NoTask => after.version <= task[i].version
      BY <1>1, <1>2 DEF GrownInv, after
    <3>2. task[i] # NoTask /\ after.version = task[i].version => lastBy[i] = g /\ task[i] = after
      BY <1>1, <1>2 DEF GrownInv, after
    <3>3. rows[i] = task[i]
      <4> SUFFICES ASSUME rows[i] # task[i] PROVE FALSE
        OBVIOUS
      <4>1. task[i] # NoTask /\ task[i].version < rows[i].version
        BY <2>3 DEF TakenBack
      <4>2. task[i] \in TaskRow
        BY <1>2, <4>1 DEF LedgerTypeOK
      <4> QED BY <2>3, <2>4, <3>1, <4>1, <4>2 DEF TaskRow
    <3> QED BY <2>3, <3>2, <3>3
  <2>8. rows[i].version \in Nat
    BY <2>3 DEF TaskRow
  <2>9. Restored(PutBack(rows, g)[i], g, i)
    <3>1. CASE before = NoTask
      BY <2>5, <3>1 DEF Restored, before
    <3>2. CASE before # NoTask
      <4>1. PutBack(rows, g)[i] = [title |-> before.title, status |-> before.status, version |-> rows[i].version + 1]
        BY <2>5, <2>7, <3>2
      <4>2. PutBack(rows, g)[i] # NoTask
        BY <2>4, <2>8, <3>2, <4>1, LedgerConstants DEF TaskRow
      <4> QED BY <3>2, <4>1, <4>2 DEF Restored, before
    <3> QED BY <3>1, <3>2
  <2>10. PutBack(rows, g)[i] # task[i]
    BY <2>3, <2>6, <2>7, <2>8
  <2> QED BY <2>3, <2>6, <2>7, <2>8, <2>9, <2>10 DEF TakenBack
<1>3. ASSUME NEW i \in TaskIds, i \notin Touched(g)
      PROVE  PutBack(rows, g)[i] \in {NoTask} \cup TaskRow /\ TakenBack(PutBack(rows, g), writes, i)
  <2>1. PutBack(rows, g)[i] = rows[i]
    BY <1>3 DEF PutBack
  <2>2. TakenBack(rows, writes, i)
    OBVIOUS
  <2> QED BY <2>1, <2>2 DEF TakenBack
<1>4. PutBack(rows, g) = [i \in TaskIds |-> PutBack(rows, g)[i]]
  BY DEF PutBack
<1>5. ASSUME NEW i \in TaskIds
      PROVE  PutBack(rows, g)[i] \in {NoTask} \cup TaskRow /\ TakenBack(PutBack(rows, g), writes, i)
  BY <1>2, <1>3
<1>6. PutBack(rows, g) \in [TaskIds -> {NoTask} \cup TaskRow]
  BY <1>4, <1>5
<1>7. \A i \in TaskIds : i \notin Touched(g) => PutBack(rows, g)[i] = rows[i]
  BY DEF PutBack
<1> QED BY <1>2, <1>5, <1>6, <1>7

\* An undo changes only rows that a write it undoes was the last to change, and puts all that its
\* writes changed back as they found it.
LEMMA RevertedGood ==
  ASSUME LedgerTypeOK, GrownInv, NEW writes \in Seq(Grants), Reverted(writes).ok
  PROVE  /\ Reverted(writes).rows \in [TaskIds -> {NoTask} \cup TaskRow]
         /\ \A i \in TaskIds : TakenBack(Reverted(writes).rows, writes, i)
         /\ \A g \in Pending(writes) : \A i \in Touched(g) : Restored(Reverted(writes).rows[i], g, i)
<1> DEFINE L == Len(writes)
<1>1. L \in Nat
  OBVIOUS
<1>2. PICK f : UndoneOf(f, writes) /\ Reverted(writes) = f[L]
  BY <1>1, RevertedIs
<1> DEFINE Back(rows, n) ==
             \A g \in Processed(writes, n) : \A i \in Touched(g) : rows[i] # task[i] /\ Restored(rows[i], g, i)
           Fine(st, n) ==
             /\ st = [ok |-> st.ok, rows |-> st.rows]
             /\ st.ok => /\ st.rows \in [TaskIds -> {NoTask} \cup TaskRow]
                         /\ \A i \in TaskIds : TakenBack(st.rows, writes, i)
                         /\ Back(st.rows, n)
           S == {n \in 0 .. L : Fine(f[n], n)}
<1>3. 0 \in S
  <2>1. f[0] = [ok |-> TRUE, rows |-> task]
    BY <1>1, <1>2 DEF UndoneOf
  <2>2. Processed(writes, 0) = {}
    BY DEF Processed
  <2>3. Fine([ok |-> TRUE, rows |-> task], 0)
    BY <2>2 DEF LedgerTypeOK, TakenBack
  <2> QED BY <1>1, <2>1, <2>3
<1>4. ASSUME NEW n \in 0 .. L, n < L, n \in S PROVE n + 1 \in S
  <2> DEFINE st == f[n]
             g == writes[L + 1 - (n + 1)]
             new == f[n + 1]
  <2>1. n + 1 \in 0 .. L /\ n + 1 # 0 /\ n + 1 - 1 = n /\ L + 1 - (n + 1) \in 1 .. L
    BY <1>1, <1>4
  <2>2. new = Undone(st, g)
    <3>1. \A k \in 0 .. L : k # 0 => f[k] = Undone(f[k - 1], writes[L + 1 - k])
      <4>1. ASSUME NEW k \in 0 .. L, k # 0 PROVE f[k] = Undone(f[k - 1], writes[L + 1 - k])
        BY <1>2, <4>1 DEF UndoneOf
      <4> QED BY <4>1
    <3> DEFINE k == n + 1
    <3>2. k \in 0 .. L /\ k # 0 /\ k - 1 = n
      BY <2>1
    <3>3. f[k] = Undone(f[k - 1], writes[L + 1 - k])
      <4> HIDE DEF k
      <4> QED BY <3>1, <3>2
    <3>4. f[k - 1] = f[n]
      BY <3>2
    <3> QED BY <3>3, <3>4
  <2>3. Fine(st, n)
    BY <1>4
  <2>4. g \in undone \/ g \in Pending(writes)
    BY <2>1 DEF Pending
  <2>9. Processed(writes, n + 1) = Processed(writes, n) \cup ({g} \ undone)
    <3>1. 1 .. n + 1 = (1 .. n) \cup {n + 1}
      BY <2>1
    <3> QED BY <3>1 DEF Processed
  <2> HIDE DEF st, g, new
  <2>5. ASSUME g \in undone PROVE Fine(new, n + 1)
    <3>1. Processed(writes, n + 1) = Processed(writes, n)
      BY <2>5, <2>9
    <3> QED BY <2>2, <2>3, <2>5, <3>1 DEF Undone
  <2>6. ASSUME g \notin undone, st.ok, AsLeft(st.rows, g) PROVE Fine(new, n + 1)
    <3>1. new = [st EXCEPT !.rows = PutBack(st.rows, g)]
      BY <2>2, <2>6 DEF Undone
    <3>2. new = [ok |-> st.ok, rows |-> PutBack(st.rows, g)]
      BY <2>3, <3>1
    <3>3. /\ PutBack(st.rows, g) \in [TaskIds -> {NoTask} \cup TaskRow]
          /\ \A i \in TaskIds : TakenBack(PutBack(st.rows, g), writes, i)
          /\ \A i \in TaskIds : i \in Touched(g) => /\ st.rows[i] = task[i] /\ PutBack(st.rows, g)[i] # task[i]
                                                 /\ Restored(PutBack(st.rows, g)[i], g, i)
          /\ \A i \in TaskIds : i \notin Touched(g) => PutBack(st.rows, g)[i] = st.rows[i]
      BY <2>3, <2>4, <2>6, PutBackGood
    <3>4. ASSUME NEW h \in Processed(writes, n + 1), NEW i \in Touched(h)
          PROVE  PutBack(st.rows, g)[i] # task[i] /\ Restored(PutBack(st.rows, g)[i], h, i)
      <4>0. h \in Grants /\ i \in TaskIds
        <5>1. h \in Grants
          BY <2>1 DEF Processed
        <5>2. \A m \in 1 .. Len(wrote[h]) : wrote[h][m] \in Entry
          BY <5>1 DEF LedgerTypeOK
        <5> QED BY <5>1, <5>2 DEF Touched, Entry
      <4>1. CASE i \in Touched(g)
        <5>1. h = g
          <6> SUFFICES ASSUME h # g PROVE FALSE
            OBVIOUS
          <6>1. h \in Processed(writes, n)
            BY <2>9
          <6>2. st.rows[i] # task[i]
            BY <2>3, <2>6, <6>1
          <6> QED BY <3>3, <4>0, <4>1, <6>2
        <5> QED BY <3>3, <4>0, <4>1, <5>1
      <4>2. CASE i \notin Touched(g)
        <5>1. h \in Processed(writes, n)
          BY <2>9, <4>2
        <5>2. st.rows[i] # task[i] /\ Restored(st.rows[i], h, i)
          BY <2>3, <2>6, <5>1
        <5> QED BY <3>3, <4>0, <4>2, <5>2
      <4> QED BY <4>1, <4>2
    <3> QED BY <3>2, <3>3, <3>4
  <2>7. ASSUME g \notin undone, ~(st.ok /\ AsLeft(st.rows, g)) PROVE Fine(new, n + 1)
    <3>1. new = [st EXCEPT !.ok = FALSE]
      BY <2>2, <2>7 DEF Undone
    <3>2. new = [ok |-> FALSE, rows |-> st.rows]
      BY <2>3, <3>1
    <3> QED BY <3>2
  <2>8. Fine(new, n + 1)
    BY <2>5, <2>6, <2>7
  <2> QED BY <2>1, <2>8 DEF new
<1>5. L \in S
  <2> HIDE DEF S, L
  <2>1. \A n \in 0 .. L : n < L /\ n \in S => n + 1 \in S
    BY <1>4
  <2>2. 0 .. L \subseteq S
    BY <1>1, <1>3, <2>1, Induct
  <2> QED BY <1>1, <2>2
<1>6. Pending(writes) = Processed(writes, L)
  <2>1. ASSUME NEW n \in 1 .. L PROVE L + 1 - n \in 1 .. L /\ writes[L + 1 - (L + 1 - n)] = writes[n]
    BY <1>1
  <2>2. {writes[n] : n \in 1 .. L} = {writes[L + 1 - k] : k \in 1 .. L}
    <3>1. ASSUME NEW n \in 1 .. L PROVE writes[n] \in {writes[L + 1 - k] : k \in 1 .. L}
      BY <2>1
    <3>2. ASSUME NEW k \in 1 .. L PROVE writes[L + 1 - k] \in {writes[n] : n \in 1 .. L}
      BY <2>1
    <3> QED BY <3>1, <3>2
  <2> QED BY <2>2 DEF Pending, Processed
<1>7. Fine(f[L], L)
  BY <1>5
<1> QED BY <1>2, <1>6, <1>7

----------------------------------------------------------------------------
(* The invariant. *)

\* A plan that is applied leaves rows, and records what it did.
LEMMA CommitTypes ==
  ASSUME LedgerTypeOK, GrownInv, NEW plan \in Seq(Changes), NEW pins,
         NEW who \in Grants \cup {"card"},
         Applied(plan, pins).ok, Fits(Applied(plan, pins)), Commit(Applied(plan, pins), who)
  PROVE  /\ task' \in [TaskIds -> {NoTask} \cup TaskRow] /\ nextTask' \in 1 .. MaxTasks + 1
         /\ lastBy' \in [TaskIds -> Grants \cup {"nobody", "card", "user", "undo"}]
         /\ Applied(plan, pins).made \in Seq(Entry) /\ Len(Applied(plan, pins).made) = Len(plan)
<1>1. Good(Applied(plan, pins), plan, Len(plan))
  BY AppliedGood DEF GrownInv
<1>2. nextTask \in Nat /\ nextTask >= 1 /\ MaxTasks \in Nat
  BY LedgerConstants DEF LedgerTypeOK
<1>3. lastBy' \in [TaskIds -> Grants \cup {"nobody", "card", "user", "undo"}]
  BY DEF Commit, LedgerTypeOK
<1> QED BY <1>1, <1>2, <1>3 DEF Good, Commit, Fits

LEMMA PlanTypes == Plans \cup {<<>>} \subseteq Seq(Changes) /\ \A plan \in Plans \cup {<<>>} : Len(plan) \in Nat
<1>1. Plans \subseteq Seq(Changes)
  BY LedgerConstants
<1>2. <<>> \in Seq(Changes)
  OBVIOUS
<1>3. \A plan \in Seq(Changes) : Len(plan) \in Nat
  OBVIOUS
<1>4. Plans \cup {<<>>} \subseteq Seq(Changes)
  BY <1>1, <1>2
<1> QED BY <1>3, <1>4

LEMMA EditedRow ==
  ASSUME NEW row \in TaskRow, NEW t, NEW v
  PROVE  [row EXCEPT !.title = t, !.version = v] = [title |-> t, status |-> row.status, version |-> v]
<1>1. PICK a \in Titles, b \in Statuses, c \in Nat : row = [title |-> a, status |-> b, version |-> c]
  BY DEF TaskRow
<1>2. [row EXCEPT !.title = t] = [title |-> t, status |-> row.status, version |-> row.version]
  BY <1>1
<1>3. [[title |-> t, status |-> row.status, version |-> row.version] EXCEPT !.version = v]
        = [title |-> t, status |-> row.status, version |-> v]
  OBVIOUS
<1> QED BY <1>2, <1>3

\* A person's edit that is saved.
LEMMA SavedIs ==
  ASSUME LedgerTypeOK, SaveEdit, ~UNCHANGED <<task, lastBy>>
  PROVE  \E row \in TaskRow : /\ tab.id \in TaskIds /\ task[tab.id] \in TaskRow
                          /\ task' = [task EXCEPT ![tab.id] = row] /\ row.version = task[tab.id].version + 1
                          /\ lastBy' = [lastBy EXCEPT ![tab.id] = "user"]
<1>1. PICK t \in Titles : /\ tab # NoTask /\ task[tab.id] # NoTask
                          /\ task' = [task EXCEPT ![tab.id].title = t, ![tab.id].version = @ + 1]
                          /\ lastBy' = [lastBy EXCEPT ![tab.id] = "user"]
  BY DEF SaveEdit
<1> DEFINE row == [title |-> t, status |-> task[tab.id].status, version |-> task[tab.id].version + 1]
<1>2. tab.id \in TaskIds /\ task[tab.id] \in TaskRow
  BY <1>1 DEF LedgerTypeOK
<1>3. task' = [task EXCEPT ![tab.id] = row]
  <2>1. [task[tab.id] EXCEPT !.title = t, !.version = task[tab.id].version + 1] = row
    BY <1>2, EditedRow
  <2> QED BY <1>1, <1>2, <2>1 DEF LedgerTypeOK
<1>4. row \in TaskRow
  BY <1>2 DEF TaskRow
<1> QED BY <1>1, <1>2, <1>3, <1>4

\* What a plan is stated with: pins of the check, or none.
StatedPins(plan, pins) ==
  \/ pins = Unpinned(plan)
  \/ LET st == Applied(plan, Unpinned(plan)) IN st.ok /\ Fits(st) /\ pins = st.pins

LEMMA StatedWith ==
  ASSUME StatePlan
  PROVE  \E plan \in Plans : /\ StatedPins(plan, card'.pins)
                             /\ card' = [at |-> "open", plan |-> plan, pins |-> card'.pins, touched |-> <<>>]
<1>1. PICK plan \in Plans, checked \in BOOLEAN :
        LET st == Applied(plan, Unpinned(plan)) IN
        /\ checked => Fits(st) /\ st.ok
        /\ card' = [at |-> "open", plan |-> plan, pins |-> IF checked THEN st.pins ELSE Unpinned(plan), touched |-> <<>>]
  BY DEF StatePlan
<1>2. StatedPins(plan, IF checked THEN Applied(plan, Unpinned(plan)).pins ELSE Unpinned(plan))
  BY <1>1 DEF StatedPins
<1>3. card'.pins = IF checked THEN Applied(plan, Unpinned(plan)).pins ELSE Unpinned(plan)
  BY <1>1
<1> QED BY <1>1, <1>2, <1>3

LEMMA StatedPinsAre ==
  ASSUME LedgerTypeOK, \A i \in TaskIds : i >= nextTask => task[i] = NoTask,
         NEW plan \in Seq(Changes), NEW pins, StatedPins(plan, pins)
  PROVE  /\ pins \in Seq(Pins \cup {NoPin})
         /\ \/ pins = Unpinned(plan)
            \/ Len(pins) = Len(plan) /\ Pinned(plan, pins)
<1>1. CASE pins = Unpinned(plan)
  <2>1. Unpinned(plan) \in Seq(Pins \cup {NoPin})
    BY DEF Unpinned
  <2> QED BY <1>1, <2>1
<1>2. CASE pins # Unpinned(plan)
  <2>1. Good(Applied(plan, Unpinned(plan)), plan, Len(plan)) /\ pins = Applied(plan, Unpinned(plan)).pins
    BY <1>2, AppliedGood DEF StatedPins
  <2>2. pins \in Seq(Pins) /\ Len(pins) = Len(plan) /\ \A n \in 1 .. Len(plan) : plan[n].op = "create" => pins[n] = InPlan
    BY <2>1 DEF Good
  <2>3. pins \in Seq(Pins \cup {NoPin}) /\ \A n \in 1 .. Len(pins) : pins[n] \in Pins
    BY <2>2
  <2> QED BY <2>2, <2>3 DEF Pinned
<1> QED BY <1>1, <1>2

LEMMA LedgerTypeStep == LedgerTypeOK /\ GrownInv /\ CapInv /\ [LedgerNext]_ledgerVars => LedgerTypeOK'
<1> SUFFICES ASSUME LedgerTypeOK, GrownInv, CapInv, [LedgerNext]_ledgerVars PROVE LedgerTypeOK'
  OBVIOUS
<1> USE LedgerConstants
<1>1. ASSUME StatePlan PROVE LedgerTypeOK'
  <2> DEFINE pins == card'.pins
  <2>1. PICK plan \in Plans : /\ StatedPins(plan, pins)
                              /\ card' = [at |-> "open", plan |-> plan, pins |-> pins, touched |-> <<>>]
    BY <1>1, StatedWith
  <2> HIDE DEF pins
  <2>2. plan \in Seq(Changes)
    BY PlanTypes
  <2>3. pins \in Seq(Pins \cup {NoPin})
    BY <2>1, <2>2, StatedPinsAre DEF GrownInv
  <2>4. card' \in StatedPlan
    <3>1. <<>> \in Seq(TaskIds)
      OBVIOUS
    <3> QED BY <2>1, <2>3, <3>1 DEF StatedPlan
  <2> QED BY <1>1, <2>4 DEF StatePlan, LedgerTypeOK
<1>2. ASSUME ApplyPlan PROVE LedgerTypeOK'
  <2> DEFINE st == Applied(card.plan, card.pins)
  <2>1. card.plan \in Seq(Changes)
    BY PlanTypes DEF LedgerTypeOK, StatedPlan, GrantedCall
  <2>2. CASE st.ok
    <3>1. Commit(st, "card") /\ card' = [card EXCEPT !.at = "applied", !.touched = [n \in 1 .. Len(st.made) |-> st.made[n].id]]
      BY <1>2, <2>2 DEF ApplyPlan
    <3>2. /\ task' \in [TaskIds -> {NoTask} \cup TaskRow] /\ nextTask' \in 1 .. MaxTasks + 1
          /\ lastBy' \in [TaskIds -> Grants \cup {"nobody", "card", "user", "undo"}]
          /\ st.made \in Seq(Entry)
      BY <1>2, <2>1, <2>2, <3>1, CommitTypes DEF ApplyPlan
    <3> HIDE DEF st
    <3>3. [n \in 1 .. Len(st.made) |-> st.made[n].id] \in Seq(TaskIds)
      <4>1. \A n \in 1 .. Len(st.made) : st.made[n].id \in TaskIds
        <5>1. \A n \in 1 .. Len(st.made) : st.made[n] \in Entry
          BY <3>2
        <5> QED BY <5>1 DEF Entry
      <4>2. Len(st.made) \in Nat
        BY <3>2
      <4> QED BY <4>1, <4>2
    <3>4. card' \in StatedPlan
      BY <3>1, <3>3 DEF LedgerTypeOK, StatedPlan
    <3> QED BY <1>2, <3>2, <3>4 DEF ApplyPlan, LedgerTypeOK
  <2>3. CASE ~st.ok
    <3>1. card' = [card EXCEPT !.at = "failed"] /\ UNCHANGED <<task, nextTask, lastBy>>
      BY <1>2, <2>3 DEF ApplyPlan
    <3> QED BY <1>2, <3>1 DEF ApplyPlan, LedgerTypeOK, StatedPlan
  <2> QED BY <2>2, <2>3
<1>3. ASSUME NEW g \in Grants, Reserve(g) PROVE LedgerTypeOK'
  <2>1. PICK plan \in Plans :
          \/ HasRoom(plan) /\ used' = used + Len(plan) /\ grant' = [grant EXCEPT ![g] = [at |-> "reserved", plan |-> plan]]
          \/ grant' = [grant EXCEPT ![g] = [at |-> "held", plan |-> plan]] /\ UNCHANGED used
    BY <1>3 DEF Reserve
  <2>2. Len(plan) \in Nat
    BY PlanTypes
  <2>3. used' \in 0 .. Cap
    BY <2>1, <2>2 DEF HasRoom, LedgerTypeOK
  <2>4. grant' \in [Grants -> GrantedCall]
    <3>1. \A at \in {"reserved", "held"} : [at |-> at, plan |-> plan] \in GrantedCall
      BY DEF GrantedCall
    <3>2. PICK at \in {"reserved", "held"} : grant' = [grant EXCEPT ![g] = [at |-> at, plan |-> plan]]
      BY <2>1
    <3>3. grant \in [Grants -> GrantedCall] /\ [at |-> at, plan |-> plan] \in GrantedCall
      BY <3>1 DEF LedgerTypeOK
    <3> QED BY <3>2, <3>3
  <2> QED BY <1>3, <2>3, <2>4 DEF Reserve, LedgerTypeOK
<1>4. ASSUME NEW g \in Grants, GrantWrites(g) PROVE LedgerTypeOK'
  <2> DEFINE st == Applied(grant[g].plan, Unpinned(grant[g].plan))
  <2>1. grant[g].plan \in Seq(Changes)
    BY PlanTypes DEF LedgerTypeOK, StatedPlan, GrantedCall
  <2>2. grant' \in [Grants -> GrantedCall]
    <3>1. PICK at \in {"gone", "committed", "refused"} : grant' = [grant EXCEPT ![g].at = at]
      BY <1>4 DEF GrantWrites
    <3>2. grant \in [Grants -> GrantedCall] /\ [grant[g] EXCEPT !.at = at] \in GrantedCall
      BY DEF LedgerTypeOK, GrantedCall
    <3> QED BY <3>1, <3>2
  <2>3. CASE st.ok
    <3>1. Commit(st, g) /\ wrote' = [wrote EXCEPT ![g] = st.made]
      BY <1>4, <2>3 DEF GrantWrites
    <3>2. /\ task' \in [TaskIds -> {NoTask} \cup TaskRow] /\ nextTask' \in 1 .. MaxTasks + 1
          /\ lastBy' \in [TaskIds -> Grants \cup {"nobody", "card", "user", "undo"}]
          /\ st.made \in Seq(Entry)
      BY <1>4, <2>1, <2>3, <3>1, CommitTypes DEF GrantWrites
    <3> QED BY <1>4, <2>2, <3>1, <3>2 DEF GrantWrites, LedgerTypeOK
  <2>4. CASE ~st.ok
    <3>1. UNCHANGED <<task, nextTask, lastBy, wrote>>
      BY <1>4, <2>4 DEF GrantWrites
    <3> QED BY <1>4, <2>2, <3>1 DEF GrantWrites, LedgerTypeOK
  <2> QED BY <2>3, <2>4
<1>5. ASSUME NEW g \in Grants, GrantCancelled(g) PROVE LedgerTypeOK'
  BY <1>5 DEF GrantCancelled, CancelHolds, LedgerTypeOK, GrantedCall
<1>6. ASSUME NEW g \in Grants, GrantEnds(g) PROVE LedgerTypeOK'
  <2>1. Len(grant[g].plan) \in Nat
    BY PlanTypes DEF LedgerTypeOK, StatedPlan, GrantedCall
  <2>2. used' \in 0 .. Cap
    BY <1>6, <2>1 DEF GrantEnds, LedgerTypeOK
  <2>3. uses' \in Seq(Grants)
    <3>1. uses' = Append(uses, g) \/ uses' = uses
      BY <1>6 DEF GrantEnds
    <3>2. uses \in Seq(Grants)
      BY DEF LedgerTypeOK
    <3>3. Append(uses, g) \in Seq(Grants)
      BY <3>2, Appended
    <3> QED BY <3>1, <3>2, <3>3
  <2> QED BY ZenonT(30), <1>6, <2>2, <2>3 DEF GrantEnds, LedgerTypeOK, GrantedCall
<1>7. ASSUME OpenEdit PROVE LedgerTypeOK'
  <2>1. PICK i \in TaskIds : task[i] # NoTask /\ tab' = [id |-> i, version |-> task[i].version]
    BY <1>7 DEF OpenEdit
  <2>2. task[i].version \in Nat
    BY <2>1 DEF LedgerTypeOK, TaskRow
  <2> QED BY <1>7, <2>1, <2>2 DEF OpenEdit, LedgerTypeOK
<1>8. ASSUME SaveEdit PROVE LedgerTypeOK'
  <2>1. CASE UNCHANGED <<task, lastBy>>
    BY <1>8, <2>1 DEF SaveEdit, LedgerTypeOK
  <2>2. CASE ~UNCHANGED <<task, lastBy>>
    <3>1. PICK row \in TaskRow : /\ tab.id \in TaskIds /\ task[tab.id] \in TaskRow
                             /\ task' = [task EXCEPT ![tab.id] = row] /\ row.version = task[tab.id].version + 1
                             /\ lastBy' = [lastBy EXCEPT ![tab.id] = "user"]
      BY <1>8, <2>2, SavedIs
    <3> QED BY <1>8, <3>1 DEF SaveEdit, LedgerTypeOK
  <2> QED BY <2>1, <2>2
<1>9. ASSUME NEW writes \in Seq(Grants), Undo(writes) PROVE LedgerTypeOK'
  <2>1. Reverted(writes).rows \in [TaskIds -> {NoTask} \cup TaskRow]
    BY <1>9, RevertedGood DEF Undo
  <2>2. Pending(writes) \subseteq Grants
    BY DEF Pending
  <2>3. lastBy' \in [TaskIds -> Grants \cup {"nobody", "card", "user", "undo"}]
    BY <1>9 DEF Undo, LedgerTypeOK
  <2> QED BY <1>9, <2>1, <2>2, <2>3 DEF Undo, LedgerTypeOK
<1>10. CASE UNCHANGED ledgerVars
  BY <1>10 DEF ledgerVars, LedgerTypeOK
<1>11. ASSUME UndoOne PROVE LedgerTypeOK'
  <2>1. PICK g \in Grants : Undo(<<g>>)
    BY <1>11 DEF UndoOne
  <2>2. <<g>> \in Seq(Grants)
    OBVIOUS
  <2> QED BY <1>9, <2>1, <2>2
<1>12. ASSUME UndoRun PROVE LedgerTypeOK'
  BY <1>9, <1>12 DEF UndoRun, LedgerTypeOK
<1> QED BY <1>1, <1>2, <1>3, <1>4, <1>5, <1>6, <1>7, <1>8, <1>10, <1>11, <1>12 DEF LedgerNext

LEMMA PinsStep ==
  LedgerTypeOK /\ GrownInv /\ PinsInv /\ ShownIsChanged /\ [LedgerNext]_ledgerVars => PinsInv' /\ ShownIsChanged'
<1> SUFFICES ASSUME LedgerTypeOK, GrownInv, PinsInv, ShownIsChanged, [LedgerNext]_ledgerVars
             PROVE  PinsInv' /\ ShownIsChanged'
  OBVIOUS
<1>1. ASSUME StatePlan PROVE PinsInv' /\ ShownIsChanged'
  <2> DEFINE pins == card'.pins
  <2>1. PICK plan \in Plans : /\ StatedPins(plan, pins)
                              /\ card' = [at |-> "open", plan |-> plan, pins |-> pins, touched |-> <<>>]
    BY <1>1, StatedWith
  <2> HIDE DEF pins
  <2>2. plan \in Seq(Changes)
    BY PlanTypes
  <2>3. \/ pins = Unpinned(plan)
        \/ Len(pins) = Len(plan) /\ Pinned(plan, pins)
    BY <2>1, <2>2, StatedPinsAre DEF GrownInv
  <2> QED BY <2>1, <2>3 DEF PinsInv, ShownIsChanged, Pinned
<1>2. ASSUME ApplyPlan PROVE PinsInv' /\ ShownIsChanged'
  <2> DEFINE st == Applied(card.plan, card.pins)
  <2>1. card.plan \in Seq(Changes) /\ card \in StatedPlan /\ Len(card.plan) \in Nat
    BY PlanTypes DEF LedgerTypeOK, StatedPlan
  <2>2. CASE st.ok
    <3>1. card' = [card EXCEPT !.at = "applied", !.touched = [n \in 1 .. Len(st.made) |-> st.made[n].id]]
      BY <1>2, <2>2 DEF ApplyPlan
    <3>2. card.pins # Unpinned(card.plan) => Pinned(card.plan, card.pins)
      BY DEF Pinned, PinsInv
    <3>3. /\ Good(st, card.plan, Len(card.plan))
          /\ card.pins # Unpinned(card.plan) => Shown(st.made, card.plan, card.pins, Len(card.plan))
      BY <1>2, <2>1, <2>2, <3>2, AppliedGood DEF GrownInv, ApplyPlan
    <3> HIDE DEF st
    <3>4. Len(st.made) = Len(card.plan)
      BY <3>3 DEF Good
    <3>5. /\ card'.plan = card.plan /\ card'.pins = card.pins
          /\ \A n \in 1 .. Len(card.plan) : card'.touched[n] = st.made[n].id
      BY <2>1, <3>1, <3>4 DEF StatedPlan
    <3>6. PinsInv'
      BY <3>5 DEF PinsInv, Unpinned
    <3>7. ShownIsChanged'
      <4> SUFFICES ASSUME NEW n \in 1 .. Len(card.plan), card.pins # Unpinned(card.plan)
                   PROVE  \/ card'.touched[n] = card.pins[n]
                          \/ /\ card.pins[n] = InPlan
                             /\ \E m \in 1 .. n : card.plan[m].op = "create" /\ card'.touched[m] = card'.touched[n]
        BY <3>5 DEF ShownIsChanged, Unpinned
      <4>1. \A m \in 1 .. n : m \in 1 .. Len(card.plan)
        BY <2>1
      <4> QED BY <3>3, <3>5, <4>1 DEF Shown
    <3> QED BY <3>6, <3>7
  <2>3. CASE ~st.ok
    <3>1. card' = [card EXCEPT !.at = "failed"]
      BY <1>2, <2>3 DEF ApplyPlan
    <3>2. card'.at = "failed" /\ card'.plan = card.plan /\ card'.pins = card.pins
      BY <2>1, <3>1 DEF StatedPlan
    <3> QED BY <3>2 DEF PinsInv, ShownIsChanged, Unpinned
  <2> QED BY <2>2, <2>3
<1>3. ASSUME UNCHANGED card PROVE PinsInv' /\ ShownIsChanged'
  BY <1>3 DEF PinsInv, ShownIsChanged
<1>4. StatePlan \/ ApplyPlan \/ UNCHANGED card
  BY DEF LedgerNext, Reserve, GrantWrites, GrantCancelled, GrantEnds, OpenEdit, SaveEdit, UndoOne, UndoRun, Undo, ledgerVars
<1> QED BY <1>1, <1>2, <1>3, <1>4

----------------------------------------------------------------------------
(* The cap. *)

\* So many actions of one call.
Share(g, k) == {g} \X (1 .. k)

LEMMA ShareIs ==
  ASSUME NEW g, NEW k \in Nat
  PROVE  IsFiniteSet(Share(g, k)) /\ Cardinality(Share(g, k)) = k
<1>1. IsFiniteSet({g}) /\ Cardinality({g}) = 1
  BY FS_Singleton
<1>2. IsFiniteSet(1 .. k) /\ Cardinality(1 .. k) = k
  BY FS_Interval
<1>3. IsFiniteSet({g} \X (1 .. k)) /\ Cardinality({g} \X (1 .. k)) = 1 * k
  BY ZenonT(60), <1>1, <1>2, FS_Product
<1> QED BY <1>3 DEF Share

LEMMA DueIsNat ==
  ASSUME LedgerTypeOK, NEW g \in Grants
  PROVE  Due(g) \in Nat /\ Len(grant[g].plan) \in Nat /\ Len(wrote[g]) \in Nat
<1>1. Len(grant[g].plan) \in Nat
  BY PlanTypes DEF LedgerTypeOK, GrantedCall
<1>2. Len(wrote[g]) \in Nat
  BY DEF LedgerTypeOK
<1> QED BY <1>1, <1>2 DEF Due

\* Nothing more is taken.
LEMMA DueDrops ==
  ASSUME CapInv, \A g \in Grants : Due(g)' \in Nat /\ Due(g) \in Nat /\ Due(g)' <= Due(g)
  PROVE  IsFiniteSet(Taken') /\ Cardinality(Taken') <= Cardinality(Taken)
<1>1. Taken' \subseteq Taken
  <2>1. ASSUME NEW g \in Grants PROVE {g} \X (1 .. Due(g)') \subseteq {g} \X (1 .. Due(g))
    <3>1. 1 .. Due(g)' \subseteq 1 .. Due(g)
      OBVIOUS
    <3> QED BY <3>1
  <2> QED BY <2>1 DEF Taken
<1> QED BY <1>1, FS_Subset DEF CapInv

\* A call that moves on without taking more.
LEMMA MovesOn ==
  ASSUME LedgerTypeOK, LedgerTypeOK', CapInv, NEW g \in Grants,
         \A h \in Grants \ {g} : grant'[h] = grant[h] /\ wrote'[h] = wrote[h],
         Due(g)' <= Due(g), Len(wrote[g])' <= Due(g)', used' = used,
         grant'[g].at \in {"reserved", "cancelled", "refused"} => wrote'[g] = <<>>
  PROVE  CapInv'
<1>1. \A h \in Grants : Due(h) \in Nat /\ Due(h)' \in Nat
  <2>1. \A h \in Grants : Due(h) \in Nat
    BY DueIsNat
  <2>2. ASSUME NEW h \in Grants PROVE Due(h)' \in Nat
    <3>1. Len(grant'[h].plan) \in Nat /\ Len(wrote'[h]) \in Nat
      BY PlanTypes DEF LedgerTypeOK, GrantedCall
    <3> QED BY <3>1 DEF Due
  <2> QED BY <2>1, <2>2
<1>2. \A h \in Grants \ {g} : Due(h)' = Due(h)
  BY DEF Due
<1>3. IsFiniteSet(Taken') /\ Cardinality(Taken') <= Cardinality(Taken)
  BY <1>1, <1>2, DueDrops
<1>4. Cardinality(Taken) \in Nat /\ Cardinality(Taken') \in Nat
  BY <1>3, FS_CardinalityType DEF CapInv
<1>5. Cardinality(Taken') <= used'
  BY <1>3, <1>4 DEF CapInv, LedgerTypeOK
<1>6. ASSUME NEW h \in Grants
      PROVE  /\ Len(wrote'[h]) <= Due(h)'
             /\ grant'[h].at \in {"reserved", "cancelled", "refused"} => wrote'[h] = <<>>
  BY <1>2 DEF CapInv
<1> QED BY <1>3, <1>5, <1>6 DEF CapInv

LEMMA CapStep == LedgerTypeOK /\ LedgerTypeOK' /\ GrownInv /\ CapInv /\ [LedgerNext]_ledgerVars => CapInv'
<1> SUFFICES ASSUME LedgerTypeOK, LedgerTypeOK', GrownInv, CapInv, [LedgerNext]_ledgerVars PROVE CapInv'
  OBVIOUS
<1>1. ASSUME NEW g \in Grants, Reserve(g) PROVE CapInv'
  <2>1. PICK plan \in Plans :
          \/ used' = used + Len(plan) /\ grant' = [grant EXCEPT ![g] = [at |-> "reserved", plan |-> plan]]
          \/ grant' = [grant EXCEPT ![g] = [at |-> "held", plan |-> plan]] /\ UNCHANGED used
    BY <1>1 DEF Reserve
  <2>2. grant[g].at = "idle" /\ wrote' = wrote /\ Len(plan) \in Nat /\ Due(g) = 0
    BY <1>1, PlanTypes DEF Reserve, Due
  <2>3. Len(wrote[g]) <= 0 /\ Len(wrote[g]) \in Nat /\ wrote[g] \in Seq(Entry)
    BY <2>2 DEF CapInv, LedgerTypeOK
  <2>4. wrote[g] = <<>>
    BY <2>3, EmptySeq
  <2>5. CASE used' = used + Len(plan) /\ grant' = [grant EXCEPT ![g] = [at |-> "reserved", plan |-> plan]]
    <3>1. \A h \in Grants \ {g} : Due(h)' = Due(h) /\ grant'[h] = grant[h]
      BY <2>2, <2>5 DEF Due, LedgerTypeOK
    <3>2. Due(g)' = Len(plan) /\ grant'[g].at = "reserved"
      BY <2>5 DEF Due, LedgerTypeOK
    <3>3. Taken' \subseteq Taken \cup Share(g, Len(plan))
      BY <3>1, <3>2 DEF Taken, Share
    <3>4. IsFiniteSet(Taken) /\ Cardinality(Taken) \in Nat /\ Cardinality(Taken) <= used
      BY FS_CardinalityType DEF CapInv
    <3>5. IsFiniteSet(Share(g, Len(plan))) /\ Cardinality(Share(g, Len(plan))) = Len(plan)
      BY <2>2, ShareIs
    <3>6. /\ IsFiniteSet(Taken \cup Share(g, Len(plan)))
          /\ Cardinality(Taken \cup Share(g, Len(plan)))
               = Cardinality(Taken) + Cardinality(Share(g, Len(plan))) - Cardinality(Taken \cap Share(g, Len(plan)))
      BY <3>4, <3>5, FS_Union
    <3>7. IsFiniteSet(Taken \cap Share(g, Len(plan))) /\ Cardinality(Taken \cap Share(g, Len(plan))) \in Nat
      BY <3>4, FS_Subset, FS_CardinalityType
    <3>8. IsFiniteSet(Taken') /\ Cardinality(Taken') <= Cardinality(Taken \cup Share(g, Len(plan))) /\ Cardinality(Taken') \in Nat
      BY <3>3, <3>6, FS_Subset, FS_CardinalityType
    <3>9. Cardinality(Taken') <= used'
      <4>1. used \in Nat
        BY DEF LedgerTypeOK
      <4> QED BY <2>2, <2>5, <3>4, <3>5, <3>6, <3>7, <3>8, <4>1
    <3>10. ASSUME NEW h \in Grants
           PROVE  /\ Len(wrote'[h]) <= Due(h)'
                  /\ grant'[h].at \in {"reserved", "cancelled", "refused"} => wrote'[h] = <<>>
      <4>1. CASE h = g
        BY <2>2, <2>3, <2>4, <3>2, <4>1
      <4>2. CASE h # g
        BY <2>2, <3>1, <4>2 DEF CapInv
      <4> QED BY <4>1, <4>2
    <3> QED BY <3>8, <3>9, <3>10 DEF CapInv
  <2>6. CASE grant' = [grant EXCEPT ![g] = [at |-> "held", plan |-> plan]] /\ UNCHANGED used
    <3>1. /\ Due(g)' = 0 /\ grant'[g].at = "held"
          /\ \A h \in Grants \ {g} : grant'[h] = grant[h] /\ wrote'[h] = wrote[h]
      BY <2>2, <2>6 DEF Due, LedgerTypeOK
    <3> QED BY <2>2, <2>3, <2>6, <3>1, MovesOn
  <2> QED BY <2>1, <2>5, <2>6
<1>2. ASSUME NEW g \in Grants, GrantWrites(g) PROVE CapInv'
  <2> DEFINE st == Applied(grant[g].plan, Unpinned(grant[g].plan))
  <2>1. grant[g].plan \in Seq(Changes) /\ Len(grant[g].plan) \in Nat /\ grant[g] \in GrantedCall
    BY PlanTypes DEF LedgerTypeOK, GrantedCall
  <2>2. /\ wrote[g] = <<>> /\ Due(g) = Len(grant[g].plan) /\ used' = used
        /\ grant' = [grant EXCEPT ![g].at = IF @ = "cancelled" THEN "gone" ELSE IF st.ok THEN "committed" ELSE "refused"]
        /\ st.ok => wrote' = [wrote EXCEPT ![g] = st.made]
        /\ ~st.ok => wrote' = wrote
    BY <1>2 DEF GrantWrites, CapInv, Due
  <2>3. st.ok => Len(st.made) = Len(grant[g].plan)
    BY <1>2, <2>1, AppliedGood DEF GrantWrites, GrownInv, Good
  <2> HIDE DEF st
  <2>4. \A h \in Grants \ {g} : grant'[h] = grant[h] /\ wrote'[h] = wrote[h]
    BY <2>2 DEF LedgerTypeOK
  <2>5. /\ st.ok => Len(wrote'[g]) = Len(grant[g].plan)
        /\ ~st.ok => wrote'[g] = <<>> /\ Len(wrote'[g]) = 0
    BY <2>2, <2>3 DEF LedgerTypeOK
  <2>6. /\ grant'[g].plan = grant[g].plan
        /\ grant'[g].at = IF grant[g].at = "cancelled" THEN "gone" ELSE IF st.ok THEN "committed" ELSE "refused"
    BY <2>1, <2>2 DEF LedgerTypeOK, GrantedCall
  <2>7. /\ Due(g)' <= Due(g) /\ Len(wrote[g])' <= Due(g)'
        /\ grant'[g].at \in {"reserved", "cancelled", "refused"} => wrote'[g] = <<>>
    BY <2>1, <2>2, <2>5, <2>6 DEF Due
  <2> QED BY <2>2, <2>4, <2>7, MovesOn
<1>3. ASSUME NEW g \in Grants, GrantCancelled(g) PROVE CapInv'
  <2>1. /\ grant[g] \in GrantedCall /\ grant[g].at = "reserved" /\ wrote[g] = <<>>
        /\ Len(grant[g].plan) \in Nat /\ Due(g) \in Nat
    BY <1>3, DueIsNat DEF LedgerTypeOK, GrantCancelled, CapInv
  <2>2. /\ grant'[g].at = "cancelled" /\ grant'[g].plan = grant[g].plan /\ wrote' = wrote /\ used' = used
        /\ \A h \in Grants \ {g} : grant'[h] = grant[h]
    BY <1>3, <2>1 DEF GrantCancelled, CancelHolds, LedgerTypeOK, GrantedCall
  <2>3. Due(g)' = Due(g) /\ Due(g) <= Due(g) /\ Len(wrote[g])' <= Due(g)'
    BY <2>1, <2>2 DEF Due, CapInv
  <2> QED BY <2>1, <2>2, <2>3, MovesOn
<1>4. ASSUME NEW g \in Grants, GrantEnds(g) PROVE CapInv'
  <2>1. /\ grant[g] \in GrantedCall /\ Len(grant[g].plan) \in Nat /\ Len(wrote[g]) \in Nat
        /\ Due(g) = Len(grant[g].plan) /\ Len(wrote[g]) <= Due(g)
    BY <1>4, DueIsNat DEF LedgerTypeOK, GrantEnds, CapInv, Due
  <2>2. /\ grant'[g].at = "done" /\ wrote' = wrote
        /\ \A h \in Grants \ {g} : grant'[h] = grant[h]
    BY <1>4, <2>1 DEF GrantEnds, LedgerTypeOK, GrantedCall
  <2>3. Due(g)' = Len(wrote[g])
    BY <2>2 DEF Due
  <2>4. CASE grant[g].at = "committed"
    <3>1. used' = used
      BY <1>4, <2>4 DEF GrantEnds
    <3> QED BY <2>1, <2>2, <2>3, <3>1, MovesOn
  <2>5. CASE grant[g].at = "refused"
    <3> DEFINE k == Len(grant[g].plan)
    <3>1. used' = IF used > k THEN used - k ELSE 0
      BY <1>4, <2>5 DEF GrantEnds
    <3>2. wrote[g] = <<>> /\ Due(g)' = 0
      BY <2>3, <2>5 DEF CapInv
    <3>3. \A h \in Grants \ {g} : Due(h)' = Due(h)
      BY <2>2 DEF Due
    <3>4. Taken = Taken' \cup Share(g, k)
      <4>1. Taken' = UNION {{h} \X (1 .. Due(h)) : h \in Grants \ {g}}
        <5>1. {g} \X (1 .. Due(g)') = {}
          BY <3>2
        <5> QED BY <3>3, <5>1 DEF Taken
      <4> QED BY <2>1, <4>1 DEF Taken, Share
    <3>5. Taken' \cap Share(g, k) = {}
      BY <3>2 DEF Taken, Share
    <3>6. IsFiniteSet(Taken) /\ Cardinality(Taken) \in Nat /\ Cardinality(Taken) <= used
      BY FS_CardinalityType DEF CapInv
    <3>7. IsFiniteSet(Taken') /\ Cardinality(Taken') \in Nat
      BY <3>4, <3>6, FS_Subset, FS_CardinalityType
    <3>8. IsFiniteSet(Share(g, k)) /\ Cardinality(Share(g, k)) = k
      BY <2>1, ShareIs
    <3>9. Cardinality(Taken) = Cardinality(Taken') + k
      <4>1. Cardinality(Taken' \cup Share(g, k)) = Cardinality(Taken') + Cardinality(Share(g, k)) - Cardinality(Taken' \cap Share(g, k))
        BY <3>7, <3>8, FS_Union
      <4>2. Cardinality(Taken' \cap Share(g, k)) = 0
        BY <3>5, FS_EmptySet
      <4>3. Cardinality(Taken' \cup Share(g, k)) = Cardinality(Taken)
        BY <3>4
      <4>4. k \in Nat
        BY <2>1
      <4> HIDE DEF k
      <4> QED BY <3>7, <3>8, <4>1, <4>2, <4>3, <4>4
    <3>10. Cardinality(Taken') <= used'
      <4>1. used \in Nat
        BY DEF LedgerTypeOK
      <4> QED BY <2>1, <3>1, <3>6, <3>7, <3>9, <4>1
    <3>11. ASSUME NEW h \in Grants
           PROVE  /\ Len(wrote'[h]) <= Due(h)'
                  /\ grant'[h].at \in {"reserved", "cancelled", "refused"} => wrote'[h] = <<>>
      <4>1. CASE h = g
        BY <2>1, <2>2, <2>3, <4>1
      <4>2. CASE h # g
        BY <2>2, <3>3, <4>2 DEF CapInv
      <4> QED BY <4>1, <4>2
    <3> QED BY <3>7, <3>10, <3>11 DEF CapInv
  <2> QED BY <1>4, <2>4, <2>5 DEF GrantEnds
<1>5. ASSUME UNCHANGED <<grant, wrote, used>> PROVE CapInv'
  <2>1. \A g \in Grants : Due(g)' = Due(g)
    BY <1>5 DEF Due
  <2>2. Taken' = Taken
    BY <2>1 DEF Taken
  <2> QED BY <1>5, <2>1, <2>2 DEF CapInv
<1>6. \/ UNCHANGED <<grant, wrote, used>>
      \/ \E g \in Grants : Reserve(g) \/ GrantWrites(g) \/ GrantCancelled(g) \/ GrantEnds(g)
  BY DEF LedgerNext, StatePlan, ApplyPlan, OpenEdit, SaveEdit, UndoOne, UndoRun, Undo, ledgerVars
<1> QED BY <1>1, <1>2, <1>3, <1>4, <1>5, <1>6

----------------------------------------------------------------------------
(* Rows grow. *)

LEMMA GrownStep == LedgerTypeOK /\ LedgerTypeOK' /\ CapInv /\ GrownInv /\ [LedgerNext]_ledgerVars => GrownInv'
<1> SUFFICES ASSUME LedgerTypeOK, LedgerTypeOK', CapInv, GrownInv, [LedgerNext]_ledgerVars PROVE GrownInv'
  OBVIOUS
<1> DEFINE Kept(g, i) ==
             /\ i < nextTask'
             /\ task'[i] # NoTask => (LastOf(g, i).after.version)' <= task'[i].version
             /\ task'[i] # NoTask /\ (LastOf(g, i).after.version)' = task'[i].version =>
                  lastBy'[i] = g /\ task'[i] = (LastOf(g, i).after)'
<1>0. /\ nextTask \in Nat /\ \A i \in TaskIds : i \in Nat /\ task[i] \in {NoTask} \cup TaskRow
      /\ \A g \in Grants : wrote[g] \in Seq(Entry)
      /\ \A g \in Grants : \A i \in Touched(g) : i \in TaskIds /\ LastOf(g, i).after.version \in Nat
  <2>1. \A g \in Grants : wrote[g] \in Seq(Entry)
    BY DEF LedgerTypeOK
  <2>2. ASSUME NEW g \in Grants, NEW i \in Touched(g) PROVE i \in TaskIds /\ LastOf(g, i).after.version \in Nat
    <3>1. PICK n \in 1 .. Len(wrote[g]) : LastOf(g, i) = wrote[g][n] /\ wrote[g][n].id = i
      BY <2>1, LastIs
    <3>2. wrote[g][n] \in Entry
      BY <2>1
    <3> QED BY <3>1, <3>2 DEF Entry, TaskRow
  <2> QED BY <2>1, <2>2, LedgerConstants DEF LedgerTypeOK, TaskIds
<1>3. ASSUME UNCHANGED <<nextTask, wrote>>,
             \A i \in TaskIds : \/ task'[i] = task[i] /\ lastBy'[i] = lastBy[i]
                                \/ task[i] # NoTask /\ (task'[i] # NoTask => task[i].version < task'[i].version)
      PROVE  GrownInv'
  <2>1. \A g \in Grants : Touched(g)' = Touched(g) /\ \A i \in TaskIds : LastOf(g, i)' = LastOf(g, i)
    BY <1>3 DEF Touched, LastOf
  <2>2. ASSUME NEW i \in TaskIds, i >= nextTask' PROVE task'[i] = NoTask
    BY <1>3, <2>2 DEF GrownInv
  <2>3. ASSUME NEW g \in Grants, NEW i \in Touched(g) PROVE Kept(g, i)
    <3>1. /\ i \in TaskIds /\ i < nextTask
          /\ task[i] # NoTask => LastOf(g, i).after.version <= task[i].version
          /\ task[i] # NoTask /\ LastOf(g, i).after.version = task[i].version =>
               lastBy[i] = g /\ task[i] = LastOf(g, i).after
      BY <1>0 DEF GrownInv
    <3>2. CASE task'[i] = task[i] /\ lastBy'[i] = lastBy[i]
      BY <1>3, <2>1, <3>1, <3>2
    <3>3. CASE task[i] # NoTask /\ (task'[i] # NoTask => task[i].version < task'[i].version)
      <4>1. task[i].version \in Nat /\ LastOf(g, i).after.version \in Nat
        BY <1>0, <3>1, <3>3 DEF TaskRow
      <4>2. task'[i] # NoTask => task'[i].version \in Nat
        BY <3>1 DEF LedgerTypeOK, TaskRow
      <4> QED BY <1>3, <2>1, <3>1, <3>3, <4>1, <4>2
    <3> QED BY <1>3, <3>1, <3>2, <3>3
  <2> QED BY <2>1, <2>2, <2>3 DEF GrownInv
<1>1. ASSUME ApplyPlan PROVE GrownInv'
  <2> DEFINE st == Applied(card.plan, card.pins)
  <2>1. card.plan \in Seq(Changes)
    BY PlanTypes DEF LedgerTypeOK, StatedPlan
  <2>2. CASE st.ok
    <3>1. Commit(st, "card") /\ Fits(st) /\ wrote' = wrote
      BY <1>1, <2>2 DEF ApplyPlan
    <3>2. Good(st, card.plan, Len(card.plan))
      BY <2>1, <2>2, <3>1, AppliedGood DEF GrownInv
    <3>3. \A i \in TaskIds : i >= nextTask' => task'[i] = NoTask
      BY <3>1, <3>2 DEF Good, Commit
    <3>4. ASSUME NEW g \in Grants, NEW i \in Touched(g) PROVE Touched(g)' = Touched(g) /\ Kept(g, i)
      BY <2>1, <2>2, <3>1, CommitGrown
    <3>5. \A g \in Grants : Touched(g)' = Touched(g)
      BY <3>1 DEF Touched
    <3> QED BY <3>3, <3>4, <3>5 DEF GrownInv
  <2>3. CASE ~st.ok
    <3>1. UNCHANGED <<task, nextTask, lastBy, wrote>>
      BY <1>1, <2>3 DEF ApplyPlan
    <3> QED BY <1>3, <3>1
  <2> QED BY <2>2, <2>3
<1>2. ASSUME NEW g \in Grants, GrantWrites(g) PROVE GrownInv'
  <2> DEFINE st == Applied(grant[g].plan, Unpinned(grant[g].plan))
  <2>1. grant[g].plan \in Seq(Changes)
    BY PlanTypes DEF LedgerTypeOK, GrantedCall
  <2>2. CASE st.ok
    <3>1. Commit(st, g) /\ Fits(st) /\ wrote' = [wrote EXCEPT ![g] = st.made]
      BY <1>2, <2>2 DEF GrantWrites
    <3>2. Good(st, grant[g].plan, Len(grant[g].plan))
      BY <2>1, <2>2, <3>1, AppliedGood DEF GrownInv
    <3>3. \A i \in TaskIds : i >= nextTask' => task'[i] = NoTask
      BY <3>1, <3>2 DEF Good, Commit
    <3>4. ASSUME NEW h \in Grants \ {g}, NEW i \in Touched(h)' PROVE Kept(h, i)
      <4>1. wrote'[h] = wrote[h]
        BY <3>1 DEF LedgerTypeOK
      <4>2. i \in Touched(h)
        BY <3>4, <4>1 DEF Touched
      <4> QED BY <2>1, <2>2, <3>1, <4>1, <4>2, CommitGrown
    <3>5. ASSUME NEW i \in Touched(g)' PROVE Kept(g, i)
      <4>1. wrote'[g] = st.made /\ wrote'[g] \in Seq(Entry) /\ Len(st.made) = Len(grant[g].plan)
        BY <3>1, <3>2 DEF LedgerTypeOK, Good
      <4>2. PICK n \in 1 .. Len(wrote'[g]) : /\ LastOf(g, i)' = wrote'[g][n] /\ wrote'[g][n].id = i
                                             /\ \A m \in n + 1 .. Len(wrote'[g]) : wrote'[g][m].id # i
        <5>1. i \in {wrote'[g][k].id : k \in 1 .. Len(wrote'[g])} /\ LastOf(g, i)' = wrote'[g][LastPlace(wrote'[g], i)]
          BY <3>5 DEF Touched, LastOf, LastPlace
        <5> QED BY ZenonT(60), <4>1, <5>1, LastPlaceIs
      <4>3. i \in TaskIds /\ task'[i] = (LastOf(g, i).after)' /\ i < nextTask'
        <5>1. n \in 1 .. Len(grant[g].plan) /\ st.made[n].id = i /\ \A m \in n + 1 .. Len(grant[g].plan) : st.made[m].id # i
          BY <4>1, <4>2
        <5>2. st.rows[i] = st.made[n].after /\ i < st.next
          BY <3>2, <5>1 DEF Good
        <5>3. st.made[n] \in Entry
          BY <4>1, <4>2
        <5> QED BY <3>1, <4>1, <4>2, <5>1, <5>2, <5>3 DEF Commit, Entry
      <4>4. lastBy'[i] = g
        BY <3>1, <4>1, <4>2, <4>3 DEF Commit
      <4>5. (LastOf(g, i).after.version)' \in Nat
        <5>1. wrote'[g][n] \in Entry
          BY <4>1, <4>2
        <5> QED BY <4>2, <5>1 DEF Entry, TaskRow
      <4> QED BY <4>3, <4>4, <4>5
    <3> QED BY <3>3, <3>4, <3>5 DEF GrownInv
  <2>3. CASE ~st.ok
    <3>1. UNCHANGED <<task, nextTask, lastBy, wrote>>
      BY <1>2, <2>3 DEF GrantWrites
    <3> QED BY <1>3, <3>1
  <2> QED BY <2>2, <2>3
<1>4. ASSUME SaveEdit PROVE GrownInv'
  <2>1. CASE UNCHANGED <<task, lastBy>>
    BY <1>3, <1>4, <2>1 DEF SaveEdit
  <2>2. CASE ~UNCHANGED <<task, lastBy>>
    <3>1. PICK row \in TaskRow : /\ tab.id \in TaskIds /\ task[tab.id] \in TaskRow
                             /\ task' = [task EXCEPT ![tab.id] = row] /\ row.version = task[tab.id].version + 1
                             /\ lastBy' = [lastBy EXCEPT ![tab.id] = "user"]
      BY <1>4, <2>2, SavedIs
    <3>2. tab.id \in TaskIds /\ task[tab.id] # NoTask
      BY <3>1, LedgerConstants
    <3>4. task[tab.id].version < task'[tab.id].version
      BY <3>1 DEF TaskRow, LedgerTypeOK
    <3>5. \A i \in TaskIds \ {tab.id} : task'[i] = task[i] /\ lastBy'[i] = lastBy[i]
      BY <3>1 DEF LedgerTypeOK
    <3> QED BY <1>3, <1>4, <3>1, <3>2, <3>4, <3>5 DEF SaveEdit
  <2> QED BY <2>1, <2>2
<1>5. ASSUME NEW writes \in Seq(Grants), Undo(writes) PROVE GrownInv'
  <2>1. \A i \in TaskIds : TakenBack(Reverted(writes).rows, writes, i)
    BY <1>5, RevertedGood DEF Undo
  <2>2. task' = Reverted(writes).rows /\ UNCHANGED <<nextTask, wrote>>
        /\ lastBy' = [i \in TaskIds |-> IF Reverted(writes).rows[i] # task[i] THEN "undo" ELSE lastBy[i]]
    BY <1>5 DEF Undo
  <2> QED BY <1>3, <2>1, <2>2 DEF TakenBack
<1>6. ASSUME UNCHANGED <<task, nextTask, lastBy, wrote>> PROVE GrownInv'
  BY <1>3, <1>6
<1>7. ASSUME UndoOne PROVE GrownInv'
  <2>1. PICK g \in Grants : Undo(<<g>>)
    BY <1>7 DEF UndoOne
  <2>2. <<g>> \in Seq(Grants)
    OBVIOUS
  <2> QED BY <1>5, <2>1, <2>2
<1>8. ASSUME UndoRun PROVE GrownInv'
  BY <1>5, <1>8 DEF UndoRun, LedgerTypeOK
<1>9. \/ UNCHANGED <<task, nextTask, lastBy, wrote>> \/ ApplyPlan \/ SaveEdit \/ UndoOne \/ UndoRun
      \/ \E g \in Grants : GrantWrites(g)
  BY DEF LedgerNext, StatePlan, Reserve, GrantCancelled, GrantEnds, OpenEdit, ledgerVars
<1> QED BY <1>1, <1>2, <1>4, <1>6, <1>7, <1>8, <1>9

\* A write that returned is recorded for the run once.
LEMMA UsesStep == LedgerTypeOK /\ UsesInv /\ [LedgerNext]_ledgerVars => UsesInv'
<1> SUFFICES ASSUME LedgerTypeOK, UsesInv, [LedgerNext]_ledgerVars PROVE UsesInv'
  OBVIOUS
<1>0. /\ uses \in Seq(Grants) /\ Len(uses) \in Nat /\ grant \in [Grants -> GrantedCall]
      /\ \A n \in 1 .. Len(uses) : uses[n] \in Grants /\ grant[uses[n]].at = "done"
      /\ \A m, n \in 1 .. Len(uses) : uses[m] = uses[n] => m = n
  BY DEF LedgerTypeOK, UsesInv
<1>1. ASSUME uses' = uses, \A h \in Grants : grant[h].at = "done" => grant'[h].at = "done" PROVE UsesInv'
  BY <1>0, <1>1 DEF UsesInv
<1>2. ASSUME NEW g \in Grants, Reserve(g) \/ GrantWrites(g) \/ GrantCancelled(g) PROVE UsesInv'
  <2>1. grant[g].at # "done" /\ uses' = uses /\ \A h \in Grants \ {g} : grant'[h] = grant[h]
    BY <1>0, <1>2 DEF Reserve, GrantWrites, GrantCancelled
  <2> QED BY <1>1, <2>1
<1>3. ASSUME NEW g \in Grants, GrantEnds(g) PROVE UsesInv'
  <2>1. /\ grant[g].at \in {"committed", "refused"} /\ \A h \in Grants \ {g} : grant'[h] = grant[h]
        /\ grant'[g].at = "done"
    BY <1>0, <1>3 DEF GrantEnds, GrantedCall
  <2>2. CASE uses' = uses
    BY <1>1, <2>1, <2>2
  <2>3. CASE uses' = Append(uses, g)
    <3>1. /\ Len(uses') = Len(uses) + 1 /\ uses'[Len(uses) + 1] = g
          /\ \A n \in 1 .. Len(uses) : uses'[n] = uses[n]
      BY <1>0, <2>3
    <3>2. \A n \in 1 .. Len(uses) : uses[n] # g
      BY <1>0, <2>1
    <3>3. \A n \in 1 .. Len(uses) + 1 : n = Len(uses) + 1 \/ n \in 1 .. Len(uses)
      BY <1>0
    <3>4. \A n \in 1 .. Len(uses') : grant'[uses'[n]].at = "done"
      BY <1>0, <2>1, <3>1, <3>2, <3>3
    <3>5. ASSUME NEW m \in 1 .. Len(uses'), NEW n \in 1 .. Len(uses'), uses'[m] = uses'[n] PROVE m = n
      BY <1>0, <3>1, <3>2, <3>3, <3>5
    <3> QED BY <3>4, <3>5 DEF UsesInv
  <2> QED BY <1>3, <2>2, <2>3 DEF GrantEnds
<1>4. CASE UNCHANGED <<uses, grant>>
  BY <1>1, <1>4
<1> QED BY <1>2, <1>3, <1>4 DEF LedgerNext, StatePlan, ApplyPlan, OpenEdit, SaveEdit, UndoOne, UndoRun, Undo, ledgerVars

\* What a write was the last to change stays as it is until somebody else changes it.
LEMMA LeftStep ==
  LedgerTypeOK /\ LedgerTypeOK' /\ CapInv /\ GrownInv /\ LeftInv /\ [LedgerNext]_ledgerVars => LeftInv'
<1> SUFFICES ASSUME LedgerTypeOK, LedgerTypeOK', CapInv, GrownInv, LeftInv, [LedgerNext]_ledgerVars,
                    NEW g \in Grants, NEW i \in TaskIds, lastBy'[i] = g
             PROVE  i \in Touched(g)' /\ task'[i] = (LastOf(g, i).after)'
  BY DEF LeftInv
<1>0. "nobody" \notin Grants /\ "card" \notin Grants /\ "user" \notin Grants /\ "undo" \notin Grants
  BY LedgerConstants
<1>1. ASSUME lastBy'[i] = lastBy[i], task'[i] = task[i], wrote'[g] = wrote[g]
      PROVE  i \in Touched(g)' /\ task'[i] = (LastOf(g, i).after)'
  <2>1. i \in Touched(g) /\ task[i] = LastOf(g, i).after
    BY <1>1 DEF LeftInv
  <2>2. Touched(g)' = Touched(g)
    BY <1>1, Zenon DEF Touched
  <2>3. (LastOf(g, i).after)' = LastOf(g, i).after
    BY <1>1, ZenonT(30) DEF LastOf
  <2> QED BY <1>1, <2>1, <2>2, <2>3, Zenon
<1>2. ASSUME NEW plan \in Seq(Changes), NEW pins, NEW who, Applied(plan, pins).ok, Fits(Applied(plan, pins)),
             Commit(Applied(plan, pins), who), who # g
      PROVE  lastBy'[i] = lastBy[i] /\ task'[i] = task[i]
  <2> DEFINE st == Applied(plan, pins)
  <2>1. Good(st, plan, Len(plan))
    BY <1>2, AppliedGood DEF GrownInv
  <2> HIDE DEF st
  <2>2. Len(st.made) = Len(plan) /\ \A n \in 1 .. Len(plan) : st.made[n].id # i
    BY <1>2, <2>1 DEF Good, Commit, st
  <2>3. lastBy'[i] = lastBy[i]
    BY <1>2, <2>2 DEF Commit, st
  <2>4. task'[i] = task[i]
    BY <1>2, <2>1, <2>2 DEF Good, Commit, st
  <2> QED BY <2>3, <2>4
<1>3. CASE ApplyPlan
  <2> DEFINE st == Applied(card.plan, card.pins)
  <2>1. card.plan \in Seq(Changes) /\ wrote' = wrote
    BY <1>3, PlanTypes DEF LedgerTypeOK, StatedPlan, ApplyPlan
  <2>2. CASE st.ok
    <3>1. Commit(st, "card") /\ Fits(st)
      BY <1>3, <2>2 DEF ApplyPlan
    <3>2. lastBy'[i] = lastBy[i] /\ task'[i] = task[i]
      <4>1. "card" # g
        BY <1>0
      <4> QED BY <1>2, <2>1, <2>2, <3>1, <4>1
    <3> QED BY <1>1, <2>1, <3>2
  <2>3. CASE ~st.ok
    BY <1>1, <1>3, <2>1, <2>3 DEF ApplyPlan
  <2> QED BY <2>2, <2>3
<1>4. ASSUME NEW h \in Grants, GrantWrites(h) PROVE i \in Touched(g)' /\ task'[i] = (LastOf(g, i).after)'
  <2> DEFINE plan == grant[h].plan
             st == Applied(plan, Unpinned(plan))
  <2>1. plan \in Seq(Changes) /\ wrote[h] = <<>>
    BY <1>4, PlanTypes DEF LedgerTypeOK, GrantedCall, GrantWrites, CapInv
  <2>2. CASE st.ok
    <3>1. Commit(st, h) /\ Fits(st) /\ wrote' = [wrote EXCEPT ![h] = st.made]
      BY <1>4, <2>2 DEF GrantWrites
    <3>2. CASE g # h
      <4>1. lastBy'[i] = lastBy[i] /\ task'[i] = task[i]
        <5> HIDE DEF st, plan
        <5> QED BY <1>2, <2>1, <2>2, <3>1, <3>2 DEF st
      <4>2. wrote'[g] = wrote[g]
        BY <3>1, <3>2 DEF LedgerTypeOK
      <4> QED BY <1>1, <4>1, <4>2
    <3>3. CASE g = h
      <4>1. Good(st, plan, Len(plan))
        BY <2>1, <2>2, <3>1, AppliedGood DEF GrownInv
      <4>2. wrote'[h] = st.made /\ wrote'[h] \in Seq(Entry) /\ Len(st.made) = Len(plan)
        BY <3>1, <4>1 DEF LedgerTypeOK, Good
      <4>3. \E n \in 1 .. Len(st.made) : st.made[n].id = i
        <5> SUFFICES ASSUME \A n \in 1 .. Len(st.made) : st.made[n].id # i PROVE FALSE
          OBVIOUS
        <5>1. lastBy'[i] = lastBy[i]
          BY <3>1 DEF Commit
        <5>2. i \in Touched(h)
          BY <3>3, <5>1 DEF LeftInv
        <5>3. Touched(h) = {}
          <6>1. Len(wrote[h]) = 0
            BY <2>1
          <6> QED BY <6>1 DEF Touched
        <5> QED BY <5>2, <5>3
      <4> HIDE DEF st, plan
      <4>4. i \in Touched(h)'
        BY <4>2, <4>3 DEF Touched
      <4>5. PICK n \in 1 .. Len(wrote'[h]) : /\ LastOf(h, i)' = wrote'[h][n] /\ wrote'[h][n].id = i
                                             /\ \A m \in n + 1 .. Len(wrote'[h]) : wrote'[h][m].id # i
        <5>1. i \in {wrote'[h][k].id : k \in 1 .. Len(wrote'[h])} /\ LastOf(h, i)' = wrote'[h][LastPlace(wrote'[h], i)]
          BY <4>4 DEF Touched, LastOf, LastPlace
        <5> QED BY ZenonT(60), <4>2, <5>1, LastPlaceIs
      <4>6. task'[i] = (LastOf(h, i).after)'
        <5>1. n \in 1 .. Len(plan) /\ st.made[n].id = i /\ \A m \in n + 1 .. Len(plan) : st.made[m].id # i
          BY <4>2, <4>5
        <5>2. st.rows[i] = st.made[n].after
          BY <4>1, <5>1 DEF Good
        <5> QED BY <3>1, <4>2, <4>5, <5>1, <5>2 DEF Commit
      <4> QED BY <3>3, <4>4, <4>6
    <3> QED BY <3>2, <3>3
  <2>3. CASE ~st.ok
    BY <1>1, <1>4, <2>3 DEF GrantWrites
  <2> QED BY <2>2, <2>3
<1>5. CASE SaveEdit
  <2>1. CASE UNCHANGED <<task, lastBy>>
    BY <1>1, <1>5, <2>1 DEF SaveEdit
  <2>2. CASE ~UNCHANGED <<task, lastBy>>
    <3>1. PICK row \in TaskRow : /\ tab.id \in TaskIds /\ task' = [task EXCEPT ![tab.id] = row]
                                 /\ lastBy' = [lastBy EXCEPT ![tab.id] = "user"]
      BY <1>5, <2>2, SavedIs
    <3>2. i # tab.id
      BY <1>0, <3>1 DEF LedgerTypeOK
    <3> QED BY <1>1, <1>5, <3>1, <3>2 DEF SaveEdit, LedgerTypeOK
  <2> QED BY <2>1, <2>2
<1>6. ASSUME NEW writes, Undo(writes) PROVE i \in Touched(g)' /\ task'[i] = (LastOf(g, i).after)'
  <2>1. /\ task' = Reverted(writes).rows /\ UNCHANGED wrote
        /\ lastBy' = [j \in TaskIds |-> IF Reverted(writes).rows[j] # task[j] THEN "undo" ELSE lastBy[j]]
    BY <1>6 DEF Undo
  <2>2. task'[i] = task[i] /\ lastBy'[i] = lastBy[i]
    BY <1>0, <2>1
  <2> QED BY <1>1, <2>1, <2>2
<1>7. CASE UNCHANGED <<task, lastBy, wrote>>
  BY <1>1, <1>7
<1> QED BY <1>3, <1>4, <1>5, <1>6, <1>7
        DEF LedgerNext, StatePlan, Reserve, GrantCancelled, GrantEnds, OpenEdit, UndoOne, UndoRun, ledgerVars

----------------------------------------------------------------------------
(* What is promised. *)

\* LedgerInv is inductive, and the first state has it.
LEMMA LedgerInvariance == LedgerSpec => []LedgerInv
<1>1. LedgerInit => LedgerInv
  <2> SUFFICES ASSUME LedgerInit PROVE LedgerInv
    OBVIOUS
  <2>1. LedgerTypeOK
    <3>1. MaxTasks \in Nat /\ Cap \in Nat
      BY LedgerConstants
    <3>2. task \in [TaskIds -> {NoTask} \cup TaskRow] /\ nextTask \in 1 .. MaxTasks + 1 /\ used \in 0 .. Cap
      BY <3>1 DEF LedgerInit
    <3>3. <<>> \in Seq(Pins) /\ <<>> \in Seq(TaskIds) /\ <<>> \in Seq(Entry) /\ <<>> \in Seq(Grants)
      OBVIOUS
    <3>4. card \in StatedPlan
      BY <3>3 DEF LedgerInit, NoCard, StatedPlan
    <3>5. grant \in [Grants -> GrantedCall]
      BY DEF LedgerInit, GrantedCall
    <3>6. wrote \in [Grants -> Seq(Entry)] /\ uses \in Seq(Grants) /\ undone \subseteq Grants
      BY <3>3 DEF LedgerInit
    <3>7. tab = NoTask /\ lastBy \in [TaskIds -> Grants \cup {"nobody", "card", "user", "undo"}]
      BY DEF LedgerInit
    <3> QED BY <3>2, <3>4, <3>5, <3>6, <3>7 DEF LedgerTypeOK
  <2>2. PinsInv /\ ShownIsChanged
    BY DEF LedgerInit, NoCard, PinsInv, ShownIsChanged, Unpinned
  <2>6. UsesInv /\ LeftInv
    <3>1. Len(uses) = 0 /\ \A i \in TaskIds : lastBy[i] \notin Grants
      BY LedgerConstants DEF LedgerInit
    <3> QED BY <3>1 DEF UsesInv, LeftInv
  <2>3. \A g \in Grants : grant[g].at = "idle" /\ wrote[g] = <<>> /\ Len(wrote[g]) = 0 /\ Due(g) = 0
    BY DEF LedgerInit, Due
  <2>4. CapInv
    <3>1. Taken = {}
      BY <2>3 DEF Taken
    <3> QED BY <2>3, <3>1, FS_EmptySet DEF CapInv, LedgerInit
  <2>5. GrownInv
    <3>1. \A g \in Grants : Touched(g) = {}
      BY <2>3 DEF Touched
    <3> QED BY <3>1 DEF GrownInv, LedgerInit
  <2> QED BY <2>1, <2>2, <2>4, <2>5, <2>6 DEF LedgerInv
<1>2. LedgerInv /\ [LedgerNext]_ledgerVars => LedgerInv'
  BY LedgerTypeStep, PinsStep, CapStep, GrownStep, UsesStep, LeftStep DEF LedgerInv
<1> QED BY <1>1, <1>2, PTL DEF LedgerSpec

\* A confirmed plan whose card could be checked changes the tasks the card named and those it
\* creates, whatever was renamed, added or removed meanwhile (_check_ledger_plan, PIN_KEY).
THEOREM PlanAsShown == LedgerSpec => []ShownIsChanged
<1>1. LedgerInv => ShownIsChanged
  BY DEF LedgerInv
<1> QED BY <1>1, LedgerInvariance, PTL

\* One run's granted calls change no more than the cap, however many of them run at a time
\* and whenever they are cancelled (GrantRunCounts).
THEOREM CapHolds == LedgerSpec => []WithinCap
<1>1. LedgerInv => WithinCap
  <2> SUFFICES ASSUME LedgerInv PROVE Cardinality(Made) <= Cap
    BY DEF WithinCap
  <2>1. ASSUME NEW g \in Grants PROVE {g} \X (1 .. Len(wrote[g])) \subseteq {g} \X (1 .. Due(g))
    <3>1. Len(wrote[g]) <= Due(g) /\ Len(wrote[g]) \in Nat /\ Due(g) \in Nat
      BY DueIsNat DEF LedgerInv, CapInv
    <3>2. 1 .. Len(wrote[g]) \subseteq 1 .. Due(g)
      BY <3>1
    <3> QED BY <3>2
  <2>2. Made \subseteq Taken
    BY <2>1 DEF Made, Taken
  <2>3. IsFiniteSet(Taken) /\ Cardinality(Taken) <= used /\ used <= Cap /\ used \in Nat /\ Cap \in Nat
    BY LedgerConstants DEF LedgerInv, CapInv, LedgerTypeOK
  <2>4. IsFiniteSet(Made) /\ Cardinality(Made) <= Cardinality(Taken)
    BY <2>2, <2>3, FS_Subset
  <2>5. Cardinality(Made) \in Nat /\ Cardinality(Taken) \in Nat
    BY <2>3, <2>4, FS_CardinalityType
  <2> QED BY <2>3, <2>4, <2>5
<1> QED BY <1>1, LedgerInvariance, PTL

\* A task an undo changes or removes was changed last by a write that this undo takes back:
\* nobody's later edit is lost (undo_write, _revert).
THEOREM UndoKeepsEdits == LedgerSpec => UndoLosesNothing
<1> DEFINE Loses == \A i \in TaskIds : undone' # undone /\ task'[i] # task[i] => lastBy[i] \in undone' \ undone
<1>1. LedgerInv /\ [LedgerNext]_ledgerVars => [Loses]_ledgerVars
  <2> SUFFICES ASSUME LedgerInv, [LedgerNext]_ledgerVars PROVE Loses
    OBVIOUS
  <2>1. ASSUME NEW writes \in Seq(Grants), Undo(writes) PROVE Loses
    <3>1. \A i \in TaskIds : TakenBack(Reverted(writes).rows, writes, i)
      BY <2>1, RevertedGood DEF Undo, LedgerInv
    <3>2. task' = Reverted(writes).rows /\ undone' = undone \cup Pending(writes)
      BY <2>1 DEF Undo
    <3>3. Pending(writes) \cap undone = {}
      BY DEF Pending
    <3> QED BY <3>1, <3>2, <3>3 DEF TakenBack
  <2>2. CASE UNCHANGED undone
    BY <2>2
  <2>3. CASE UndoOne
    <3>1. PICK g \in Grants : Undo(<<g>>)
      BY <2>3 DEF UndoOne
    <3>2. <<g>> \in Seq(Grants)
      OBVIOUS
    <3> QED BY <2>1, <3>1, <3>2
  <2>4. CASE UndoRun
    BY <2>1, <2>4 DEF UndoRun, LedgerInv, LedgerTypeOK
  <2>5. UNCHANGED undone \/ UndoOne \/ UndoRun
    BY DEF LedgerNext, StatePlan, ApplyPlan, Reserve, GrantWrites, GrantCancelled, GrantEnds, OpenEdit, SaveEdit, ledgerVars
  <2> QED BY <2>2, <2>3, <2>4, <2>5
<1> QED BY <1>1, LedgerInvariance, PTL DEF LedgerSpec, UndoLosesNothing

\* An undo gives back: each task that a write it takes back had changed is, title and status, as
\* that write found it, and what the write created is gone (undo_write, undo_run, _revert).
THEOREM UndoGivesBack == LedgerSpec => UndoRestores
<1> DEFINE Gives == \A g \in undone' \ undone : \A i \in Touched(g) : Restored(task'[i], g, i)
<1>1. LedgerInv /\ [LedgerNext]_ledgerVars => [Gives]_ledgerVars
  <2> SUFFICES ASSUME LedgerInv, [LedgerNext]_ledgerVars PROVE Gives
    OBVIOUS
  <2>1. ASSUME NEW writes \in Seq(Grants), Undo(writes) PROVE Gives
    <3>1. \A g \in Pending(writes) : \A i \in Touched(g) : Restored(Reverted(writes).rows[i], g, i)
      BY <2>1, RevertedGood DEF Undo, LedgerInv
    <3>2. task' = Reverted(writes).rows /\ undone' = undone \cup Pending(writes)
      BY <2>1 DEF Undo
    <3> QED BY <3>1, <3>2
  <2>2. CASE UNCHANGED undone
    BY <2>2
  <2>3. CASE UndoOne
    <3>1. PICK g \in Grants : Undo(<<g>>)
      BY <2>3 DEF UndoOne
    <3>2. <<g>> \in Seq(Grants)
      OBVIOUS
    <3> QED BY <2>1, <3>1, <3>2
  <2>4. CASE UndoRun
    BY <2>1, <2>4 DEF UndoRun, LedgerInv, LedgerTypeOK
  <2>5. UNCHANGED undone \/ UndoOne \/ UndoRun
    BY DEF LedgerNext, StatePlan, ApplyPlan, Reserve, GrantWrites, GrantCancelled, GrantEnds, OpenEdit, SaveEdit, ledgerVars
  <2> QED BY <2>2, <2>3, <2>4, <2>5
<1>2. [Gives]_ledgerVars => [\A g \in undone' \ undone : \A i \in Touched(g) :
        LET before == FirstOf(g, i).before IN
        IF before = NoTask THEN task'[i] = NoTask
        ELSE task'[i] # NoTask /\ task'[i].title = before.title /\ task'[i].status = before.status]_ledgerVars
  BY DEF Restored
<1> QED BY <1>1, <1>2, LedgerInvariance, PTL DEF LedgerSpec, UndoRestores

\* And that is how it was: what a write records of a task is the task as the write found it, over
\* all the changes its plan makes to it (_apply_in).
THEOREM RecordIsTrue == LedgerSpec => RecordsAsFound
<1> DEFINE True == \A g \in Grants : wrote'[g] # wrote[g] => \A i \in Touched(g)' : (FirstOf(g, i).before)' = task[i]
<1>1. LedgerInv /\ LedgerInv' /\ [LedgerNext]_ledgerVars => [True]_ledgerVars
  <2> SUFFICES ASSUME LedgerInv, LedgerInv', [LedgerNext]_ledgerVars, NEW g \in Grants, wrote'[g] # wrote[g],
                      NEW i \in Touched(g)'
               PROVE  (FirstOf(g, i).before)' = task[i]
    OBVIOUS
  <2>1. GrantWrites(g)
    <3>1. ASSUME NEW h \in Grants, GrantWrites(h) PROVE h = g
      BY <3>1 DEF GrantWrites, LedgerInv, LedgerTypeOK
    <3>2. (\E h \in Grants : GrantWrites(h)) \/ UNCHANGED wrote
      BY DEF LedgerNext, StatePlan, ApplyPlan, Reserve, GrantCancelled, GrantEnds, OpenEdit, SaveEdit,
             UndoOne, UndoRun, Undo, ledgerVars
    <3> QED BY <3>1, <3>2
  <2> DEFINE plan == grant[g].plan
             st == Applied(plan, Unpinned(plan))
  <2>2. plan \in Seq(Changes)
    BY PlanTypes DEF LedgerInv, LedgerTypeOK, GrantedCall
  <2>3. st.ok /\ Fits(st) /\ wrote'[g] = st.made
    BY <2>1 DEF GrantWrites, LedgerInv, LedgerTypeOK
  <2>4. Good(st, plan, Len(plan))
    BY <2>2, <2>3, AppliedGood DEF LedgerInv, GrownInv
  <2>5. wrote'[g] \in Seq(Entry) /\ Len(wrote'[g]) = Len(plan) /\ Recorded(wrote'[g], Len(plan))
    BY <2>3, <2>4 DEF Good
  <2> HIDE DEF st, plan
  <2>6. i \in {wrote'[g][n].id : n \in 1 .. Len(wrote'[g])} /\ FirstOf(g, i)' = wrote'[g][FirstPlace(wrote'[g], i)]
    BY DEF Touched, FirstOf, FirstPlace
  <2>7. PICK n \in 1 .. Len(wrote'[g]) : /\ FirstOf(g, i)' = wrote'[g][n] /\ wrote'[g][n].id = i
                                         /\ \A m \in 1 .. n - 1 : wrote'[g][m].id # i
    BY ZenonT(60), <2>5, <2>6, FirstPlaceIs
  <2>8. wrote'[g][n].before = task[wrote'[g][n].id]
    BY <2>5, <2>7 DEF Recorded
  <2> QED BY <2>7, <2>8
<1> QED BY <1>1, LedgerInvariance, PTL DEF LedgerSpec, RecordsAsFound

\* "Undo all" takes everything back where each task is as the one write of the run that changed it
\* left it.  (Where two writes of the run changed one task, it may refuse: the run ledger_undo_all.)
THEOREM UndoAllApart == LedgerSpec => []UndoAllOfApart
<1>1. LedgerInv => UndoAllOfApart
  <2> SUFFICES ASSUME LedgerInv, \A g \in Pending(uses) : \A i \in Touched(g) : lastBy[i] = g
               PROVE  Reverted(uses).ok
    BY DEF UndoAllOfApart
  <2> DEFINE L == Len(uses)
  <2>0. L \in Nat /\ uses \in Seq(Grants) /\ (\A m, n \in 1 .. L : uses[m] = uses[n] => m = n)
    BY DEF LedgerInv, LedgerTypeOK, UsesInv
  <2>1. PICK f : UndoneOf(f, uses) /\ Reverted(uses) = f[L]
    BY <2>0, RevertedIs
  <2>2. ASSUME NEW g \in Pending(uses), NEW i \in Touched(g)
        PROVE  i \in TaskIds /\ task[i] # NoTask /\ task[i] = LastOf(g, i).after
    <3>1. g \in Grants /\ wrote[g] \in Seq(Entry)
      BY <2>0 DEF LedgerInv, LedgerTypeOK, Pending
    <3>2. PICK n \in 1 .. Len(wrote[g]) : LastOf(g, i) = wrote[g][n] /\ wrote[g][n].id = i
      BY <3>1, LastIs
    <3>3. wrote[g][n] \in Entry
      BY <3>1
    <3>4. i \in TaskIds /\ LastOf(g, i).after \in TaskRow
      BY <3>2, <3>3 DEF Entry
    <3>5. task[i] = LastOf(g, i).after
      BY <3>1, <3>4 DEF LedgerInv, LeftInv
    <3> QED BY <3>4, <3>5, LedgerConstants
  <2> DEFINE Fine(st, n) ==
               /\ st = [ok |-> st.ok, rows |-> st.rows] /\ st.ok
               /\ \A g \in Pending(uses) \ Processed(uses, n) : \A i \in Touched(g) : st.rows[i] = task[i]
             S == {n \in 0 .. L : Fine(f[n], n)}
  <2>3. 0 \in S
    <3>1. f[0] = [ok |-> TRUE, rows |-> task]
      BY <2>0, <2>1 DEF UndoneOf
    <3> QED BY <2>0, <3>1
  <2>4. ASSUME NEW n \in 0 .. L, n < L, n \in S PROVE n + 1 \in S
    <3> DEFINE st == f[n]
               g == uses[L + 1 - (n + 1)]
               new == f[n + 1]
    <3>1. n + 1 \in 0 .. L /\ n + 1 # 0 /\ n + 1 - 1 = n /\ L + 1 - (n + 1) \in 1 .. L
      BY <2>0, <2>4
    <3>2. new = Undone(st, g)
      <4>1. ASSUME NEW k \in 0 .. L, k # 0 PROVE f[k] = Undone(f[k - 1], uses[L + 1 - k])
        BY <2>1, <4>1 DEF UndoneOf
      <4> DEFINE k == n + 1
      <4>2. k \in 0 .. L /\ k # 0 /\ k - 1 = n
        BY <3>1
      <4>3. f[k] = Undone(f[k - 1], uses[L + 1 - k])
        <5> HIDE DEF k
        <5> QED BY <4>1, <4>2
      <4>4. f[k - 1] = f[n]
        BY <4>2
      <4> QED BY <4>3, <4>4
    <3>3. Fine(st, n)
      BY <2>4
    <3>4. Processed(uses, n + 1) = Processed(uses, n) \cup ({g} \ undone)
      <4>1. 1 .. n + 1 = (1 .. n) \cup {n + 1}
        BY <3>1
      <4> QED BY <4>1 DEF Processed
    <3>5. g \notin Processed(uses, n)
      <4> SUFFICES ASSUME NEW k \in 1 .. n, g = uses[L + 1 - k] PROVE FALSE
        BY DEF Processed
      <4>1. L + 1 - k \in 1 .. L /\ L + 1 - k # L + 1 - (n + 1)
        BY <2>0, <3>1
      <4> QED BY <2>0, <3>1, <4>1
    <3>6. g \in undone \/ g \in Pending(uses)
      BY <3>1 DEF Pending
    <3> HIDE DEF st, g, new
    <3>7. CASE g \in undone
      <4>1. new = st /\ Processed(uses, n + 1) = Processed(uses, n)
        BY <3>2, <3>4, <3>7 DEF Undone
      <4> QED BY <3>1, <3>3, <4>1 DEF new
    <3>8. CASE g \notin undone
      <4>1. \A i \in Touched(g) : st.rows[i] = task[i] /\ task[i] # NoTask /\ task[i] = LastOf(g, i).after
        BY <2>2, <3>3, <3>5, <3>6, <3>8
      <4>2. AsLeft(st.rows, g)
        BY <4>1 DEF AsLeft
      <4>3. new = [ok |-> TRUE, rows |-> PutBack(st.rows, g)]
        BY <3>2, <3>3, <3>8, <4>2 DEF Undone
      <4>4. ASSUME NEW h \in Pending(uses) \ Processed(uses, n + 1), NEW i \in Touched(h)
            PROVE  new.rows[i] = task[i]
        <5>1. h # g /\ h \in Pending(uses) \ Processed(uses, n)
          BY <3>4, <3>8
        <5>2. i \notin Touched(g)
          BY <3>6, <3>8, <5>1
        <5>3. i \in TaskIds
          BY <2>2
        <5>4. PutBack(st.rows, g)[i] = st.rows[i]
          BY <5>2, <5>3 DEF PutBack
        <5> QED BY <3>3, <4>3, <5>1, <5>4
      <4>5. Fine(new, n + 1)
        BY <4>3, <4>4
      <4> QED BY <3>1, <4>5 DEF new
    <3> QED BY <3>7, <3>8
  <2>5. L \in S
    <3> HIDE DEF S, L
    <3>1. \A n \in 0 .. L : n < L /\ n \in S => n + 1 \in S
      BY <2>4
    <3>2. 0 .. L \subseteq S
      BY <2>0, <2>3, <3>1, Induct
    <3> QED BY <2>0, <3>2
  <2> QED BY <2>1, <2>5
<1> QED BY <1>1, LedgerInvariance, PTL

=============================================================================
