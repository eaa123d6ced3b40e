----------------------- MODULE PendingConfirm_proofs -----------------------
(***************************************************************************)
(* Theorems about PendingConfirm.  TypeCorrect is by induction on the      *)
(* steps.  Safety needs IInv: claims are exclusive, the step a request is  *)
(* at tells what it holds (HandsInv), an action that ran keeps its claim   *)
(* and its holder is past the run (RanInv), and a refused one is sealed    *)
(* (RefusedInv).  SafetyStep has one step per action.                      *)
(***************************************************************************)
EXTENDS PendingConfirm, TLAPS

USE DEF At, On, Goto, files, world, scope, lists

\* Every record the code writes has the shape of a record: PendingStore.save writes whole records.
LEMMA RecordTypes ==
  /\ Absent \in Record
  /\ Opened \in Record
  /\ NoCopies \in [Actions -> Record]
  /\ \A r \in Record, o \in Outcomes : Ended(r, o) \in Record
  /\ \A r \in Record, p \in Requests \cup {None} : Owned(r, p) \in Record
BY DEF Absent, Opened, NoCopies, Record, Outcomes, Ended, Owned

\* A request that ends, answered or crashed, leaves its locals well-typed.
LEMMA LeaveType ==
  ASSUME TypeOK, NEW p \in Requests, NEW s \in Steps, NEW a \in Actions \cup {None},
         NEW t \in Answers, Leave(p, s, a, t)
  PROVE  /\ route' \in [Requests -> RouteNames]
         /\ pc' \in [Requests -> Steps]
         /\ late' \in [Requests -> SUBSET Actions]
         /\ todo' \in [Requests -> SUBSET Actions]
         /\ work' \in [Requests -> SUBSET Actions]
         /\ held' \in [Requests -> SUBSET Actions]
         /\ cur' \in [Requests -> Actions \cup {None}]
         /\ snap' \in [Requests -> [Actions -> Record]]
         /\ told' \in [Requests -> Answers]
BY RecordTypes DEF Leave, TypeOK

\* Moving a request to a step keeps pc well-typed.
LEMMA GotoType ==
  ASSUME TypeOK, NEW p \in Requests, NEW s \in Steps, Goto(p, s)
  PROVE  pc' \in [Requests -> Steps]
BY DEF TypeOK

\* PendingStore.resolve writes a record, whatever copy it resolves.
LEMMA ResolveType ==
  ASSUME TypeOK, NEW p \in Requests, NEW a \in Actions \cup {None}, NEW o \in Outcomes,
     Resolve(p, a, o)
  PROVE  rec' \in [Actions -> Record] /\ claim' = claim
<1>1. CASE a \in Actions
  BY <1>1, RecordTypes DEF Resolve, TypeOK
<1>2. CASE a = None
  BY <1>2, ConstantsAssumption DEF Resolve, TypeOK
<1> QED BY <1>1, <1>2

\* Writing back the copy of a claimed record writes a record (claim's save, _apply's save).
LEMMA SaveCopyType ==
  ASSUME TypeOK, NEW p \in Requests, SaveCopy(p)
  PROVE  rec' \in [Actions -> Record]
<1>1. CASE cur[p] \in Actions
  BY <1>1 DEF SaveCopy, TypeOK
<1>2. CASE cur[p] = None
  BY <1>2, ConstantsAssumption DEF SaveCopy, TypeOK
<1> QED BY <1>1, <1>2 DEF TypeOK

\* What Reopen writes.
ReopenedRec(p) == rec' = [rec EXCEPT ![cur[p]] = Owned(snap[p][cur[p]], None)]

\* release_claim writes a record back.
LEMMA ReopenedType ==
  ASSUME TypeOK, NEW p \in Requests, ReopenedRec(p)
  PROVE  rec' \in [Actions -> Record]
<1>1. CASE cur[p] \in Actions
  BY <1>1, RecordTypes DEF ReopenedRec, TypeOK
<1>2. CASE cur[p] = None
  BY <1>2, ConstantsAssumption DEF ReopenedRec, TypeOK
<1> QED BY <1>1, <1>2 DEF TypeOK

\* Counting runs keeps the counts natural numbers.
LEMMA RanAllType ==
  ASSUME TypeOK, NEW S
  PROVE  RanAll(S) \in [Actions -> Nat]
BY DEF TypeOK, RanAll

\* Every step of a route, of the clock and of a crash keeps the variables well-typed.
LEMMA TypeStep == TypeOK /\ [Next]_vars => TypeOK'
<1> SUFFICES ASSUME TypeOK, [Next]_vars PROVE TypeOK'
  OBVIOUS
<1>1. ASSUME NEW a \in Actions, Propose(a) PROVE TypeOK'
  BY <1>1, RecordTypes DEF Propose, NewCard, TypeOK
<1>2. ASSUME NEW a \in Actions, PassTime(a) PROVE TypeOK'
  BY <1>2 DEF PassTime, TypeOK
<1>3. ASSUME NEW p \in Requests, NEW r \in RouteNames, NEW T \in SUBSET Actions, Begin(p, r,
      T) PROVE TypeOK'
  BY <1>3 DEF Begin, Start, TypeOK, Steps
<1>4. ASSUME NEW p \in Requests, Crash(p) PROVE TypeOK'
  BY <1>4, LeaveType DEF Crash, TypeOK, Steps, Answers
<1>5. ASSUME NEW p \in Requests, NEW a \in Actions, ScanRead(p, a) PROVE TypeOK'
  <2>1. CASE rec[a].outcome = "open"
    <3>1. /\ pc' = [pc EXCEPT ![p] = "expire"]
          /\ cur' = [cur EXCEPT ![p] = a]
          /\ snap' = [snap EXCEPT ![p][a] = rec[a]]
          /\ UNCHANGED <<rec, claim, due, ran, route, late, todo, work, held, told>>
      BY <1>5, <2>1 DEF ScanRead
    <3> QED BY <3>1 DEF TypeOK, Steps
  <2>2. CASE rec[a].outcome # "open"
    BY ZenonT(60), <1>5, <2>2 DEF ScanRead, TypeOK
  <2> QED BY <2>1, <2>2
<1>6. ASSUME NEW p \in Requests, ScanWrite(p) PROVE TypeOK'
  BY <1>6, ResolveType DEF ScanWrite, TypeOK, Steps, Outcomes
<1>7. ASSUME NEW p \in Requests, Swept(p) PROVE TypeOK'
  <2>1. CASE On(p, "list")
    BY <1>7, <2>1, LeaveType DEF Swept, Answered, TypeOK, Steps, Answers
  <2>2. CASE ~On(p, "list")
    BY <1>7, <2>2 DEF Swept, TypeOK, Steps
  <2> QED BY <2>1, <2>2
<1>8. ASSUME NEW p \in Requests, NEW a \in Actions, LookOpen(p, a) PROVE TypeOK'
  BY <1>8 DEF LookOpen, TypeOK, Steps
<1>9. ASSUME NEW p \in Requests, NEW a \in Actions, LookClosed(p, a) PROVE TypeOK'
  <2>1. CASE Answered(p, a, "already_resolved")
    BY <1>9, <2>1, LeaveType DEF LookClosed, Answered, TypeOK, Steps, Answers
  <2>2. CASE ~Answered(p, a, "already_resolved")
    <3>1. /\ pc' = [pc EXCEPT ![p] = "claim"] \/ pc' = [pc EXCEPT ![p] = "look"]
          /\ todo' = [todo EXCEPT ![p] = @ \ {a}]
          /\ UNCHANGED <<rec, claim, due, ran, route, late, work, held, cur, snap, told>>
      BY <1>9, <2>2 DEF LookClosed
    <3> QED BY <3>1 DEF TypeOK, Steps
  <2> QED BY <2>1, <2>2
<1>10. ASSUME NEW p \in Requests, NEW a \in Actions, Refuse(p, a) PROVE TypeOK'
  BY <1>10, LeaveType DEF Refuse, Answered, TypeOK, Steps, Answers
<1>11. ASSUME NEW p \in Requests, NEW a \in Actions, Claim(p, a) PROVE TypeOK'
  BY <1>11 DEF Claim, TypeOK, Steps
<1>12. ASSUME NEW p \in Requests, NEW a \in Actions, ClaimLost(p, a) PROVE TypeOK'
  <2>1. CASE On(p, "decline")
    <3>1. /\ pc' = [pc EXCEPT ![p] = "lost"]
          /\ cur' = [cur EXCEPT ![p] = a]
          /\ UNCHANGED <<rec, claim, due, ran, route, late, todo, work, held, snap, told>>
      BY <1>12, <2>1 DEF ClaimLost
    <3> QED BY <3>1 DEF TypeOK, Steps
  <2>2. CASE \E t \in {"already_resolved", "chat_deleted"} : Answered(p, a, t)
    <3>1. PICK t \in {"already_resolved", "chat_deleted"} : Leave(p, "done", a, t)
      BY <2>2 DEF Answered
    <3>2. t \in Answers /\ "done" \in Steps /\ UNCHANGED <<rec, claim, due, ran>>
      BY <1>12 DEF ClaimLost, Answers, Steps, world
    <3> QED BY <3>1, <3>2, LeaveType DEF TypeOK
  <2>3. CASE ~On(p, "decline") /\ ~\E t \in {"already_resolved", "chat_deleted"} : Answered(p, a, t)
    <3>1. /\ pc' = [pc EXCEPT ![p] = "apply"] \/ pc' = [pc EXCEPT ![p] = "claim"]
          /\ work' = [work EXCEPT ![p] = @ \ {a}]
          /\ UNCHANGED <<rec, claim, due, ran, route, late, todo, held, cur, snap, told>>
      BY <1>12, <2>3 DEF ClaimLost
    <3> QED BY <3>1 DEF TypeOK, Steps
  <2> QED BY <2>1, <2>2, <2>3
<1>13. ASSUME NEW p \in Requests, AnswerLost(p) PROVE TypeOK'
  BY <1>13, LeaveType DEF AnswerLost, Answered, TypeOK, Steps, Answers
<1>14. ASSUME NEW p \in Requests, ReadClaimed(p) PROVE TypeOK'
  BY ZenonT(60), <1>14, RecordTypes, ConstantsAssumption DEF ReadClaimed, TypeOK, Steps
<1>15. ASSUME NEW p \in Requests, Stamp(p) PROVE TypeOK'
  BY <1>15, SaveCopyType DEF Stamp, SaveCopy, AfterStamp, TypeOK, Steps
<1>16. ASSUME NEW p \in Requests, SaveConfirmation(p) PROVE TypeOK'
  BY <1>16, SaveCopyType DEF SaveConfirmation, SaveCopy, TypeOK, Steps
<1>17. ASSUME NEW p \in Requests, Drift(p) PROVE TypeOK'
  BY <1>17, ResolveType DEF Drift, TypeOK, Steps, Outcomes
<1>18. ASSUME NEW p \in Requests, RunTool(p) PROVE TypeOK'
  BY <1>18, RanAllType DEF RunTool, TypeOK, Steps
<1>19. ASSUME NEW p \in Requests, ToolRaises(p) PROVE TypeOK'
  BY <1>19, RanAllType DEF ToolRaises, TypeOK, Steps
<1>20. ASSUME NEW p \in Requests, RecordExecuted(p) PROVE TypeOK'
  BY <1>20, ResolveType DEF RecordExecuted, TypeOK, Steps, Outcomes
<1>21. ASSUME NEW p \in Requests, AuditRaises(p) PROVE TypeOK'
  BY <1>21 DEF AuditRaises, TypeOK, Steps
<1>22. ASSUME NEW p \in Requests, RecordFailed(p) PROVE TypeOK'
  BY <1>22, ResolveType, LeaveType DEF RecordFailed, Answered, TypeOK, Steps, Outcomes, Answers
<1>23. ASSUME NEW p \in Requests, Answer(p) PROVE TypeOK'
  BY <1>23, LeaveType DEF Answer, Answered, TypeOK, Steps, Answers
<1>24. ASSUME NEW p \in Requests, Settle(p) PROVE TypeOK'
  <2>1. CASE work[p] = {}
    BY <1>24, <2>1, ResolveType, LeaveType DEF Settle, Answered, Verdict, TypeOK, Steps,
       Outcomes, Answers
  <2>2. CASE work[p] # {}
    <3>1. /\ Resolve(p, cur[p], Verdict(route[p]))
          /\ pc' = [pc EXCEPT ![p] = "claim"]
          /\ held' = [held EXCEPT ![p] = @ \ {cur[p]}]
          /\ UNCHANGED <<due, ran, route, late, todo, work, cur, snap, told>>
      BY <1>24, <2>2 DEF Settle
    <3> QED BY <3>1, ResolveType DEF Verdict, TypeOK, Steps, Outcomes
  <2> QED BY <2>1, <2>2
<1>25. ASSUME NEW p \in Requests, NEW a \in Actions, SaveEdited(p, a) PROVE TypeOK'
  BY <1>25, RecordTypes DEF SaveEdited, NewCard, TypeOK, Steps
<1>26. ASSUME NEW p \in Requests, SettleEdited(p) PROVE TypeOK'
  BY <1>26, ResolveType DEF SettleEdited, Start, TypeOK, Steps, Outcomes, RouteNames
<1>27. ASSUME NEW p \in Requests, ApplyBatch(p) PROVE TypeOK'
  BY <1>27, RanAllType DEF ApplyBatch, TypeOK, Steps
<1>28. ASSUME NEW p \in Requests, BatchRefused(p) PROVE TypeOK'
  BY <1>28 DEF BatchRefused, TypeOK, Steps
<1>29. ASSUME NEW p \in Requests, BatchUnknown(p) PROVE TypeOK'
  BY <1>29, RanAllType DEF BatchUnknown, TypeOK, Steps
<1>30. ASSUME NEW p \in Requests, NEW a \in Actions, SettleBatch(p, a) PROVE TypeOK'
  <2>1. CASE held[p] = {a}
    BY <1>30, <2>1, ResolveType, LeaveType DEF SettleBatch, Answered, TypeOK, Steps, Outcomes,
       Answers
  <2>2. CASE held[p] # {a}
    BY ZenonT(60), <1>30, <2>2, ResolveType DEF SettleBatch, TypeOK, Outcomes
  <2> QED BY <2>1, <2>2
<1>31. ASSUME NEW p \in Requests, NEW a \in Actions, Unlink(p, a) PROVE TypeOK'
  BY <1>31 DEF Unlink, TypeOK, Steps
<1>32. ASSUME NEW p \in Requests, Reopen(p) PROVE TypeOK'
  <2>1. CASE held[p] = {}
    <3>1. /\ ReopenedRec(p)
          /\ Leave(p, "done", cur[p], "not_applied")
          /\ UNCHANGED <<claim, due, ran>>
      BY <1>32, <2>1 DEF Reopen, ReopenedRec, Answered
    <3> QED BY <3>1, ReopenedType, LeaveType DEF TypeOK, Steps, Answers
  <2>2. CASE held[p] # {}
    <3>1. /\ ReopenedRec(p)
          /\ pc' = [pc EXCEPT ![p] = "release"]
          /\ UNCHANGED <<claim, due, ran, route, late, todo, work, held, cur, snap, told>>
      BY <1>32, <2>2 DEF Reopen, ReopenedRec
    <3> QED BY <3>1, ReopenedType DEF TypeOK, Steps
  <2> QED BY <2>1, <2>2
<1>99. CASE UNCHANGED vars
  BY <1>99 DEF vars, TypeOK
<1> QED BY <1>1, <1>2, <1>3, <1>4, <1>5, <1>6, <1>7, <1>8, <1>9, <1>10, <1>11, <1>12, <1>13,
      <1>14, <1>15, <1>16, <1>17, <1>18, <1>19, <1>20, <1>21, <1>22, <1>23, <1>24, <1>25, <1>26,
            <1>27, <1>28, <1>29, <1>30, <1>31, <1>32, <1>99 DEF Next, Step

\* In every behaviour the files and the locals of every request have the shape the
\* code gives them, for any set of cards, requests, routes and events.
THEOREM TypeCorrect == Spec => []TypeOK
<1>1. Init => TypeOK
  BY RecordTypes DEF Init, TypeOK, RouteNames, Steps, Answers
<1> QED BY <1>1, TypeStep, PTL DEF Spec

\* A request that ends without touching a claim file breaks nobody else's claim, and a
\* sealed action (claimed, not run, not runnable) stays sealed.
LEMMA LeaveKeeps ==
  ASSUME IInv, TypeOK', NEW p \in Requests, NEW s \in {"done", "dead"}, NEW a, NEW t,
         Leave(p, s, a, t), claim' = claim, ran' = ran
  PROVE  /\ ClaimExclusive' /\ HandsInv' /\ RanInv'
         /\ \A b \in Actions : Sealed(b) => Sealed(b)'
<1> USE DEF IInv, TypeOK, Leave
<1>1. ClaimExclusive'
  BY DEF ClaimExclusive
<1>2. HandsInv'
  BY DEF HandsInv, Working, EmptyHanded
<1>3. RanInv'
  BY DEF RanInv
<1>4. \A b \in Actions : Sealed(b) => Sealed(b)'
  BY DEF Sealed
<1> QED BY <1>1, <1>2, <1>3, <1>4

\* What is told and recorded as refused stays sealed, if what becomes refused is sealed and
\* no copy a request holds says "refused".
LEMMA RefusedKeeps ==
  ASSUME IInv,
         \A q \in Requests, b \in Actions : snap'[q][b].outcome \notin Refusals,
         \A b \in Actions : Sealed(b) => Sealed(b)',
         \A b \in Actions : rec'[b].outcome \in Refusals => rec[b].outcome \in Refusals \/ Sealed(b)',
         \A q \in Requests : pc'[q] = "done" /\ told'[q] \in Refusals =>
            \/ pc[q] = "done" /\ told'[q] = told[q] /\ cur'[q] = cur[q]
            \/ cur'[q] \in Actions /\ Sealed(cur[q])'
  PROVE  RefusedInv'
<1>1. \A b \in Actions : rec'[b].outcome \in Refusals => Sealed(b)'
  BY DEF IInv, RefusedInv
<1>2. \A q \in Requests : pc'[q] = "done" /\ told'[q] \in Refusals => cur'[q] \in Actions /\ Sealed(cur[q])'
  BY DEF IInv, RefusedInv
<1> QED BY <1>1, <1>2 DEF RefusedInv

\* A request that ends without refusing anything preserves the invariant.
LEMMA LeaveIInv ==
  ASSUME IInv, TypeOK', NEW p \in Requests, NEW s \in {"done", "dead"}, NEW a, NEW t,
         Leave(p, s, a, t), claim' = claim, ran' = ran, t \notin Refusals,
         \A b \in Actions : rec'[b].outcome \in Refusals => rec[b].outcome \in Refusals
  PROVE  IInv'
<1>1. \A q \in Requests, b \in Actions : snap'[q][b].outcome \notin Refusals
  BY DEF IInv, RefusedInv, Leave, NoCopies, Absent, Refusals, TypeOK
<1>2. \A q \in Requests : pc'[q] = "done" /\ told'[q] \in Refusals =>
         pc[q] = "done" /\ told'[q] = told[q] /\ cur'[q] = cur[q]
  BY DEF IInv, Leave, TypeOK
<1>3. RefusedInv'
  BY <1>1, <1>2, LeaveKeeps, RefusedKeeps
<1> QED BY <1>3, LeaveKeeps DEF IInv

\* Running the calls of cards a request holds, before it recorded anything, preserves the
\* invariant: none of them ran before (execute_confirmed, apply_batch).
LEMMA RunKeeps ==
  ASSUME IInv, TypeOK', NEW p \in Requests, NEW S \in SUBSET held[p],
         pc[p] \in {"run", "apply"}, ran' = ran \/ ran' = RanAll(S),
         NEW s \in {"ran", "raised", "record", "fail"}, Goto(p, s),
         s \in {"ran", "raised"} => pc[p] = "run",
         UNCHANGED <<rec, claim, held, cur, snap, told>>
  PROVE  IInv'
<1> USE DEF IInv, TypeOK
<1>1. ClaimExclusive'
  BY DEF ClaimExclusive
<1>2. HandsInv'
  BY DEF HandsInv, Working, EmptyHanded
<1>3. \A a \in held[p] : ran[a] = 0
  BY DEF RanInv, AfterRun
<1>4. \A a \in Actions : ran'[a] = ran[a] \/ (a \in S /\ ran'[a] = 1)
  BY <1>3 DEF RanAll
<1>5. RanInv'
  BY <1>3, <1>4 DEF RanInv, AfterRun, ClaimExclusive
<1>6. \A a \in Actions : Sealed(a) => Sealed(a)'
  BY <1>4 DEF Sealed
<1>7. RefusedInv'
  BY <1>6 DEF RefusedInv
<1> QED BY <1>1, <1>2, <1>5, <1>7

\* Reading records and moving on before any claim preserves the invariant (expire_due,
\* explicit, open_actions, a lost claim).
LEMMA ReadKeeps ==
  ASSUME IInv, TypeOK', NEW p \in Requests, NEW s, Goto(p, s),
         pc[p] \in {"scan", "look", "claim"}, s \in {"expire", "look", "claim", "lost", "apply"},
         s \in EmptyHanded => held[p] = {},
         s \in {"expire", "lost"} => cur'[p] \in Actions,
         cur' = [cur EXCEPT ![p] = cur'[p]],
         \A q \in Requests, a \in Actions : snap'[q][a].outcome \notin Refusals,
         UNCHANGED <<rec, claim, ran, held, told>>
  PROVE  IInv'
<1> USE DEF IInv, TypeOK
<1>1. ClaimExclusive'
  BY DEF ClaimExclusive
<1>2. HandsInv'
  BY DEF HandsInv, Working, EmptyHanded
<1>5. RanInv'
  BY DEF RanInv, AfterRun
<1>6. \A a \in Actions : Sealed(a) => Sealed(a)'
  BY DEF Sealed
<1>7. RefusedInv'
  BY <1>6 DEF RefusedInv
<1> QED BY <1>1, <1>2, <1>5, <1>7

\* Every action preserves the inductive invariant.
LEMMA SafetyStep == IInv /\ TypeOK' /\ Next => IInv'
<1> SUFFICES ASSUME IInv, TypeOK', Next PROVE IInv'
  OBVIOUS
<1>1. ASSUME NEW a \in Actions, Propose(a) PROVE IInv'
  BY <1>1 DEF Propose, NewCard, IInv, ClaimExclusive, HandsInv, RanInv, RefusedInv, Sealed,
     TypeOK, Working, EmptyHanded, AfterRun, Refusals, NoCopies, Absent, Opened
<1>2. ASSUME NEW a \in Actions, PassTime(a) PROVE IInv'
  BY <1>2 DEF PassTime, IInv, ClaimExclusive, HandsInv, RanInv, RefusedInv, Sealed, TypeOK,
     Working, EmptyHanded, AfterRun, Refusals, NoCopies, Absent, Opened
<1>3. ASSUME NEW p \in Requests, NEW r \in RouteNames, NEW T \in SUBSET Actions, Begin(p, r,
      T) PROVE IInv'
  BY <1>3 DEF Begin, Start, IInv, ClaimExclusive, HandsInv, RanInv, RefusedInv, Sealed, TypeOK,
     Working, EmptyHanded, AfterRun, Refusals, NoCopies, Absent, Opened
<1>4. ASSUME NEW p \in Requests, Crash(p) PROVE IInv'
  BY <1>4 DEF Crash, Leave, IInv, ClaimExclusive, HandsInv, RanInv, RefusedInv, Sealed, TypeOK,
     Working, EmptyHanded, AfterRun, Refusals, NoCopies, Absent, Opened
<1>5. ASSUME NEW p \in Requests, NEW a \in Actions, ScanRead(p, a) PROVE IInv'
  <2>1. CASE rec[a].outcome = "open"
    <3>1. /\ pc[p] = "scan"
          /\ Goto(p, "expire")
          /\ cur' = [cur EXCEPT ![p] = a]
          /\ snap' = [snap EXCEPT ![p][a] = rec[a]]
          /\ UNCHANGED <<rec, claim, ran, held, told>>
      BY <1>5, <2>1 DEF ScanRead
    <3>2. \A q \in Requests, b \in Actions : snap'[q][b].outcome \notin Refusals
      BY <1>5, <2>1, <3>1 DEF IInv, RefusedInv, TypeOK, Refusals
    <3> QED BY <3>1, <3>2, ReadKeeps DEF IInv, HandsInv, EmptyHanded, TypeOK
  <2>2. CASE rec[a].outcome # "open"
    <3>1. UNCHANGED <<rec, claim, ran, held, cur, pc, snap, told>>
      BY <1>5, <2>2 DEF ScanRead
    <3> QED BY <3>1 DEF IInv, ClaimExclusive, HandsInv, RanInv, RefusedInv, Sealed
  <2> QED BY <2>1, <2>2
<1>6. ASSUME NEW p \in Requests, NEW a \in Actions, LookOpen(p, a) PROVE IInv'
  BY <1>6 DEF LookOpen, IInv, ClaimExclusive, HandsInv, RanInv, RefusedInv, Sealed, TypeOK,
     Working, EmptyHanded, AfterRun, Refusals, NoCopies, Absent, Opened
<1>7. ASSUME NEW p \in Requests, NEW a \in Actions, LookClosed(p, a) PROVE IInv'
  <2>1. CASE Answered(p, a, "already_resolved")
    <3>1. /\ Leave(p, "done", a, "already_resolved")
          /\ UNCHANGED <<rec, claim, due, ran>>
      BY <1>7, <2>1 DEF LookClosed, Answered
    <3> QED BY <3>1, LeaveIInv DEF Refusals
  <2>2. CASE ~Answered(p, a, "already_resolved")
    <3>1. /\ pc[p] \in {"scan", "look", "claim"}
          /\ \E s \in {"claim", "look"} : Goto(p, s) /\ (s = "look" => pc[p] = "look")
          /\ UNCHANGED <<rec, claim, ran, held, told, cur, snap>>
      BY <1>7, <2>2 DEF LookClosed
    <3>2. /\ cur' = [cur EXCEPT ![p] = cur'[p]]
          /\ \A q \in Requests, b \in Actions : snap'[q][b].outcome \notin Refusals
      BY <3>1 DEF IInv, RefusedInv, TypeOK
    <3> QED BY <3>1, <3>2, ReadKeeps DEF IInv, HandsInv, EmptyHanded
  <2> QED BY <2>1, <2>2
<1>8. ASSUME NEW p \in Requests, NEW a \in Actions, Refuse(p, a) PROVE IInv'
  BY <1>8 DEF Refuse, Leave, Answered, IInv, ClaimExclusive, HandsInv, RanInv, RefusedInv,
     Sealed, TypeOK, Working, EmptyHanded, AfterRun, Refusals, NoCopies, Absent, Opened
<1>9. ASSUME NEW p \in Requests, NEW a \in Actions, Claim(p, a) PROVE IInv'
  BY <1>9 DEF Claim, IInv, ClaimExclusive, HandsInv, RanInv, RefusedInv, Sealed, TypeOK,
     Working, EmptyHanded, AfterRun, Refusals, NoCopies, Absent, Opened
<1>10. ASSUME NEW p \in Requests, NEW a \in Actions, ClaimLost(p, a) PROVE IInv'
  <2>1. ASSUME NEW t \in {"already_resolved", "chat_deleted"}, Answered(p, a, t) PROVE IInv'
    <3>1. Leave(p, "done", a, t) /\ UNCHANGED <<rec, claim, due, ran>>
      BY <1>10, <2>1 DEF ClaimLost, Answered
    <3>2. t \in Answers /\ t \notin Refusals
      BY DEF Answers, Refusals
    <3> QED BY <3>1, <3>2, LeaveIInv
  <2>2. CASE ~\E t \in {"already_resolved", "chat_deleted"} : Answered(p, a, t)
    <3>1. /\ pc[p] = "claim"
          /\ \E s \in {"lost", "apply", "claim"} : Goto(p, s)
          /\ cur' = cur \/ cur' = [cur EXCEPT ![p] = a]
          /\ pc'[p] = "lost" => cur'[p] = a
          /\ UNCHANGED <<rec, claim, ran, held, told, snap>>
      BY <1>10, <2>2 DEF ClaimLost, IInv, TypeOK
    <3>2. /\ cur' = [cur EXCEPT ![p] = cur'[p]]
          /\ pc'[p] = "lost" => cur'[p] \in Actions
          /\ \A q \in Requests, b \in Actions : snap'[q][b].outcome \notin Refusals
      BY <3>1 DEF IInv, RefusedInv, TypeOK
    <3>3. PICK s \in {"lost", "apply", "claim"} : Goto(p, s)
      BY <3>1
    <3>4. s = "lost" => cur'[p] \in Actions
      BY <3>2, <3>3 DEF IInv, TypeOK
    <3> QED BY <3>1, <3>2, <3>3, <3>4, ReadKeeps DEF EmptyHanded
  <2> QED BY <2>1, <2>2
<1>11. ASSUME NEW p \in Requests, NEW a \in Actions, SaveEdited(p, a) PROVE IInv'
  BY <1>11 DEF SaveEdited, NewCard, IInv, ClaimExclusive, HandsInv, RanInv, RefusedInv, Sealed,
     TypeOK, Working, EmptyHanded, AfterRun, Refusals, NoCopies, Absent, Opened
<1>12. ASSUME NEW p \in Requests, NEW a \in Actions, SettleBatch(p, a) PROVE IInv'
  <2>1. CASE held[p] = {a}
    <3>1. PICK o \in {"executed", "failed"} : Resolve(p, a, o) /\ Leave(p, "done", a, o)
      BY <1>12, <2>1 DEF SettleBatch, Answered
    <3>2. UNCHANGED <<claim, due, ran>>
      BY <1>12, <2>1 DEF SettleBatch, Resolve
    <3>3. \A b \in Actions : rec'[b].outcome \in Refusals => rec[b].outcome \in Refusals
      BY <3>1 DEF IInv, TypeOK, Resolve, Ended, Refusals
    <3> QED BY <3>1, <3>2, <3>3, LeaveIInv DEF Refusals
  <2>2. CASE held[p] # {a}
    <3>1. /\ pc[p] \in {"record", "fail"}
          /\ a \in held[p]
          /\ \E o \in {"executed", "failed"} : Resolve(p, a, o)
          /\ held' = [held EXCEPT ![p] = @ \ {a}]
          /\ UNCHANGED <<claim, ran, pc, cur, snap, told>>
      BY <1>12, <2>2 DEF SettleBatch, Resolve
    <3> QED BY <3>1 DEF Resolve, Ended, IInv, ClaimExclusive, HandsInv, RanInv, RefusedInv,
          Sealed, TypeOK, Working, EmptyHanded, AfterRun, Refusals
  <2> QED BY <2>1, <2>2
<1>13. ASSUME NEW p \in Requests, NEW a \in Actions, Unlink(p, a) PROVE IInv'
  <2>1. ClaimExclusive'
    BY <1>13 DEF Unlink, IInv, ClaimExclusive, HandsInv, TypeOK, Working, EmptyHanded
  <2>2. HandsInv'
    BY <1>13 DEF Unlink, IInv, HandsInv, TypeOK, Working, EmptyHanded, ClaimExclusive
  <2>3. RanInv'
    BY <1>13 DEF Unlink, IInv, RanInv, ClaimExclusive, HandsInv, TypeOK, Working, EmptyHanded,
       AfterRun
  <2>4. RefusedInv'
    BY <1>13 DEF Unlink, IInv, RefusedInv, RanInv, ClaimExclusive, HandsInv, TypeOK, Working,
       EmptyHanded, AfterRun, Sealed, Refusals, NoCopies, Absent, Opened
  <2> QED BY <2>1, <2>2, <2>3, <2>4 DEF IInv
<1>14. ASSUME NEW p \in Requests, ScanWrite(p) PROVE IInv'
  BY <1>14 DEF ScanWrite, Resolve, Ended, IInv, ClaimExclusive, HandsInv, RanInv, RefusedInv,
     Sealed, TypeOK, Working, EmptyHanded, AfterRun, Refusals, NoCopies, Absent, Opened
<1>15. ASSUME NEW p \in Requests, Swept(p) PROVE IInv'
  <2>1. CASE On(p, "list")
    <3>1. /\ Leave(p, "done", None, "none")
          /\ UNCHANGED <<rec, claim, due, ran>>
      BY <1>15, <2>1 DEF Swept, Answered
    <3> QED BY <3>1, LeaveIInv DEF Refusals
  <2>2. CASE ~On(p, "list")
    <3>1. /\ pc[p] \in {"scan", "look", "claim"}
          /\ Goto(p, "look") /\ pc[p] = "scan"
          /\ UNCHANGED <<rec, claim, ran, held, told, cur, snap>>
      BY <1>15, <2>2 DEF Swept
    <3>2. /\ cur' = [cur EXCEPT ![p] = cur'[p]]
          /\ \A q \in Requests, b \in Actions : snap'[q][b].outcome \notin Refusals
      BY <3>1 DEF IInv, RefusedInv, TypeOK
    <3> QED BY <3>1, <3>2, ReadKeeps DEF IInv, HandsInv, EmptyHanded
  <2> QED BY <2>1, <2>2
<1>16. ASSUME NEW p \in Requests, AnswerLost(p) PROVE IInv'
  BY <1>16 DEF AnswerLost, Leave, Answered, IInv, ClaimExclusive, HandsInv, RanInv, RefusedInv,
     Sealed, TypeOK, Working, EmptyHanded, AfterRun, Refusals, NoCopies, Absent, Opened
<1>17. ASSUME NEW p \in Requests, ReadClaimed(p) PROVE IInv'
  BY <1>17 DEF ReadClaimed, Owned, IInv, ClaimExclusive, HandsInv, RanInv, RefusedInv, Sealed,
     TypeOK, Working, EmptyHanded, AfterRun, Refusals, NoCopies, Absent, Opened
<1>18. ASSUME NEW p \in Requests, Stamp(p) PROVE IInv'
  BY <1>18 DEF Stamp, AfterStamp, SaveCopy, IInv, ClaimExclusive, HandsInv, RanInv, RefusedInv,
     Sealed, TypeOK, Working, EmptyHanded, AfterRun, Refusals, NoCopies, Absent, Opened
<1>19. ASSUME NEW p \in Requests, SaveConfirmation(p) PROVE IInv'
  BY <1>19 DEF SaveConfirmation, SaveCopy, IInv, ClaimExclusive, HandsInv, RanInv, RefusedInv,
     Sealed, TypeOK, Working, EmptyHanded, AfterRun, Refusals, NoCopies, Absent, Opened
<1>20. ASSUME NEW p \in Requests, Drift(p) PROVE IInv'
  <2>1. ClaimExclusive'
    BY <1>20 DEF Drift, IInv, Resolve, Ended, ClaimExclusive, HandsInv, TypeOK, Working,
       EmptyHanded
  <2>2. HandsInv'
    BY <1>20 DEF Drift, IInv, Resolve, Ended, HandsInv, TypeOK, Working, EmptyHanded,
       ClaimExclusive
  <2>3. RanInv'
    BY <1>20 DEF Drift, IInv, Resolve, Ended, RanInv, ClaimExclusive, HandsInv, TypeOK, Working,
       EmptyHanded, AfterRun
  <2>4. /\ pc[p] \in {"run", "settle"} /\ cur[p] \in held[p] /\ cur[p] \in Actions
        /\ \E o \in Refusals : rec' = [rec EXCEPT ![cur[p]] = Ended(snap[p][cur[p]], o)]
        /\ UNCHANGED <<claim, ran, cur, snap, told>>
    BY <1>20 DEF Drift, Resolve, IInv, HandsInv, Working, TypeOK, Refusals
  <2>5. Sealed(cur[p])' /\ \A b \in Actions : Sealed(b) => Sealed(b)'
    BY <1>20, <2>4 DEF Drift, Start, Sealed, IInv, ClaimExclusive, TypeOK, RanInv, AfterRun
  <2>6. \A b \in Actions : rec'[b].outcome \in Refusals => rec[b].outcome \in Refusals \/ Sealed(b)'
    BY <2>4, <2>5 DEF IInv, TypeOK
  <2>7. \A q \in Requests : pc'[q] = "done" => pc[q] = "done"
    BY <1>20 DEF Drift, Start, IInv, TypeOK
  <2>8. \A q \in Requests, b \in Actions : snap'[q][b].outcome \notin Refusals
    BY <2>4 DEF IInv, RefusedInv
  <2>9. RefusedInv'
    BY <2>4, <2>5, <2>6, <2>7, <2>8, RefusedKeeps
  <2> QED BY <2>1, <2>2, <2>3, <2>9 DEF IInv
<1>21. ASSUME NEW p \in Requests, RunTool(p) PROVE IInv'
  <2>1. {cur[p]} \in SUBSET held[p]
    BY <1>21 DEF RunTool, IInv, HandsInv, Working
  <2> QED BY <1>21, <2>1, RunKeeps DEF RunTool, IInv, TypeOK
<1>22. ASSUME NEW p \in Requests, ToolRaises(p) PROVE IInv'
  <2>1. {cur[p]} \in SUBSET held[p]
    BY <1>22 DEF ToolRaises, IInv, HandsInv, Working
  <2> QED BY <1>22, <2>1, RunKeeps DEF ToolRaises, IInv, TypeOK
<1>23. ASSUME NEW p \in Requests, RecordExecuted(p) PROVE IInv'
  BY <1>23 DEF RecordExecuted, Resolve, Ended, IInv, ClaimExclusive, HandsInv, RanInv,
     RefusedInv, Sealed, TypeOK, Working, EmptyHanded, AfterRun, Refusals, NoCopies, Absent,
        Opened
<1>24. ASSUME NEW p \in Requests, AuditRaises(p) PROVE IInv'
  BY <1>24 DEF AuditRaises, IInv, ClaimExclusive, HandsInv, RanInv, RefusedInv, Sealed, TypeOK,
     Working, EmptyHanded, AfterRun, Refusals, NoCopies, Absent, Opened
<1>25. ASSUME NEW p \in Requests, RecordFailed(p) PROVE IInv'
  BY <1>25 DEF RecordFailed, Resolve, Ended, Leave, Answered, IInv, ClaimExclusive, HandsInv,
     RanInv, RefusedInv, Sealed, TypeOK, Working, EmptyHanded, AfterRun, Refusals, NoCopies,
        Absent, Opened
<1>26. ASSUME NEW p \in Requests, Answer(p) PROVE IInv'
  BY <1>26 DEF Answer, Leave, Answered, IInv, ClaimExclusive, HandsInv, RanInv, RefusedInv,
     Sealed, TypeOK, Working, EmptyHanded, AfterRun, Refusals, NoCopies, Absent, Opened
<1>27. ASSUME NEW p \in Requests, Settle(p) PROVE IInv'
  <2>0. /\ pc[p] = "settle"
        /\ cur[p] \in held[p] /\ cur[p] \in Actions
        /\ ran[cur[p]] = 0 /\ claim[cur[p]]
        /\ UNCHANGED <<claim, ran>>
        /\ \E o \in {"declined", "superseded"} : rec' = [rec EXCEPT ![cur[p]] = Ended(snap[p][cur[p]], o)]
    BY <1>27 DEF Settle, Resolve, Verdict, IInv, HandsInv, Working, TypeOK, RanInv, AfterRun,
       ClaimExclusive
  <2>1. CASE work[p] = {}
    <3>1. \E t : Leave(p, "done", cur[p], t)
      BY <1>27, <2>1 DEF Settle, Answered
    <3>2. Sealed(cur[p])'
      BY <2>0, <3>1 DEF Sealed, IInv, ClaimExclusive, TypeOK, Leave
    <3>3. \A q \in Requests, b \in Actions : snap'[q][b].outcome \notin Refusals
      BY <3>1 DEF IInv, RefusedInv, Leave, NoCopies, Absent, Refusals, TypeOK
    <3>4. \A b \in Actions : rec'[b].outcome \in Refusals => rec[b].outcome \in Refusals \/ Sealed(b)'
      <4>1. cur'[p] = cur[p]
        BY <3>1 DEF Leave, IInv, TypeOK
      <4>2. \A b \in Actions : b # cur[p] => rec'[b] = rec[b]
        BY <2>0 DEF IInv, TypeOK
      <4> QED BY <3>2, <4>1, <4>2
    <3>5. \A q \in Requests : pc'[q] = "done" /\ told'[q] \in Refusals =>
             \/ pc[q] = "done" /\ told'[q] = told[q] /\ cur'[q] = cur[q]
             \/ cur'[q] \in Actions /\ Sealed(cur[q])'
      BY <2>0, <3>1, <3>2 DEF IInv, Leave, TypeOK
    <3>6. RefusedInv'
      BY <2>0, <3>1, <3>3, <3>4, <3>5, LeaveKeeps, RefusedKeeps
    <3> QED BY <2>0, <3>1, <3>6, LeaveKeeps DEF IInv
  <2>2. CASE work[p] # {}
    <3>1. /\ held' = [held EXCEPT ![p] = @ \ {cur[p]}]
          /\ Goto(p, "claim")
          /\ UNCHANGED <<cur, snap, told>>
      BY <1>27, <2>2 DEF Settle
    <3> QED BY <2>0, <3>1 DEF Ended, IInv, ClaimExclusive, HandsInv, RanInv, RefusedInv, Sealed,
          TypeOK, Working, EmptyHanded, AfterRun, Refusals
  <2> QED BY <2>1, <2>2
<1>28. ASSUME NEW p \in Requests, SettleEdited(p) PROVE IInv'
  <2>1. ClaimExclusive'
    BY <1>28 DEF SettleEdited, IInv, Resolve, Ended, Start, ClaimExclusive, HandsInv, TypeOK,
       Working, EmptyHanded
  <2>2. HandsInv'
    BY <1>28 DEF SettleEdited, IInv, Resolve, Ended, Start, HandsInv, TypeOK, Working,
       EmptyHanded, ClaimExclusive
  <2>3. RanInv'
    BY <1>28 DEF SettleEdited, IInv, Resolve, Ended, Start, RanInv, ClaimExclusive, HandsInv,
       TypeOK, Working, EmptyHanded, AfterRun
  <2>4. /\ pc[p] \in {"run", "settle"} /\ cur[p] \in held[p] /\ cur[p] \in Actions
        /\ \E o \in Refusals : rec' = [rec EXCEPT ![cur[p]] = Ended(snap[p][cur[p]], o)]
        /\ UNCHANGED <<claim, ran, cur, snap, told>>
    BY <1>28 DEF SettleEdited, Resolve, IInv, HandsInv, Working, TypeOK, Refusals
  <2>5. Sealed(cur[p])' /\ \A b \in Actions : Sealed(b) => Sealed(b)'
    BY ZenonT(60), <1>28, <2>4 DEF SettleEdited, Start, Sealed, IInv, ClaimExclusive, TypeOK, RanInv, AfterRun
  <2>6. \A b \in Actions : rec'[b].outcome \in Refusals => rec[b].outcome \in Refusals \/ Sealed(b)'
    BY <2>4, <2>5 DEF IInv, TypeOK
  <2>7. \A q \in Requests : pc'[q] = "done" => pc[q] = "done"
    BY <1>28 DEF SettleEdited, Start, IInv, TypeOK
  <2>8. \A q \in Requests, b \in Actions : snap'[q][b].outcome \notin Refusals
    BY <2>4 DEF IInv, RefusedInv
  <2>9. RefusedInv'
    BY <2>4, <2>5, <2>6, <2>7, <2>8, RefusedKeeps
  <2> QED BY <2>1, <2>2, <2>3, <2>9 DEF IInv
<1>29. ASSUME NEW p \in Requests, ApplyBatch(p) PROVE IInv'
  BY <1>29, RunKeeps DEF ApplyBatch, IInv, TypeOK
<1>30. ASSUME NEW p \in Requests, BatchRefused(p) PROVE IInv'
  BY <1>30 DEF BatchRefused, IInv, ClaimExclusive, HandsInv, RanInv, RefusedInv, Sealed, TypeOK,
     Working, EmptyHanded, AfterRun, Refusals, NoCopies, Absent, Opened
<1>31. ASSUME NEW p \in Requests, BatchUnknown(p) PROVE IInv'
  BY <1>31, RunKeeps DEF BatchUnknown, IInv, TypeOK
<1>32. ASSUME NEW p \in Requests, Reopen(p) PROVE IInv'
  <2>1. CASE held[p] = {}
    <3>1. /\ Leave(p, "done", cur[p], "not_applied")
          /\ rec' = [rec EXCEPT ![cur[p]] = Owned(snap[p][cur[p]], None)]
          /\ UNCHANGED <<claim, due, ran>>
          /\ cur[p] \in Actions
      BY <1>32, <2>1 DEF Reopen, Answered, IInv, HandsInv
    <3>2. \A b \in Actions : rec'[b].outcome \in Refusals => rec[b].outcome \in Refusals
      BY <3>1 DEF IInv, RefusedInv, TypeOK, Owned
    <3> QED BY <3>1, <3>2, LeaveIInv DEF Refusals
  <2>2. CASE held[p] # {}
    <3>1. /\ pc[p] = "reopen"
          /\ Goto(p, "release")
          /\ rec' = [rec EXCEPT ![cur[p]] = Owned(snap[p][cur[p]], None)]
          /\ UNCHANGED <<claim, ran, held, cur, snap, told>>
          /\ cur[p] \in Actions
      BY <1>32, <2>2 DEF Reopen, IInv, HandsInv
    <3> QED BY <3>1 DEF Owned, IInv, ClaimExclusive, HandsInv, RanInv, RefusedInv, Sealed,
          TypeOK, Working, EmptyHanded, AfterRun, Refusals
  <2> QED BY <2>1, <2>2
<1> QED BY <1>1, <1>2, <1>3, <1>4, <1>5, <1>6, <1>7, <1>8, <1>9, <1>10, <1>11, <1>12, <1>13,
      <1>14, <1>15, <1>16, <1>17, <1>18, <1>19, <1>20, <1>21, <1>22, <1>23, <1>24, <1>25, <1>26,
            <1>27, <1>28, <1>29, <1>30, <1>31, <1>32 DEF Next, Step

\* No card is stated and no request has begun: IInv holds at the start.
LEMMA InitIInv == Init => IInv
BY RecordTypes DEF Init, IInv, TypeOK, RouteNames, Steps, Answers, ClaimExclusive, HandsInv,
     RanInv, RefusedInv, Working, EmptyHanded, Refusals, NoCopies, Absent

\* IInv holds in every state of every behaviour.
LEMMA Invariance == Spec => []IInv
<1>2. IInv /\ TypeOK' /\ [Next]_vars => IInv'
  <2>1. IInv /\ TypeOK' /\ UNCHANGED vars => IInv'
    BY DEF vars, IInv, ClaimExclusive, HandsInv, RanInv, RefusedInv, Sealed
  <2> QED BY <2>1, SafetyStep
<1> QED BY InitIInv, <1>2, TypeStep, PTL DEF Spec, IInv

\* A confirmed call runs at most once, a claim is never held twice, and a refusal (declined,
\* superseded, drifted) recorded or told is never followed or preceded by a run: for any number
\* of cards, concurrent requests, expiries, audit failures and crashes (FR-030, _apply).
THEOREM Safety == Spec => [](AtMostOnce /\ ClaimExclusive /\ RefusalIsKept)
<1>1. IInv => AtMostOnce
  BY SMTT(30) DEF IInv, RanInv, AtMostOnce, TypeOK
<1>2. IInv => RefusalIsKept
  BY DEF IInv, RefusedInv, Sealed, RefusalIsKept
<1>3. IInv => ClaimExclusive
  BY DEF IInv
<1> QED BY <1>1, <1>2, <1>3, Invariance, PTL

\* A refusal that was recorded or told stays true, as a property by itself.
THEOREM RefusalsKept == Spec => []RefusalIsKept
BY Safety, PTL

\* Only release_claim removes a claim file, and only a claim link creates one.
LEMMA ClaimStep ==
  ASSUME TypeOK, [Next]_vars
  PROVE  \/ claim' = claim
         \/ \E p \in Requests, a \in Actions : Claim(p, a) \/ Unlink(p, a)
<1> SUFFICES ASSUME claim' # claim
             PROVE  \E p \in Requests, a \in Actions : Claim(p, a) \/ Unlink(p, a)
  OBVIOUS
<1>1. ~\E a \in Actions : Propose(a) \/ PassTime(a)
  BY DEF Propose, NewCard, PassTime
<1>2. ~UNCHANGED vars
  BY DEF vars
<1>3. PICK p \in Requests : \/ \E r \in RouteNames, T \in SUBSET Actions : Begin(p, r, T)
                            \/ Step(p) \/ Crash(p)
  BY <1>1, <1>2 DEF Next
<1>4. ~(Crash(p) \/ \E r \in RouteNames, T \in SUBSET Actions : Begin(p, r, T))
  BY DEF Crash, Begin
<1>5. ~\E a \in Actions : \/ ScanRead(p, a) \/ LookOpen(p, a) \/ LookClosed(p, a) \/ Refuse(p, a)
                          \/ ClaimLost(p, a) \/ SaveEdited(p, a) \/ SettleBatch(p, a)
  BY DEF ScanRead, LookOpen, LookClosed, Refuse, ClaimLost, SaveEdited, NewCard, SettleBatch, Resolve
<1>6. ~(\/ ScanWrite(p) \/ Swept(p) \/ AnswerLost(p) \/ ReadClaimed(p) \/ Stamp(p)
        \/ SaveConfirmation(p) \/ Drift(p) \/ RunTool(p) \/ ToolRaises(p) \/ RecordExecuted(p))
  BY DEF ScanWrite, Swept, AnswerLost, ReadClaimed, Stamp, SaveCopy, SaveConfirmation, Drift,
     RunTool, ToolRaises, RecordExecuted, Resolve
<1>7. ~(\/ AuditRaises(p) \/ RecordFailed(p) \/ Answer(p) \/ Settle(p) \/ SettleEdited(p)
        \/ ApplyBatch(p) \/ BatchRefused(p) \/ BatchUnknown(p) \/ Reopen(p))
  BY DEF AuditRaises, RecordFailed, Answer, Settle, SettleEdited, ApplyBatch, BatchRefused,
     BatchUnknown, Reopen, Resolve
<1> QED BY <1>3, <1>4, <1>5, <1>6, <1>7 DEF Step

\* Giving claims back is safe on its own: whoever removes the claim file of an action holds it
\* before its run, so the action did not run (apply_all, release_claim, #122).
THEOREM GivenBack == Spec => GivenBackUnrun
<1>1. IInv /\ [Next]_vars => [\A a \in Actions : claim[a] /\ ~claim'[a] => ran[a] = 0]_vars
  <2> SUFFICES ASSUME IInv, [Next]_vars, NEW a \in Actions, claim[a], ~claim'[a]
               PROVE  ran[a] = 0
    OBVIOUS
  <2>1. PICK p \in Requests, b \in Actions : Claim(p, b) \/ Unlink(p, b)
    BY ClaimStep DEF IInv
  <2>2. Unlink(p, b) /\ a = b
    BY <2>1 DEF Claim, Unlink, IInv, TypeOK
  <2>3. a \in held[p] /\ pc[p] \notin AfterRun
    BY <2>2 DEF Unlink, AfterRun
  <2> QED BY <2>3 DEF IInv, RanInv
<1> QED BY <1>1, Invariance, PTL DEF Spec, GivenBackUnrun

-----------------------------------------------------------------------------
(***************************************************************************)
(* The refinement of ConfirmContract, where nothing expires, no audit line *)
(* fails and no group is applied (with any of the three the code breaks    *)
(* the contract, and the README says how).  CInv says that a request works *)
(* on an open record until it records what became of it, so each write of  *)
(* a file is a step of the contract, or changes no outcome.                *)
(***************************************************************************)
Plain == Events \cap {"expiry", "auditFails"} = {} /\ "applyAll" \notin Routes

\* A step that changes no outcome and runs nothing is a stutter of the contract.
LEMMA Silent ==
  ASSUME \A a \in Actions : rec'[a].outcome = rec[a].outcome, ran' = ran
  PROVE  [Contract!Next]_(Contract!vars)
BY DEF Contract!vars

\* Saving a new card states its action.
LEMMA Stating ==
  ASSUME TypeOK, NEW a \in Actions, NewCard(a)
  PROVE  Contract!Next
<1>1. Contract!State(a)
  BY DEF NewCard, Opened, TypeOK, Contract!State
<1> QED BY <1>1 DEF Contract!Next

\* Recording what became of an open action closes it, with an outcome that must agree with its run.
LEMMA Closing ==
  ASSUME TypeOK, NEW p \in Requests, NEW a \in Actions, rec[a].outcome = "open",
         NEW o \in {"executed", "failed", "declined", "superseded", "drifted"},
         o = "executed" => ran[a] = 1, o \notin {"executed", "failed"} => ran[a] = 0,
         Resolve(p, a, o), ran' = ran
  PROVE  Contract!Next
<1>1. Contract!Close(a, o)
  BY DEF Resolve, Ended, TypeOK, Contract!Close, Contract!NotRun
<1> QED BY <1>1 DEF Contract!Next, Contract!NotRun

\* Running the call of an open action that did not run performs it.
LEMMA Performing ==
  ASSUME TypeOK, NEW a \in Actions, rec[a].outcome = "open", ran[a] = 0,
         ran' = RanAll({a}), rec' = rec
  PROVE  Contract!Next
<1>1. ran' = [ran EXCEPT ![a] = 1]
  <2>1. ran' = [b \in Actions |-> IF b \in {a} THEN ran[b] + 1 ELSE ran[b]]
    BY DEF RanAll
  <2>2. [ran EXCEPT ![a] = 1] = [b \in Actions |-> IF b = a THEN 1 ELSE ran[b]]
    BY DEF TypeOK
  <2> QED BY <2>1, <2>2
<1>2. Contract!Perform(a)
  BY <1>1 DEF Contract!Perform
<1> QED BY <1>2 DEF Contract!Next

\* What the invariant and the contract ask of a step.
CStep == (CInv)' /\ [Contract!Next]_(Contract!vars)

\* A request that moves on without touching a file or taking a claim.
LEMMA MovesOn ==
  ASSUME CInv, IInv', NEW p \in Requests, UNCHANGED <<rec, claim, world, held>>,
         NEW s \in {"scan", "look", "claim", "lost"}, Goto(p, s),
         pc[p] \in {"idle", "scan", "look", "claim"}, route'[p] # "applyAll",
         s = "scan" => todo'[p] = {},
         (todo'[p] \cup work'[p]) \subseteq Existing,
         \A q \in Requests \ {p} : /\ route'[q] = route[q] /\ todo'[q] = todo[q] /\ work'[q] = work[q]
                                   /\ cur'[q] = cur[q] /\ snap'[q] = snap[q] /\ told'[q] = told[q]
  PROVE  CStep
<1> USE DEF CInv, IInv, TypeOK
<1>1. held[p] = {}
  BY DEF OneCardInv, Working
<1>2. OneCardInv'
  BY <1>1 DEF OneCardInv, Working, Existing
<1>3. OpenInv' /\ EndInv'
  BY DEF OpenInv, EndInv, Unsettled
<1> QED BY <1>2, <1>3, Silent DEF CStep

\* A request that ends, with the files as they are.
LEMMA Ends ==
  ASSUME CInv, IInv', NEW p \in Requests, UNCHANGED <<rec, claim, world>>,
         NEW s \in {"done", "dead"}, NEW a, NEW t, Leave(p, s, a, t),
         t = "executed" => a \in Actions /\ ran[a] = 1
  PROVE  CStep
<1> USE DEF CInv, IInv, TypeOK, Leave
<1>1. OneCardInv'
  BY DEF OneCardInv, Working, Existing
<1>2. OpenInv'
  BY DEF OpenInv, Unsettled
<1>3. EndInv'
  BY DEF EndInv
<1> QED BY <1>1, <1>2, <1>3, Silent DEF CStep

\* A request that goes on with the card it claimed, and records nothing: its copy of the record
\* is as open as the record (claim, _apply before the run).
LEMMA WorksOn ==
  ASSUME CInv, IInv', NEW p \in Requests, pc[p] \in Unsettled,
         Goto(p, pc'[p]), pc'[p] \in Unsettled \ {"linked"},
         UNCHANGED <<claim, due, route, todo, held, cur, told>>,
         \A q \in Requests \ {p} : work'[q] = work[q] /\ snap'[q] = snap[q],
         work'[p] \subseteq Existing',
         \A a \in Actions : \/ rec'[a].outcome = rec[a].outcome
                            \/ rec[a].outcome = "absent" /\ rec'[a].outcome = "open",
         snap'[p][cur[p]].outcome = "open",
         ran' = ran \/ (ran' = RanAll({cur[p]}) /\ pc[p] = "run"), pc'[p] = "ran" => ran' # ran
  PROVE  OneCardInv' /\ OpenInv' /\ EndInv'
<1> USE DEF CInv, IInv, TypeOK
<1>1. cur[p] \in held[p] /\ held[p] = {cur[p]} /\ cur[p] \in Actions
  BY DEF OneCardInv, HandsInv, Unsettled, Working
<1>2. OneCardInv'
  <2>1. Existing \subseteq Existing'
    BY DEF Existing
  <2> QED BY SMTT(30), <2>1, <1>1 DEF OneCardInv, Working, Unsettled
<1>3. \A q \in Requests \ {p} : pc[q] \in Working => cur[q] # cur[p] /\ cur[q] \in Actions
  BY <1>1 DEF HandsInv, ClaimExclusive
<1>4. OpenInv'
  <2>1. \A a \in Actions : /\ rec'[a].outcome = "absent" => ~claim'[a]
                           /\ rec'[a].outcome \notin {"absent", "open"} => claim'[a]
    BY DEF OpenInv
  <2>2. \A q \in Requests : pc'[q] \in Unsettled =>
          /\ rec'[cur'[q]].outcome = "open"
          /\ pc'[q] # "linked" => snap'[q][cur'[q]].outcome = "open"
    <3> SUFFICES ASSUME NEW q \in Requests, pc'[q] \in Unsettled
                 PROVE  /\ rec'[cur[q]].outcome = "open"
                        /\ pc'[q] # "linked" => snap'[q][cur[q]].outcome = "open"
      OBVIOUS
    <3>1. pc[q] \in Unsettled /\ cur[q] \in Actions
      BY <1>1, <1>3 DEF Unsettled, Working
    <3>2. rec'[cur[q]].outcome = "open"
      BY <3>1 DEF OpenInv
    <3>3. q # p => pc'[q] = pc[q] /\ snap'[q] = snap[q]
      OBVIOUS
    <3> QED BY <3>1, <3>2, <3>3 DEF OpenInv
  <2> QED BY <2>1, <2>2 DEF OpenInv
<1>5. pc[p] = "run" => ran[cur[p]] = 0
  BY <1>1 DEF RanInv, AfterRun
<1>6. \A a \in Actions : a # cur[p] => ran'[a] = ran[a]
  BY DEF RanAll
<1>7. pc'[p] = "ran" => ran'[cur[p]] = 1
  BY <1>1, <1>5 DEF RanAll
<1>8. EndInv'
  <2> SUFFICES ASSUME NEW q \in Requests PROVE EndInv!(q)'
    BY DEF EndInv
  <2>1. CASE q = p
    BY <2>1, <1>1, <1>7 DEF EndInv, Unsettled
  <2>2. CASE q # p
    <3>1. pc[q] = "done" /\ told[q] = "executed" => cur[q] \in Actions /\ ran'[cur[q]] = 1
      BY <2>2, <1>5, <1>6 DEF EndInv
    <3>2. pc[q] \in {"ran", "audit"} => ran'[cur[q]] = 1
      BY <2>2, <1>3, <1>6 DEF EndInv, Working
    <3>3. pc[q] = "audit" => rec'[cur[q]].outcome = "executed"
      BY ZenonT(30), <2>2, <1>3 DEF EndInv, Working
    <3>4. pc[q] = "answer" => rec'[cur[q]].outcome = "drifted"
      BY ZenonT(30), <2>2, <1>3 DEF EndInv, Working
    <3>5. pc'[q] = pc[q]
      BY <2>2
    <3> QED BY <3>1, <3>2, <3>3, <3>4, <3>5
  <2> QED BY <2>1, <2>2
<1> QED BY <1>2, <1>4, <1>8

\* A request that records what became of its card: the card is closed for good, the others are
\* not its (resolve, after a run, a refusal or drift).
LEMMA Records ==
  ASSUME CInv, IInv', NEW p \in Requests, pc[p] \in Unsettled,
         NEW o \in {"executed", "failed", "declined", "superseded", "drifted"},
         o = "executed" => pc[p] = "ran", o \notin {"executed", "failed"} => pc[p] \notin AfterRun,
         Resolve(p, cur[p], o), UNCHANGED world,
         NEW s \in {"audit", "answer", "done", "claim", "scan"}, Goto(p, s),
         s = "audit" => o = "executed", s = "answer" => o = "drifted",
         s = "scan" => todo'[p] = {},
         s = "done" => told'[p] # "executed",
         \/ held'[p] = {}
         \/ s \in {"audit", "answer"} /\ held'[p] = held[p] /\ cur'[p] = cur[p],
         route'[p] # "applyAll",
         (todo'[p] \cup work'[p]) \subseteq Existing,
         \A q \in Requests \ {p} : /\ route'[q] = route[q] /\ todo'[q] = todo[q] /\ work'[q] = work[q]
                                   /\ held'[q] = held[q] /\ cur'[q] = cur[q] /\ snap'[q] = snap[q]
                                   /\ told'[q] = told[q]
  PROVE  CStep
<1> USE DEF CInv, IInv, TypeOK
<1>1. held[p] = {cur[p]} /\ cur[p] \in Actions
  BY DEF OneCardInv, HandsInv, Unsettled, Working
<1>2. rec[cur[p]].outcome = "open" /\ claim[cur[p]]
  BY <1>1 DEF OpenInv, ClaimExclusive
<1>3. \A q \in Requests \ {p} : pc[q] \in Working => cur[q] # cur[p] /\ cur[q] \in Actions
  BY <1>1 DEF HandsInv, ClaimExclusive
<1>4. /\ rec'[cur[p]].outcome = o /\ claim' = claim
      /\ \A a \in Actions : a # cur[p] => rec'[a] = rec[a]
  BY <1>1 DEF Resolve, Ended
<1>5. /\ o = "executed" => ran[cur[p]] = 1
      /\ o \notin {"executed", "failed"} => ran[cur[p]] = 0
  BY <1>1 DEF EndInv, RanInv
<1>6. OneCardInv'
  <2>1. Existing' = Existing
    BY ZenonT(30), <1>1, <1>2, <1>4 DEF Existing
  <2>2. held'[p] # {} => s \in Working /\ held'[p] = {cur'[p]}
    BY <1>1 DEF Working
  <2> QED BY <2>1, <2>2 DEF OneCardInv
<1>7. OpenInv'
  <2>1. \A a \in Actions : /\ rec'[a].outcome = "absent" => ~claim'[a]
                           /\ rec'[a].outcome \notin {"absent", "open"} => claim'[a]
    BY <1>2, <1>4 DEF OpenInv
  <2>2. \A q \in Requests : pc'[q] \in Unsettled => q # p /\ pc[q] \in Unsettled
    BY DEF Unsettled
  <2> QED BY <2>1, <2>2, <1>3, <1>4 DEF OpenInv, Unsettled, Working
<1>8. EndInv'
  <2> SUFFICES ASSUME NEW q \in Requests PROVE EndInv!(q)'
    BY DEF EndInv
  <2>1. CASE q = p
    <3>1. s \in {"audit", "answer"} => cur'[p] = cur[p]
      BY DEF HandsInv, Working
    <3> QED BY <3>1, <2>1, <1>1, <1>4, <1>5
  <2>2. CASE q # p
    BY <2>2, <1>3, <1>4 DEF EndInv, Working
  <2> QED BY <2>1, <2>2
<1>9. Contract!Next
  BY <1>1, <1>2, <1>5, Closing
<1> QED BY <1>6, <1>7, <1>8, <1>9 DEF CStep

\* Writing back the copy of a claimed record changes no outcome (claim, who confirmed).
LEMMA SavesOpen ==
  ASSUME CInv, IInv', NEW p \in Requests, pc[p] \in {"stamp", "confirmed"},
         NEW s \in {"confirmed", "edit", "run", "settle"}, Goto(p, s),
         rec' = [rec EXCEPT ![cur[p]] = snap[p][cur[p]]],
         UNCHANGED <<claim, world, scope, lists, cur, snap, told>>
  PROVE  CStep
<1> USE DEF CInv, IInv, TypeOK
<1>1. /\ cur[p] \in Actions /\ rec[cur[p]].outcome = "open" /\ snap[p][cur[p]].outcome = "open"
      /\ work[p] \subseteq Existing
  BY DEF OpenInv, HandsInv, OneCardInv, Working, Unsettled
<1>2. \A a \in Actions : rec'[a].outcome = rec[a].outcome
  BY <1>1
<1>3. work[p] \subseteq Existing'
  BY <1>1, <1>2 DEF Existing
<1>4. Goto(p, pc'[p]) /\ pc'[p] = s /\ {s, pc[p]} \subseteq Unsettled \ {"linked"} /\ s # "ran"
  BY DEF Unsettled
<1>5. OneCardInv' /\ OpenInv' /\ EndInv'
  <2>1. /\ pc[p] \in Unsettled /\ snap'[p][cur[p]].outcome = "open" /\ pc'[p] # "ran"
        /\ UNCHANGED <<claim, due, ran, route, todo, work, snap, held, cur, told>>
    BY <1>1, <1>4
  <2> QED BY ZenonT(60), <2>1, <1>2, <1>3, <1>4, WorksOn
<1> QED BY <1>2, <1>5, Silent DEF CStep

\* Running the call of the card a request works on performs its action; a call that raised may
\* have had no effect (execute_confirmed).
LEMMA Runs ==
  ASSUME CInv, IInv', NEW p \in Requests, pc[p] = "run", NEW s \in {"ran", "raised"}, Goto(p, s),
         ran' = RanAll({cur[p]}) \/ (s = "raised" /\ ran' = ran),
         UNCHANGED <<files, due, scope, lists, cur, snap, told>>
  PROVE  CStep
<1> USE DEF CInv, IInv, TypeOK
<1>1. cur[p] \in Actions /\ rec[cur[p]].outcome = "open" /\ snap[p][cur[p]].outcome = "open"
  BY DEF OpenInv, HandsInv, OneCardInv, Working, Unsettled
<1>2. ran[cur[p]] = 0
  BY <1>1 DEF HandsInv, Working, RanInv, AfterRun
<1>3. work[p] \subseteq Existing'
  BY DEF OneCardInv, Existing
<1>4. s = "ran" => ran' # ran
  BY <1>1, <1>2 DEF RanAll
<1>5. Goto(p, pc'[p]) /\ pc'[p] = s /\ {s, pc[p]} \subseteq Unsettled \ {"linked"}
  BY DEF Unsettled
<1>6. OneCardInv' /\ OpenInv' /\ EndInv'
  BY <1>1, <1>3, <1>4, <1>5, WorksOn
<1>7. [Contract!Next]_(Contract!vars)
  BY <1>1, <1>2, Performing, Silent
<1> QED BY <1>6, <1>7 DEF CStep

\* Every step keeps CInv and is a step of the contract, or a stutter of it.
LEMMA ContractStep ==
  ASSUME Plain, CInv, IInv', [Next]_vars
  PROVE  CStep
<1> USE DEF CInv, IInv, TypeOK
<1>1. ASSUME NEW a \in Actions, Propose(a) PROVE CStep
  <2>1. /\ rec[a].outcome = "absent" /\ rec' = [rec EXCEPT ![a] = Opened]
        /\ UNCHANGED <<claim, due, ran, route, late, todo, work, held, pc, cur, snap, told>>
    BY <1>1 DEF Propose, NewCard
  <2>2. OneCardInv'
    BY <2>1 DEF OneCardInv, Existing, Opened
  <2>3. OpenInv'
    BY <2>1 DEF OpenInv, Opened
  <2>4. EndInv'
    BY <2>1 DEF EndInv, Opened
  <2> QED BY <1>1, <2>1, <2>2, <2>3, <2>4, Stating DEF Propose, CStep
<1>2. ASSUME NEW a \in Actions, PassTime(a) PROVE CStep
  BY <1>2 DEF PassTime, Plain
<1>3. ASSUME NEW p \in Requests, NEW r \in RouteNames, NEW T \in SUBSET Actions, Begin(p, r, T) PROVE CStep
  <2>1. /\ pc[p] = "idle" /\ r \in Routes /\ T \subseteq Existing
        /\ Start(p, r, T)
        /\ UNCHANGED <<rec, claim, world, held, cur, snap, told>>
    BY <1>3 DEF Begin
  <2>2. \E s \in {"scan", "look"} : Goto(p, s) /\ (s = "scan" => todo'[p] = {}) /\ todo'[p] \cup work'[p] \subseteq Existing
    BY <2>1 DEF Start
  <2>3. route'[p] # "applyAll"
    BY <2>1 DEF Start, Plain
  <2>4. \A q \in Requests \ {p} : route'[q] = route[q] /\ todo'[q] = todo[q] /\ work'[q] = work[q]
    BY <2>1 DEF Start
  <2> QED BY <2>1, <2>2, <2>3, <2>4, MovesOn
<1>4. ASSUME NEW p \in Requests, Crash(p) PROVE CStep
  BY <1>4, Ends DEF Crash
<1>5. ASSUME NEW p \in Requests, NEW a \in Actions, ScanRead(p, a) PROVE CStep
  BY <1>5 DEF ScanRead, OneCardInv
<1>6. ASSUME NEW p \in Requests, ScanWrite(p) PROVE CStep
  BY <1>6 DEF ScanWrite, OneCardInv
<1>7. ASSUME NEW p \in Requests, Swept(p) PROVE CStep
  <2>1. CASE On(p, "list")
    BY <1>7, <2>1, Ends DEF Swept, Answered
  <2>2. CASE ~On(p, "list")
    <3>1. /\ pc[p] = "scan" /\ Goto(p, "look")
          /\ todo' = [todo EXCEPT ![p] = work[p]] /\ work' = [work EXCEPT ![p] = {}]
          /\ UNCHANGED <<rec, claim, world, route, held, cur, snap, told>>
      BY <1>7, <2>2 DEF Swept
    <3>2. route'[p] # "applyAll" /\ (todo'[p] \cup work'[p]) \subseteq Existing
      BY <3>1 DEF OneCardInv
    <3> QED BY <3>1, <3>2, MovesOn
  <2> QED BY <2>1, <2>2
<1>8. ASSUME NEW p \in Requests, NEW a \in Actions, LookOpen(p, a) PROVE CStep
  <2>1. /\ pc[p] = "look" /\ \E s \in {"claim", "look"} : Goto(p, s)
        /\ work' = [work EXCEPT ![p] = @ \cup {a}] /\ todo' = [todo EXCEPT ![p] = @ \ {a}]
        /\ UNCHANGED <<rec, claim, world, route, held, cur, snap, told>>
        /\ rec[a].outcome = "open"
    BY <1>8 DEF LookOpen, Answerable
  <2>2. route'[p] # "applyAll" /\ (todo'[p] \cup work'[p]) \subseteq Existing
    BY <2>1 DEF OneCardInv, Existing
  <2> QED BY <2>1, <2>2, MovesOn
<1>9. ASSUME NEW p \in Requests, NEW a \in Actions, LookClosed(p, a) PROVE CStep
  <2>1. CASE Answered(p, a, "already_resolved")
    BY <1>9, <2>1, Ends DEF LookClosed, Answered
  <2>2. CASE ~Answered(p, a, "already_resolved")
    <3>1. /\ pc[p] = "look" /\ \E s \in {"claim", "look"} : Goto(p, s)
          /\ todo' = [todo EXCEPT ![p] = @ \ {a}]
          /\ UNCHANGED <<rec, claim, world, route, work, held, cur, snap, told>>
      BY <1>9, <2>2 DEF LookClosed
    <3>2. route'[p] # "applyAll" /\ (todo'[p] \cup work'[p]) \subseteq Existing
      BY <3>1 DEF OneCardInv
    <3> QED BY <3>1, <3>2, MovesOn
  <2> QED BY <2>1, <2>2
<1>10. ASSUME NEW p \in Requests, NEW a \in Actions, Refuse(p, a) PROVE CStep
  BY <1>10, Ends DEF Refuse, Answered
<1>11. ASSUME NEW p \in Requests, NEW a \in Actions, Claim(p, a) PROVE CStep
  <2>0. a \in Existing /\ held[p] = {} /\ rec[a].outcome = "open"
    BY <1>11 DEF Claim, OneCardInv, OpenInv, Working, Existing
  <2>1. OneCardInv'
    BY <1>11, <2>0 DEF Claim, OneCardInv, Working, Existing
  <2>2. OpenInv'
    BY <1>11, <2>0 DEF Claim, OpenInv, Unsettled
  <2>3. EndInv'
    BY <1>11 DEF Claim, EndInv
  <2> QED BY <1>11, <2>1, <2>2, <2>3, Silent DEF Claim, CStep
<1>12. ASSUME NEW p \in Requests, NEW a \in Actions, ClaimLost(p, a) PROVE CStep
  <2>0. held[p] = {}
    BY <1>12 DEF ClaimLost, OneCardInv, Working
  <2>1. CASE On(p, "decline")
    <3>1. /\ pc[p] = "claim" /\ Goto(p, "lost")
          /\ cur' = [cur EXCEPT ![p] = a]
          /\ UNCHANGED <<rec, claim, world, route, todo, work, held, snap, told>>
      BY <1>12, <2>1 DEF ClaimLost
    <3>2. route'[p] # "applyAll" /\ (todo'[p] \cup work'[p]) \subseteq Existing
      BY <3>1 DEF OneCardInv
    <3> QED BY <3>1, <3>2, MovesOn
  <2>2. CASE \E t \in {"already_resolved", "chat_deleted"} : Answered(p, a, t)
    BY <1>12, <2>2, Ends DEF ClaimLost, Answered
  <2>3. CASE ~On(p, "decline") /\ ~\E t \in {"already_resolved", "chat_deleted"} : Answered(p, a, t)
    <3>1. /\ pc[p] = "claim" /\ Goto(p, "claim")
          /\ work' = [work EXCEPT ![p] = @ \ {a}]
          /\ UNCHANGED <<rec, claim, world, route, todo, held, cur, snap, told>>
      BY <1>12, <2>0, <2>3 DEF ClaimLost
    <3>2. route'[p] # "applyAll" /\ (todo'[p] \cup work'[p]) \subseteq Existing
      BY <3>1 DEF OneCardInv
    <3> QED BY <3>1, <3>2, MovesOn
  <2> QED BY <2>1, <2>2, <2>3
<1>13. ASSUME NEW p \in Requests, AnswerLost(p) PROVE CStep
  BY <1>13, Ends DEF AnswerLost, Answered
<1>14. ASSUME NEW p \in Requests, ReadClaimed(p) PROVE CStep
  <2>1. snap'[p][cur[p]].outcome = "open" /\ \A q \in Requests \ {p} : snap'[q] = snap[q]
    BY <1>14 DEF ReadClaimed, Owned, OpenInv, HandsInv, Working, Unsettled
  <2>2. work[p] \subseteq Existing' /\ UNCHANGED <<rec, claim, due, ran, route, todo, work, held, cur, told>>
    BY <1>14 DEF ReadClaimed, OneCardInv, Existing
  <2>3. Goto(p, pc'[p]) /\ pc'[p] \in Unsettled \ {"linked", "ran"} /\ pc[p] \in Unsettled
    BY <1>14 DEF ReadClaimed, Unsettled
  <2>4. OneCardInv' /\ OpenInv' /\ EndInv'
    BY <2>1, <2>2, <2>3, WorksOn
  <2> QED BY <2>2, <2>4, Silent DEF CStep
<1>15. ASSUME NEW p \in Requests, Stamp(p) PROVE CStep
  <2>1. /\ pc[p] \in {"stamp", "confirmed"}
        /\ \E s \in {"confirmed", "edit", "run", "settle"} : Goto(p, s)
        /\ rec' = [rec EXCEPT ![cur[p]] = snap[p][cur[p]]]
        /\ UNCHANGED <<claim, world, scope, lists, cur, snap, told>>
    BY <1>15 DEF Stamp, AfterStamp, OneCardInv, SaveCopy
  <2> QED BY <2>1, SavesOpen
<1>16. ASSUME NEW p \in Requests, SaveConfirmation(p) PROVE CStep
  <2>1. /\ pc[p] \in {"stamp", "confirmed"}
        /\ \E s \in {"confirmed", "edit", "run", "settle"} : Goto(p, s)
        /\ rec' = [rec EXCEPT ![cur[p]] = snap[p][cur[p]]]
        /\ UNCHANGED <<claim, world, scope, lists, cur, snap, told>>
    BY <1>16 DEF SaveConfirmation, SaveCopy
  <2> QED BY <2>1, SavesOpen
<1>17. ASSUME NEW p \in Requests, Drift(p) PROVE CStep
  BY <1>17, Records DEF Drift, Unsettled, AfterRun, OneCardInv
<1>18. ASSUME NEW p \in Requests, RunTool(p) PROVE CStep
  BY <1>18, Runs DEF RunTool
<1>19. ASSUME NEW p \in Requests, ToolRaises(p) PROVE CStep
  BY <1>19, Runs DEF ToolRaises
<1>20. ASSUME NEW p \in Requests, RecordExecuted(p) PROVE CStep
  BY <1>20, Records DEF RecordExecuted, Unsettled, AfterRun, OneCardInv
<1>21. ASSUME NEW p \in Requests, AuditRaises(p) PROVE CStep
  BY <1>21 DEF AuditRaises, Plain
<1>22. ASSUME NEW p \in Requests, RecordFailed(p) PROVE CStep
  <2>1. /\ pc[p] = "raised" /\ Resolve(p, cur[p], "failed") /\ UNCHANGED world
        /\ Leave(p, "done", cur[p], "failed")
    BY <1>22 DEF RecordFailed, Answered
  <2>2. /\ Goto(p, "done") /\ told'[p] = "failed" /\ held'[p] = {} /\ route' = route
        /\ todo'[p] \cup work'[p] = {} /\ pc[p] \in Unsettled /\ route[p] # "applyAll"
        /\ \A q \in Requests \ {p} : /\ todo'[q] = todo[q] /\ work'[q] = work[q] /\ held'[q] = held[q]
                                     /\ cur'[q] = cur[q] /\ snap'[q] = snap[q] /\ told'[q] = told[q]
    BY <2>1 DEF Leave, Unsettled, OneCardInv
  <2> QED BY <2>1, <2>2, Records
<1>23. ASSUME NEW p \in Requests, Answer(p) PROVE CStep
  <2>1. cur[p] \in Actions /\ (rec[cur[p]].outcome # "drifted" => ran[cur[p]] = 1)
    BY <1>23 DEF Answer, EndInv, HandsInv, Working
  <2> QED BY <1>23, <2>1, Ends DEF Answer, Answered
<1>24. ASSUME NEW p \in Requests, Settle(p) PROVE CStep
  <2>1. pc[p] = "settle" /\ Resolve(p, cur[p], Verdict(route[p])) /\ UNCHANGED world
    BY <1>24 DEF Settle
  <2>2. Verdict(route[p]) \in {"declined", "superseded"} /\ held[p] = {cur[p]}
    BY <2>1 DEF Verdict, OneCardInv, HandsInv, Working
  <2>3. CASE work[p] = {}
    <3>1. Leave(p, "done", cur[p], Verdict(route[p]))
      BY <1>24, <2>3 DEF Settle, Answered
    <3>2. /\ Goto(p, "done") /\ told'[p] # "executed" /\ held'[p] = {} /\ route' = route
          /\ todo'[p] \cup work'[p] = {} /\ pc[p] \in Unsettled \ AfterRun /\ route[p] # "applyAll"
          /\ \A q \in Requests \ {p} : /\ todo'[q] = todo[q] /\ work'[q] = work[q] /\ held'[q] = held[q]
                                       /\ cur'[q] = cur[q] /\ snap'[q] = snap[q] /\ told'[q] = told[q]
      BY <3>1, <2>1, <2>2 DEF Leave, Unsettled, AfterRun, OneCardInv
    <3> QED BY <3>2, <2>1, <2>2, Records
  <2>4. CASE work[p] # {}
    <3>1. /\ held' = [held EXCEPT ![p] = @ \ {cur[p]}] /\ Goto(p, "claim")
          /\ UNCHANGED <<route, todo, work, cur, snap, told>>
      BY <1>24, <2>4 DEF Settle
    <3>2. (todo'[p] \cup work'[p]) \subseteq Existing /\ route'[p] # "applyAll"
      BY <3>1 DEF OneCardInv
    <3> QED BY ZenonT(60), <3>1, <3>2, <2>1, <2>2, Records DEF Unsettled, AfterRun
  <2> QED BY <2>3, <2>4
<1>25. ASSUME NEW p \in Requests, NEW a \in Actions, SaveEdited(p, a) PROVE CStep
  <2>1. /\ pc[p] = "edit" /\ Goto(p, "settle") /\ NewCard(a)
        /\ work' = [work EXCEPT ![p] = {a}]
        /\ UNCHANGED <<claim, due, ran, route, todo, held, cur, snap, told>>
    BY <1>25 DEF SaveEdited, NewCard
  <2>2. rec[a].outcome = "absent" /\ rec' = [rec EXCEPT ![a] = Opened]
    BY <2>1 DEF NewCard
  <2>3. /\ work'[p] \subseteq Existing'
        /\ snap'[p][cur[p]].outcome = "open"
        /\ \A b \in Actions : \/ rec'[b].outcome = rec[b].outcome
                              \/ rec[b].outcome = "absent" /\ rec'[b].outcome = "open"
    BY <2>1, <2>2 DEF Opened, Existing, OpenInv, Unsettled
  <2>4. Goto(p, pc'[p]) /\ pc'[p] \in Unsettled \ {"linked", "ran"} /\ pc[p] \in Unsettled
    BY <2>1 DEF Unsettled
  <2>5. OneCardInv' /\ OpenInv' /\ EndInv'
    BY <2>1, <2>3, <2>4, WorksOn
  <2> QED BY <2>1, <2>5, Stating DEF CStep
<1>26. ASSUME NEW p \in Requests, SettleEdited(p) PROVE CStep
  BY ZenonT(60), <1>26, Records DEF SettleEdited, Start, Sweeping, Unsettled, AfterRun, OneCardInv
<1>27. ASSUME NEW p \in Requests, ApplyBatch(p) \/ BatchRefused(p) \/ BatchUnknown(p) PROVE CStep
  BY <1>27 DEF ApplyBatch, BatchRefused, BatchUnknown, OneCardInv
<1>28. ASSUME NEW p \in Requests, NEW a \in Actions, SettleBatch(p, a) \/ Unlink(p, a) PROVE CStep
  BY <1>28 DEF SettleBatch, Unlink, OneCardInv
<1>29. ASSUME NEW p \in Requests, Reopen(p) PROVE CStep
  BY <1>29 DEF Reopen, OneCardInv
<1>30. CASE UNCHANGED vars
  BY <1>30, Silent DEF vars, CStep, OneCardInv, OpenInv, EndInv, Existing
<1> QED BY <1>1, <1>2, <1>3, <1>4, <1>5, <1>6, <1>7, <1>8, <1>9, <1>10, <1>11, <1>12, <1>13,
      <1>14, <1>15, <1>16, <1>17, <1>18, <1>19, <1>20, <1>21, <1>22, <1>23, <1>24, <1>25, <1>26,
      <1>27, <1>28, <1>29, <1>30 DEF Next, Step

\* The flow implements ConfirmContract: each action is stated, performed at most once and closed
\* once, with an outcome that agrees with what happened; for any number of cards and of concurrent
\* requests, with crashes at any step (confirm_flow.py, PendingStore).
THEOREM Refinement ==
  ASSUME Plain
  PROVE  Spec => ImplementsContract
<1>1. Init => CInv /\ Contract!Init
  <2>1. Init => IInv
    BY InitIInv
  <2>2. Init => Contract!Init
    BY DEF Init, Absent, Contract!Init
  <2>3. Init => OneCardInv /\ OpenInv /\ EndInv /\ due = {}
    BY DEF Init, Absent, OneCardInv, OpenInv, EndInv, Working, Unsettled
  <2> QED BY <2>1, <2>2, <2>3 DEF CInv
<1>2. CInv /\ IInv' /\ [Next]_vars => (CInv)' /\ [Contract!Next]_(Contract!vars)
  BY ContractStep DEF CStep
<1> QED BY <1>1, <1>2, Invariance, PTL DEF Spec, ImplementsContract, Contract!Spec

\* "Done." is answered only for a call that ran, under the same conditions (_apply).
THEOREM DoneRan ==
  ASSUME Plain
  PROVE  Spec => []DoneIsDone
<1>1. Init => CInv
  BY InitIInv DEF Init, Absent, CInv, OneCardInv, OpenInv, EndInv, Working, Unsettled
<1>2. CInv /\ IInv' /\ [Next]_vars => (CInv)'
  BY ContractStep DEF CStep
<1>3. CInv => DoneIsDone
  BY DEF CInv, EndInv, DoneIsDone
<1> QED BY <1>1, <1>2, <1>3, Invariance, PTL DEF Spec

=============================================================================
