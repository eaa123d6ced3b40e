------------------------- MODULE ContinueLock_proofs -------------------------
(***************************************************************************)
(* Theorems about ContinueLock.  A lock is a file that is removed by its   *)
(* name: what keeps it its holder's is that a holder's process lives       *)
(* (HeldInv), and that of two processes that start, one has started before *)
(* the other does.                                                         *)
(***************************************************************************)
EXTENDS ContinueLock, TLAPS

USE ContinueAssumption

Steps == {"idle", "group", "take", "link", "ask", "start", "running",
          "press", "taken", "admitted", "inside", "done"}

\* The steps of a request, with what it may come to hold.
Became(p, at, by, todo, taken, look) ==
  /\ press' \in [Presses -> Press]
  /\ press'[p].at = at /\ press'[p].by = by /\ press'[p].todo = todo
  /\ press'[p].taken = taken /\ press'[p].look = look
  /\ \A q \in Presses \ {p} : press'[q] = press[q]

Is(step, at, by, todo, taken, look) ==
  /\ step \in Press
  /\ step.at = at /\ step.by = by /\ step.todo = todo /\ step.taken = taken /\ step.look = look

LEMMA BecameFrom ==
  ASSUME ContTypeOK, NEW p \in Presses, NEW step, press' = [press EXCEPT ![p] = step],
         NEW at, NEW by, NEW todo, NEW taken, NEW look, Is(step, at, by, todo, taken, look)
  PROVE  Became(p, at, by, todo, taken, look)
BY DEF Became, Is, ContTypeOK

\* The changes of a request that the actions make.
LEMMA Changed ==
  ASSUME NEW r \in Press, NEW at \in Steps, NEW todo \in SUBSET Cards, NEW taken \in SUBSET Cards,
         NEW look \in Cards \cup {Nobody}
  PROVE  /\ Is([r EXCEPT !.at = at], at, r.by, r.todo, r.taken, r.look)
         /\ Is([r EXCEPT !.todo = todo], r.at, r.by, todo, r.taken, r.look)
         /\ Is([r EXCEPT !.at = at, !.todo = todo], at, r.by, todo, r.taken, r.look)
         /\ Is([r EXCEPT !.at = at, !.look = look], at, r.by, r.todo, r.taken, look)
         /\ Is([r EXCEPT !.at = at, !.taken = taken], at, r.by, r.todo, taken, r.look)
         /\ Is([r EXCEPT !.at = at, !.todo = todo, !.look = look, !.taken = taken], at, r.by, todo, taken, look)
<1>1. Is([r EXCEPT !.at = at], at, r.by, r.todo, r.taken, r.look)
  BY DEF Is, Press, Steps
<1>2. Is([r EXCEPT !.todo = todo], r.at, r.by, todo, r.taken, r.look)
  BY DEF Is, Press, Steps
<1>3. Is([r EXCEPT !.at = at, !.todo = todo], at, r.by, todo, r.taken, r.look)
  BY DEF Is, Press, Steps
<1>4. Is([r EXCEPT !.at = at, !.look = look], at, r.by, r.todo, r.taken, look)
  BY DEF Is, Press, Steps
<1>5. Is([r EXCEPT !.at = at, !.taken = taken], at, r.by, r.todo, taken, r.look)
  BY DEF Is, Press, Steps
<1>6. Is([r EXCEPT !.at = at, !.todo = todo, !.look = look, !.taken = taken], at, r.by, todo, taken, look)
  BY DEF Is, Press, Steps
<1> QED BY <1>1, <1>2, <1>3, <1>4, <1>5, <1>6

\* What each action does to the request that takes it.
LEMMA Begun ==
  ASSUME ContTypeOK, NEW p \in Presses, AnswerCard(p) \/ PressContinue(p)
  PROVE  \E g \in Gateways, at \in {"group", "press"}, look \in Cards \cup {Nobody} :
           /\ press[p].at = "idle" /\ gateway[g] = "up"
           /\ Became(p, at, g, {}, {}, look)
           /\ at = "press" => look \in Delegated
<1>1. CASE AnswerCard(p)
  <2>1. PICK g \in Gateways : press[p].at = "idle" /\ gateway[g] = "up"
                              /\ press' = [press EXCEPT ![p] = Asks("group", g, Nobody)]
    BY <1>1 DEF AnswerCard
  <2>3. Is(Asks("group", g, Nobody), "group", g, {}, {}, Nobody)
    BY DEF Press, Asks, Is
  <2>4. Became(p, "group", g, {}, {}, Nobody)
    BY <2>1, <2>3, BecameFrom
  <2> QED BY <2>1, <2>4
<1>2. CASE PressContinue(p)
  <2>1. PICK c \in Delegated, g \in Gateways : press[p].at = "idle" /\ gateway[g] = "up"
          /\ press' = [press EXCEPT ![p] = Asks("press", g, c)]
    BY <1>2 DEF PressContinue
  <2>3. Is(Asks("press", g, c), "press", g, {}, {}, c) /\ c \in Cards
    BY DEF Press, Asks, Is, Cards
  <2>4. Became(p, "press", g, {}, {}, c)
    BY <2>1, <2>3, BecameFrom
  <2> QED BY <2>1, <2>3, <2>4
<1> QED BY <1>1, <1>2

\* A request that goes on is still its process's, which is up.
Goes(p, at, todo, taken, look) == Became(p, at, press[p].by, todo, taken, look)

Candidates == {c \in Outbound : ~continued[c] /\ answer[c] \in {"executed", "declined"}}

LEMMA LookGoes ==
  ASSUME ContTypeOK, NEW p \in Presses, LookAtGroup(p)
  PROVE  /\ press[p].at = "group"
         /\ \/ Goes(p, "done", press[p].todo, press[p].taken, press[p].look)
            \/ /\ \A c \in Outbound : answer[c] # "open"
               /\ Goes(p, "take", Candidates, press[p].taken, press[p].look)
               /\ LoopFree(press[p].by, p)
<1>1. press[p] \in Press /\ Candidates \in SUBSET Cards /\ {"done", "take"} \subseteq Steps
  BY DEF ContTypeOK, Candidates, Cards, Steps
<1>2. CASE press' = [press EXCEPT ![p] = [press[p] EXCEPT !.at = "done"]]
  <2>1. Is([press[p] EXCEPT !.at = "done"], "done", press[p].by, press[p].todo, press[p].taken, press[p].look)
    BY <1>1, Changed
  <2> QED BY <1>2, <2>1, BecameFrom DEF LookAtGroup, Goes
<1>3. CASE press' = [press EXCEPT ![p] = [press[p] EXCEPT !.at = "take", !.todo = Candidates]]
           /\ (\A c \in Outbound : answer[c] # "open") /\ LoopFree(press[p].by, p)
  <2>1. Is([press[p] EXCEPT !.at = "take", !.todo = Candidates],
           "take", press[p].by, Candidates, press[p].taken, press[p].look)
    BY <1>1, Changed
  <2> QED BY <1>3, <2>1, BecameFrom DEF LookAtGroup, Goes
<1> QED BY <1>2, <1>3 DEF LookAtGroup, Go, Candidates

LEMMA TakeGoes ==
  ASSUME ContTypeOK, NEW p \in Presses, TakeOne(p)
  PROVE  press[p].at = "take" /\ \E c \in press[p].todo :
           \/ continued[c] /\ Goes(p, "take", press[p].todo \ {c}, press[p].taken, press[p].look)
           \/ ~continued[c] /\ Goes(p, "link", press[p].todo, press[p].taken, c)
<1>1. PICK c \in press[p].todo :
        Go(p, IF continued[c] THEN [press[p] EXCEPT !.todo = @ \ {c}] ELSE [press[p] EXCEPT !.at = "link", !.look = c])
  BY DEF TakeOne
<1>2. press[p] \in Press /\ press[p].at = "take"
  BY DEF TakeOne, ContTypeOK
<1>3. press[p].todo \ {c} \in SUBSET Cards /\ c \in Cards /\ "link" \in Steps
  BY <1>2 DEF Press, Steps
<1>4. CASE continued[c]
  <2>1. press' = [press EXCEPT ![p] = [press[p] EXCEPT !.todo = press[p].todo \ {c}]]
    BY <1>1, <1>4 DEF Go
  <2>2. Is([press[p] EXCEPT !.todo = press[p].todo \ {c}],
           "take", press[p].by, press[p].todo \ {c}, press[p].taken, press[p].look)
    BY <1>2, <1>3, Changed
  <2>3. Goes(p, "take", press[p].todo \ {c}, press[p].taken, press[p].look)
    BY <2>1, <2>2, BecameFrom DEF Goes
  <2> QED BY <1>2, <1>4, <2>3
<1>5. CASE ~continued[c]
  <2>1. press' = [press EXCEPT ![p] = [press[p] EXCEPT !.at = "link", !.look = c]]
    BY <1>1, <1>5 DEF Go
  <2>2. Is([press[p] EXCEPT !.at = "link", !.look = c], "link", press[p].by, press[p].todo, press[p].taken, c)
    BY <1>2, <1>3, Changed
  <2> QED BY <1>2, <1>5, <2>1, <2>2, BecameFrom DEF Goes
<1> QED BY <1>4, <1>5

LEMMA LinkGoes ==
  ASSUME ContTypeOK, PressInv, NEW p \in Presses, LinkOne(p)
  PROVE  LET c == press[p].look
         IN  /\ press[p].at = "link" /\ c \in Cards
             /\ IF lock[c] = Nobody
                THEN Goes(p, "take", press[p].todo \ {c}, press[p].taken \cup {c}, Nobody)
                ELSE Goes(p, "take", press[p].todo \ {c}, press[p].taken, Nobody)
<1> DEFINE c == press[p].look
<1>1. press[p] \in Press /\ press[p].at = "link" /\ c \in Cards
  BY DEF LinkOne, ContTypeOK, PressInv
<1>2. PICK taken : taken = IF lock[c] = Nobody THEN press[p].taken \cup {c} ELSE press[p].taken
  OBVIOUS
<1>3. taken \in SUBSET Cards /\ press[p].todo \ {c} \in SUBSET Cards /\ "take" \in Steps
  BY <1>1, <1>2 DEF Press, Steps
<1>4. press' = [press EXCEPT ![p] = [press[p] EXCEPT !.at = "take", !.todo = press[p].todo \ {c}, !.look = Nobody,
                                                    !.taken = taken]]
  BY <1>2 DEF LinkOne, Go
<1>5. Is([press[p] EXCEPT !.at = "take", !.todo = press[p].todo \ {c}, !.look = Nobody, !.taken = taken],
         "take", press[p].by, press[p].todo \ {c}, taken, Nobody)
  BY <1>1, <1>3, Changed
<1>6. Goes(p, "take", press[p].todo \ {c}, taken, Nobody)
  BY <1>4, <1>5, BecameFrom DEF Goes
<1> QED BY <1>1, <1>2, <1>6

\* The steps that change nothing of a request but where it is, or end it with nothing taken.
LEMMA StepsOn ==
  ASSUME ContTypeOK, NEW p \in Presses, NEW at \in Steps
  PROVE  /\ press' = [press EXCEPT ![p] = [press[p] EXCEPT !.at = at]]
              => Goes(p, at, press[p].todo, press[p].taken, press[p].look)
         /\ press' = [press EXCEPT ![p] = [press[p] EXCEPT !.at = at, !.taken = {}]]
              => Goes(p, at, press[p].todo, {}, press[p].look)
<1>1. press[p] \in Press
  BY DEF ContTypeOK
<1>2. /\ Is([press[p] EXCEPT !.at = at], at, press[p].by, press[p].todo, press[p].taken, press[p].look)
      /\ Is([press[p] EXCEPT !.at = at, !.taken = {}], at, press[p].by, press[p].todo, {}, press[p].look)
  BY <1>1, Changed
<1> QED BY <1>2, BecameFrom DEF Goes

LEMMA WeighGoes ==
  ASSUME ContTypeOK, NEW p \in Presses, Weigh(p)
  PROVE  /\ press[p].at = "take" /\ press[p].todo = {}
         /\ \/ /\ Goes(p, "ask", press[p].todo, press[p].taken, press[p].look)
               /\ UNCHANGED lock /\ \E c \in press[p].taken : answer[c] = "executed"
            \/ Goes(p, "done", press[p].todo, {}, press[p].look) /\ Unlinked(press[p].taken)
BY StepsOn DEF Weigh, Go, Steps

LEMMA PlainGoes ==
  ASSUME ContTypeOK, NEW p \in Presses
  PROVE  /\ GiveBack(p) => /\ press[p].at \in {"ask", "start"} /\ Unlinked(press[p].taken)
                           /\ Goes(p, "done", press[p].todo, {}, press[p].look)
         /\ ChatFree(p) => press[p].at = "ask" /\ Goes(p, "start", press[p].todo, press[p].taken, press[p].look)
         /\ StartResume(p) => press[p].at = "start" /\ Goes(p, "running", press[p].todo, press[p].taken, press[p].look)
         /\ ResumeEnds(p) => press[p].at = "running" /\ Goes(p, "done", press[p].todo, press[p].taken, press[p].look)
         /\ RefuseAgent(p) => /\ press[p].at = "taken" /\ Unlinked(press[p].taken)
                              /\ Goes(p, "done", press[p].todo, {}, press[p].look)
         /\ AdmitAgent(p) => press[p].at = "taken" /\ Goes(p, "admitted", press[p].todo, press[p].taken, press[p].look)
         /\ StopBeforeAgent(p) => press[p].at = "admitted" /\ Goes(p, "done", press[p].todo, {}, press[p].look)
         /\ EnterAgent(p) => press[p].at = "admitted" /\ Goes(p, "inside", press[p].todo, press[p].taken, press[p].look)
         /\ AgentEnds(p) => press[p].at = "inside" /\ Goes(p, "done", press[p].todo, press[p].taken, press[p].look)
<1> USE DEF Go, Steps
<1>1. GiveBack(p) => Goes(p, "done", press[p].todo, {}, press[p].look)
  BY StepsOn DEF GiveBack
<1>2. ChatFree(p) => Goes(p, "start", press[p].todo, press[p].taken, press[p].look)
  BY StepsOn DEF ChatFree
<1>3. StartResume(p) => Goes(p, "running", press[p].todo, press[p].taken, press[p].look)
  BY StepsOn DEF StartResume
<1>4. ResumeEnds(p) => Goes(p, "done", press[p].todo, press[p].taken, press[p].look)
  BY StepsOn DEF ResumeEnds
<1>5. RefuseAgent(p) => Goes(p, "done", press[p].todo, {}, press[p].look)
  BY StepsOn DEF RefuseAgent
<1>6. AdmitAgent(p) => Goes(p, "admitted", press[p].todo, press[p].taken, press[p].look)
  BY StepsOn DEF AdmitAgent
<1>7. StopBeforeAgent(p) => Goes(p, "done", press[p].todo, {}, press[p].look)
  BY StepsOn DEF StopBeforeAgent
<1>8. EnterAgent(p) => Goes(p, "inside", press[p].todo, press[p].taken, press[p].look)
  BY StepsOn DEF EnterAgent
<1>9. AgentEnds(p) => Goes(p, "done", press[p].todo, press[p].taken, press[p].look)
  BY StepsOn DEF AgentEnds
<1> QED BY <1>1, <1>2, <1>3, <1>4, <1>5, <1>6, <1>7, <1>8, <1>9
        DEF GiveBack, ChatFree, StartResume, ResumeEnds, RefuseAgent, AdmitAgent, StopBeforeAgent, EnterAgent, AgentEnds

LEMMA AgentGoes ==
  ASSUME ContTypeOK, PressInv, NEW p \in Presses, TakeForAgent(p)
  PROVE  LET c == press[p].look
         IN  /\ press[p].at = "press" /\ c \in Cards
             /\ IF lock[c] = Nobody THEN Goes(p, "taken", press[p].todo, {c}, c)
                ELSE Goes(p, "done", press[p].todo, press[p].taken, c)
<1> DEFINE c == press[p].look
<1>1. press[p] \in Press /\ press[p].at = "press" /\ c \in Cards
  BY DEF TakeForAgent, ContTypeOK, PressInv
<1>2. CASE lock[c] = Nobody
  <2>1. press' = [press EXCEPT ![p] = [press[p] EXCEPT !.at = "taken", !.taken = {c}]]
    BY <1>2 DEF TakeForAgent, Go
  <2>2. Is([press[p] EXCEPT !.at = "taken", !.taken = {c}], "taken", press[p].by, press[p].todo, {c}, c)
    BY <1>1, Changed DEF Steps
  <2> QED BY <1>1, <1>2, <2>1, <2>2, BecameFrom DEF Goes
<1>3. CASE lock[c] # Nobody
  <2>1. press' = [press EXCEPT ![p] = [press[p] EXCEPT !.at = "done"]]
    BY <1>3 DEF TakeForAgent, Go
  <2> QED BY <1>1, <1>3, <2>1, StepsOn DEF Steps
<1> QED BY <1>1, <1>2, <1>3

----------------------------------------------------------------------------
(* What a request's step does to the locks. *)

\* A request's step leaves the processes and the other requests as they are.
Kept(p) ==
  /\ UNCHANGED <<life, gateway, scan, deaths, apart>>
  /\ press' \in [Presses -> Press]
  /\ \A q \in Presses \ {p} : press'[q] = press[q]
  /\ Active(p)' => press'[p].by \in Gateways /\ gateway[press'[p].by] = "up"
  /\ press'[p].at \in {"group", "press"} => press'[p].taken = {}
  /\ press'[p].at \in {"link", "press"} => press'[p].look \in Cards

\* It touches no lock; it takes a free one; it gives back all it holds; or it spends them.
Keeps(p) ==
  /\ UNCHANGED <<lock, continued, entered>>
  /\ \A c \in Cards : HoldsLock(p, c)' => HoldsLock(p, c) /\ press'[p].by = press[p].by

Wins(p, c) ==
  /\ lock[c] = Nobody /\ lock' = [lock EXCEPT ![c] = Self(press'[p].by)]
  /\ UNCHANGED <<continued, entered>> /\ press'[p].by = press[p].by /\ press[p].by \in Gateways
  /\ HoldsLock(p, c)' /\ \A d \in Cards : HoldsLock(p, d)' => d = c \/ HoldsLock(p, d)

Gives(p) ==
  /\ Active(p) /\ Unlinked(press[p].taken) /\ UNCHANGED <<continued, entered>>
  /\ \A c \in Cards : ~HoldsLock(p, c)'

Spends(p) ==
  /\ Active(p) /\ Finished(press[p].taken, TRUE)
  /\ \A c \in Cards : ~HoldsLock(p, c)'

Effect(p) == Keeps(p) \/ (\E c \in Cards : Wins(p, c)) \/ Gives(p) \/ Spends(p)

LEMMA Stands ==
  ASSUME NEW p \in Presses, NEW at, NEW by, NEW todo, NEW taken, NEW look, Became(p, at, by, todo, taken, look),
         at \notin {"idle", "done"} => by \in Gateways /\ gateway[by] = "up",
         at \in {"group", "press"} => taken = {}, at \in {"link", "press"} => look \in Cards,
         UNCHANGED <<life, gateway, scan, deaths, apart>>
  PROVE  /\ Kept(p) /\ press'[p].by = by
         /\ \A c \in Cards : HoldsLock(p, c)' <=> at \notin {"idle", "done"} /\ c \in taken
BY DEF Became, Kept, Active, HoldsLock

\* A press that has begun is of a live process.
Lives(p) ==
  /\ press[p].by \in Gateways /\ gateway[press[p].by] = "up" /\ Active(p)
  /\ UNCHANGED <<life, gateway, scan, deaths, apart>>

LEMMA Alive ==
  ASSUME ContTypeOK, PressInv, NEW p \in Presses, PressStep(p)
  PROVE  Lives(p)
<1>1. Active(p)
  BY DEF PressStep, LookAtGroup, TakeOne, LinkOne, Weigh, GiveBack, ChatFree, StartResume, ResumeEnds, TakeForAgent,
         RefuseAgent, AdmitAgent, StopBeforeAgent, EnterAgent, AgentEnds, Active
<1>2. UNCHANGED <<life, gateway, scan, deaths, apart>>
  BY DEF PressStep, LookAtGroup, TakeOne, LinkOne, Weigh, GiveBack, ChatFree, StartResume, ResumeEnds, TakeForAgent,
         RefuseAgent, AdmitAgent, StopBeforeAgent, EnterAgent, AgentEnds
<1> QED BY <1>1, <1>2 DEF PressInv, Lives

\* A step after which the request holds what it held, and one after which it holds nothing.
LEMMA Holding ==
  ASSUME ContTypeOK, PressInv, NEW p \in Presses, Lives(p), NEW at \in Steps, NEW todo, NEW look,
         at \notin {"group", "press"}, at = "link" => look \in Cards
  PROVE  /\ Goes(p, at, todo, press[p].taken, look) /\ UNCHANGED <<lock, continued, entered>> => Kept(p) /\ Keeps(p)
         /\ Goes(p, at, todo, {}, look) /\ UNCHANGED <<lock, continued, entered>> => Kept(p) /\ Keeps(p)
         /\ Goes(p, "done", todo, {}, look) /\ Unlinked(press[p].taken) /\ UNCHANGED <<continued, entered>>
              => Kept(p) /\ Gives(p)
         /\ Goes(p, "done", todo, press[p].taken, look) /\ Unlinked(press[p].taken) /\ UNCHANGED <<continued, entered>>
              => Kept(p) /\ Gives(p)
         /\ Goes(p, "done", todo, press[p].taken, look) /\ Finished(press[p].taken, TRUE) => Kept(p) /\ Spends(p)
<1> USE DEF Goes, Lives
<1>1. ASSUME Goes(p, at, todo, press[p].taken, look), UNCHANGED <<lock, continued, entered>>
      PROVE  Kept(p) /\ Keeps(p)
  BY <1>1, Stands DEF Keeps, HoldsLock
<1>2. ASSUME Goes(p, at, todo, {}, look), UNCHANGED <<lock, continued, entered>>
      PROVE  Kept(p) /\ Keeps(p)
  BY <1>2, Stands DEF Keeps, HoldsLock
<1>3. ASSUME NEW taken, Goes(p, "done", todo, taken, look), Unlinked(press[p].taken), UNCHANGED <<continued, entered>>
      PROVE  Kept(p) /\ Gives(p)
  BY <1>3, Stands DEF Gives
<1>4. ASSUME Goes(p, "done", todo, press[p].taken, look), Finished(press[p].taken, TRUE)
      PROVE  Kept(p) /\ Spends(p)
  <2>1. Kept(p) /\ \A c \in Cards : ~HoldsLock(p, c)'
    BY <1>4, Stands
  <2> QED BY <1>4, <2>1 DEF Spends, Lives
<1> QED BY <1>1, <1>2, <1>3, <1>4

LEMMA PressEffect ==
  ASSUME ContTypeOK, PressInv, NEW p \in Presses, PressStep(p)
  PROVE  Kept(p) /\ Effect(p)
<1>1. Lives(p)
  BY Alive
<1> USE DEF Effect
<1>2. CASE LookAtGroup(p)
  <2>1. UNCHANGED <<lock, continued, entered>>
    BY <1>2 DEF LookAtGroup
  <2> QED BY <1>1, <1>2, <2>1, LookGoes, Holding DEF Steps
<1>3. CASE TakeOne(p)
  <2>1. UNCHANGED <<lock, continued, entered>> /\ press[p].todo \subseteq Cards
    BY <1>3 DEF TakeOne, ContTypeOK, Press
  <2> QED BY <1>1, <1>3, <2>1, TakeGoes, Holding DEF Steps
<1>4. CASE LinkOne(p)
  <2>1. PICK c \in Cards : /\ c = press[p].look /\ press[p].at = "link" /\ UNCHANGED <<continued, entered>>
                           /\ lock' = IF lock[c] = Nobody THEN [lock EXCEPT ![c] = Self(press[p].by)] ELSE lock
    BY <1>4 DEF LinkOne, PressInv
  <2>2. CASE lock[c] = Nobody
    <3>1. Became(p, "take", press[p].by, press[p].todo \ {c}, press[p].taken \cup {c}, Nobody)
      BY <1>4, <2>1, <2>2, LinkGoes DEF Goes
    <3>2. Kept(p) /\ press'[p].by = press[p].by
          /\ \A d \in Cards : HoldsLock(p, d)' <=> d \in press[p].taken \cup {c}
      BY <1>1, <3>1, Stands DEF Lives
    <3>3. HoldsLock(p, c)'
      BY <2>1, <3>2
    <3>4. \A d \in Cards : HoldsLock(p, d)' => d = c \/ HoldsLock(p, d)
      BY <1>1, <3>2 DEF HoldsLock, Lives
    <3>5. Wins(p, c)
      BY <1>1, <2>1, <2>2, <3>2, <3>3, <3>4 DEF Wins, Lives
    <3> QED BY <2>1, <3>2, <3>5
  <2>3. CASE lock[c] # Nobody
    <3>1. Goes(p, "take", press[p].todo \ {c}, press[p].taken, Nobody)
      BY <1>4, <2>1, <2>3, LinkGoes
    <3>2. UNCHANGED <<lock, continued, entered>>
      BY <2>1, <2>3
    <3> QED BY <1>1, <3>1, <3>2, Holding DEF Steps
  <2> QED BY <2>2, <2>3
<1>5. CASE Weigh(p)
  <2>1. UNCHANGED <<continued, entered>>
    BY <1>5 DEF Weigh
  <2> QED BY <1>1, <1>5, <2>1, WeighGoes, Holding DEF Steps
<1>6. CASE TakeForAgent(p)
  <2>1. PICK c \in Cards : /\ c = press[p].look /\ press[p].at = "press" /\ UNCHANGED <<continued, entered>>
                           /\ lock' = IF lock[c] = Nobody THEN [lock EXCEPT ![c] = Self(press[p].by)] ELSE lock
    BY <1>6 DEF TakeForAgent, PressInv
  <2>2. CASE lock[c] = Nobody
    <3>1. Became(p, "taken", press[p].by, press[p].todo, {c}, c)
      BY <1>6, <2>1, <2>2, AgentGoes DEF Goes
    <3>2. Kept(p) /\ press'[p].by = press[p].by /\ \A d \in Cards : HoldsLock(p, d)' <=> d \in {c}
      BY <1>1, <3>1, Stands DEF Lives
    <3>3. HoldsLock(p, c)'
      BY <2>1, <3>2
    <3>4. \A d \in Cards : HoldsLock(p, d)' => d = c \/ HoldsLock(p, d)
      BY <1>1, <3>2 DEF HoldsLock, Lives
    <3>5. Wins(p, c)
      BY <1>1, <2>1, <2>2, <3>2, <3>3, <3>4 DEF Wins, Lives
    <3> QED BY <2>1, <3>2, <3>5
  <2>3. CASE lock[c] # Nobody
    <3>1. Goes(p, "done", press[p].todo, press[p].taken, c)
      BY <1>6, <2>1, <2>3, AgentGoes
    <3>2. UNCHANGED <<lock, continued, entered>>
      BY <2>1, <2>3
    <3> QED BY <1>1, <3>1, <3>2, Holding DEF Steps
  <2> QED BY <2>2, <2>3
<1>7. CASE ChatFree(p) \/ StartResume(p) \/ AdmitAgent(p) \/ StopBeforeAgent(p) \/ EnterAgent(p)
  <2>1. UNCHANGED <<lock, continued, entered>>
    BY <1>7 DEF ChatFree, StartResume, AdmitAgent, StopBeforeAgent, EnterAgent
  <2>2. \E at \in {"start", "running", "admitted", "inside", "done"} :
          \/ Goes(p, at, press[p].todo, press[p].taken, press[p].look)
          \/ Goes(p, at, press[p].todo, {}, press[p].look)
    BY <1>7, PlainGoes
  <2>3. PICK at \in {"start", "running", "admitted", "inside", "done"} :
          \/ Goes(p, at, press[p].todo, press[p].taken, press[p].look)
          \/ Goes(p, at, press[p].todo, {}, press[p].look)
    BY <2>2
  <2>4. at \in Steps /\ at \notin {"group", "press", "link"}
    BY <2>3 DEF Steps
  <2> QED BY <1>1, <2>1, <2>3, <2>4, Holding
<1>8. CASE GiveBack(p) \/ RefuseAgent(p)
  <2>1. UNCHANGED <<continued, entered>>
    BY <1>8 DEF GiveBack, RefuseAgent
  <2> QED BY <1>1, <1>8, <2>1, PlainGoes, Holding DEF Steps
<1>9. CASE ResumeEnds(p) \/ AgentEnds(p)
  <2>1. Goes(p, "done", press[p].todo, press[p].taken, press[p].look)
    BY <1>9, PlainGoes
  <2>2. PICK ok \in BOOLEAN : Finished(press[p].taken, ok)
    BY <1>9 DEF ResumeEnds, AgentEnds
  <2>3. CASE ok
    BY <1>1, <2>1, <2>2, <2>3, Holding DEF Steps
  <2>4. CASE ~ok
    <3>1. Unlinked(press[p].taken) /\ UNCHANGED <<continued, entered>>
      BY <2>2, <2>4 DEF Finished
    <3> QED BY <1>1, <2>1, <3>1, Holding DEF Steps
  <2> QED BY <2>3, <2>4
<1> QED BY <1>2, <1>3, <1>4, <1>5, <1>6, <1>7, <1>8, <1>9 DEF PressStep

LEMMA BeginsEffect ==
  ASSUME ContTypeOK, NEW p \in Presses, AnswerCard(p) \/ PressContinue(p), UNCHANGED <<deaths, apart>>
  PROVE  Kept(p) /\ Keeps(p)
<1>1. PICK g \in Gateways, at \in {"group", "press"}, look \in Cards \cup {Nobody} :
        gateway[g] = "up" /\ Became(p, at, g, {}, {}, look) /\ (at = "press" => look \in Delegated)
  BY Begun
<1>2. UNCHANGED <<lock, continued, entered, life, gateway, scan>>
  BY DEF AnswerCard, PressContinue
<1>3. Kept(p) /\ \A c \in Cards : ~HoldsLock(p, c)'
  BY <1>1, <1>2, Stands DEF Cards
<1> QED BY <1>2, <1>3 DEF Keeps

----------------------------------------------------------------------------
(* The locks are their holders'. *)

\* Every step of a request.
RequestStep(p) == PressStep(p) \/ ((AnswerCard(p) \/ PressContinue(p)) /\ UNCHANGED <<deaths, apart>>)

LEMMA Effects ==
  ASSUME ContTypeOK, PressInv, NEW p \in Presses, RequestStep(p)
  PROVE  Kept(p) /\ Effect(p)
BY PressEffect, BeginsEffect DEF RequestStep, Effect

\* Whose lock it is, is never Nobody.
LEMMA SelfIsSomebody ==
  ASSUME ContTypeOK, NEW g \in Gateways
  PROVE  Self(g) # Nobody /\ Self(g) \in Gateways \X Nat /\ Self(g)[1] = g /\ Self(g)[2] = life[g]
BY DEF Self, ContTypeOK

LEMMA AnswerSteps ==
  ASSUME ContNext
  PROVE  \/ UNCHANGED answer
         \/ \E c \in Outbound, o \in {"executed", "declined", "expired"} :
              answer[c] = "open" /\ answer' = [answer EXCEPT ![c] = o]
<1>1. CASE \E p \in Presses : AnswerCard(p)
  BY <1>1 DEF AnswerCard
<1>2. CASE ExpireCard
  BY <1>2 DEF ExpireCard
<1>3. ASSUME NEW p \in Presses, PressStep(p) \/ PressContinue(p)
      PROVE  UNCHANGED answer
  BY <1>3 DEF PressStep, LookAtGroup, TakeOne, LinkOne, Weigh, GiveBack, ChatFree, StartResume, ResumeEnds,
              TakeForAgent, RefuseAgent, AdmitAgent, StopBeforeAgent, EnterAgent, AgentEnds, PressContinue
<1>4. ASSUME NEW g \in Gateways, Die(g) \/ Boot(g) \/ ScanStep(g)
      PROVE  UNCHANGED answer
  BY <1>4 DEF Die, Boot, ScanStep, LookAtLock, UnlinkStale, Recovered
<1> QED BY <1>1, <1>2, <1>3, <1>4 DEF ContNext

LEMMA AnswerType ==
  ASSUME ContTypeOK, ContNext
  PROVE  answer' \in [Cards -> {"open", "executed", "declined", "expired"}]
BY AnswerSteps DEF ContTypeOK, Cards

\* A request's step, of the types.
LEMMA RequestType ==
  ASSUME ContTypeOK, PressInv, NEW p \in Presses, Kept(p), Effect(p),
         answer' \in [Cards -> {"open", "executed", "declined", "expired"}]
  PROVE  ContTypeOK'
<1>1. press' \in [Presses -> Press] /\ UNCHANGED <<life, gateway, scan, deaths, apart>>
  BY DEF Kept
<1>2. CASE Keeps(p)
  <2>1. UNCHANGED <<lock, continued, entered>>
    BY <1>2 DEF Keeps
  <2> QED BY <1>1, <2>1 DEF ContTypeOK
<1>3. ASSUME NEW c \in Cards, Wins(p, c)
      PROVE  ContTypeOK'
  <2>1. UNCHANGED <<continued, entered>> /\ lock' = [lock EXCEPT ![c] = Self(press'[p].by)]
        /\ (Active(p)' => press'[p].by \in Gateways)
    BY <1>3 DEF Wins, Kept
  <2>2. press'[p].by \in Gateways
    BY <1>3 DEF Wins, PressInv
  <2>3. lock' \in [Cards -> {Nobody} \cup Gateways \X Nat]
    BY <2>1, <2>2 DEF ContTypeOK, Self
  <2> QED BY <1>1, <2>1, <2>3 DEF ContTypeOK
<1>4. CASE Gives(p)
  <2>1. UNCHANGED <<continued, entered>> /\ lock' \in [Cards -> {Nobody} \cup Gateways \X Nat]
    BY <1>4 DEF Gives, Unlinked, ContTypeOK
  <2> QED BY <1>1, <2>1 DEF ContTypeOK
<1>5. CASE Spends(p)
  <2>1. /\ UNCHANGED lock
        /\ continued' = [c \in Cards |-> c \in press[p].taken \/ continued[c]]
        /\ entered' = [c \in Cards |-> IF c \in press[p].taken THEN entered[c] + 1 ELSE entered[c]]
    BY <1>5 DEF Spends, Finished
  <2>2. continued' \in [Cards -> BOOLEAN]
    BY <2>1
  <2>3. entered' \in [Cards -> Nat]
    BY <2>1 DEF ContTypeOK
  <2> QED BY <1>1, <2>1, <2>2, <2>3 DEF ContTypeOK
<1> QED BY <1>2, <1>3, <1>4, <1>5 DEF Effect

LEMMA RequestPress ==
  ASSUME PressInv, NEW p \in Presses, Kept(p)
  PROVE  PressInv'
BY DEF PressInv, Kept, Active

LEMMA RequestLife ==
  ASSUME ContTypeOK, PressInv, LifeInv, NEW p \in Presses, Kept(p), Effect(p)
  PROVE  LifeInv'
<1>1. UNCHANGED <<life, gateway, scan, deaths, apart>>
  BY DEF Kept
<1>2. ASSUME NEW c \in Cards, lock'[c] # Nobody
      PROVE  lock'[c][2] <= life[lock'[c][1]]
  <2>1. CASE lock'[c] = lock[c]
    BY <1>2, <2>1 DEF LifeInv
  <2>2. CASE lock'[c] # lock[c]
    <3>1. lock'[c] = Self(press[p].by) /\ press[p].by \in Gateways
      BY <1>2, <2>2 DEF Effect, Keeps, Wins, Gives, Spends, Unlinked, Finished, ContTypeOK, Kept, Self
    <3> QED BY <3>1, SelfIsSomebody DEF ContTypeOK
  <2> QED BY <2>1, <2>2
<1> QED BY <1>1, <1>2 DEF LifeInv

\* No other request, and no process that removes a lock, is at a lock that the request holds.
LEMMA Own ==
  ASSUME ContTypeOK, PressInv, HeldInv, NEW p \in Presses, NEW c \in Cards, HoldsLock(p, c)
  PROVE  /\ lock[c] = Self(press[p].by) /\ lock[c] # Nobody /\ ~OwnerGone(lock[c])
         /\ ~continued[c] /\ entered[c] = 0
         /\ \A g \in Gateways : scan[g].at = "unlink" => scan[g].card # c
         /\ \A q \in Presses : HoldsLock(q, c) => q = p
<1>1. press[p].by \in Gateways /\ gateway[press[p].by] = "up"
  BY DEF HoldsLock, PressInv
<1>2. lock[c] = Self(press[p].by) /\ ~continued[c] /\ entered[c] = 0 /\ (\A q \in Presses : HoldsLock(q, c) => q = p)
  BY DEF HeldInv
<1>3. lock[c] # Nobody /\ ~OwnerGone(lock[c])
  BY <1>1, <1>2, SelfIsSomebody DEF OwnerGone
<1> QED BY <1>2, <1>3 DEF HeldInv

\* Held by others, it stays so.
LEMMA OthersHold ==
  ASSUME ContTypeOK, PressInv, HeldInv, NEW p \in Presses, Kept(p), Effect(p),
         NEW q \in Presses \ {p}, NEW c \in Cards, HoldsLock(q, c)'
  PROVE  HoldsLock(q, c) /\ lock'[c] = lock[c] /\ lock[c] = Self(press[q].by)' /\ ~continued'[c] /\ ~HoldsLock(p, c)'
<1>1. HoldsLock(q, c) /\ press'[q] = press[q] /\ UNCHANGED life
  BY DEF Kept, HoldsLock, Active
<1>2. ~HoldsLock(p, c) /\ lock[c] # Nobody /\ lock[c] = Self(press[q].by) /\ ~continued[c]
  BY <1>1, Own
<1>3. CASE Keeps(p)
  BY <1>1, <1>2, <1>3 DEF Keeps, Self
<1>4. ASSUME NEW d \in Cards, Wins(p, d)
      PROVE  lock'[c] = lock[c] /\ ~continued'[c] /\ ~HoldsLock(p, c)'
  BY <1>2, <1>4 DEF Wins, ContTypeOK
<1>5. CASE Gives(p) \/ Spends(p)
  <2>1. c \notin press[p].taken
    BY <1>2, <1>5 DEF Gives, Spends, HoldsLock
  <2> QED BY <1>1, <1>2, <1>5, <2>1 DEF Gives, Spends, Unlinked, Finished, Self
<1> QED BY <1>1, <1>2, <1>3, <1>4, <1>5 DEF Effect, Self

\* What it holds after its step is its own.
LEMMA StillOwn ==
  ASSUME ContTypeOK, PressInv, HeldInv, NEW p \in Presses, Kept(p), Effect(p), NEW c \in Cards, HoldsLock(p, c)'
  PROVE  lock'[c] = Self(press[p].by)' /\ ~continued'[c]
<1>1. UNCHANGED life
  BY DEF Kept
<1>2. CASE Keeps(p)
  BY <1>1, <1>2 DEF Keeps, HeldInv, Self
<1>3. ASSUME NEW d \in Cards, Wins(p, d)
      PROVE  lock'[c] = Self(press[p].by)' /\ ~continued'[c]
  <2>1. CASE c = d
    <3>1. ~continued[c]
      BY <1>3, <2>1 DEF Wins, HeldInv
    <3> QED BY <1>1, <1>3, <2>1, <3>1 DEF Wins, Self, ContTypeOK
  <2>2. CASE c # d
    <3>1. HoldsLock(p, c) /\ lock'[c] = lock[c] /\ continued'[c] = continued[c] /\ press'[p].by = press[p].by
      BY <1>3, <2>2 DEF Wins, ContTypeOK
    <3> QED BY <1>1, <3>1, Own DEF Self
  <2> QED BY <2>1, <2>2
<1>4. CASE Gives(p) \/ Spends(p)
  BY <1>4 DEF Gives, Spends
<1> QED BY <1>2, <1>3, <1>4 DEF Effect

\* A card's lock and its record, over a request's step: what was continued keeps its lock.
LEMMA CardsKept ==
  ASSUME ContTypeOK, PressInv, HeldInv, NEW p \in Presses, Kept(p), Effect(p), NEW c \in Cards
  PROVE  IF continued'[c] THEN lock'[c] # Nobody /\ entered'[c] <= 1 ELSE entered'[c] = 0
<1>0. IF continued[c] THEN lock[c] # Nobody /\ entered[c] <= 1 ELSE entered[c] = 0
  BY DEF HeldInv
<1>1. CASE Keeps(p)
  BY <1>0, <1>1 DEF Keeps
<1>2. ASSUME NEW d \in Cards, Wins(p, d)
      PROVE  IF continued'[c] THEN lock'[c] # Nobody /\ entered'[c] <= 1 ELSE entered'[c] = 0
  <2>1. lock[c] # Nobody => lock'[c] # Nobody
    BY <1>2 DEF Wins, ContTypeOK
  <2> QED BY <1>0, <1>2, <2>1 DEF Wins
<1>3. CASE Gives(p)
  <2>1. continued[c] => ~HoldsLock(p, c)
    BY Own
  <2>2. continued[c] => lock'[c] = lock[c]
    BY <1>3, <2>1 DEF Gives, Unlinked, HoldsLock
  <2> QED BY <1>0, <1>3, <2>2 DEF Gives
<1>4. CASE Spends(p)
  <2>1. /\ UNCHANGED lock
        /\ continued'[c] <=> (c \in press[p].taken \/ continued[c])
        /\ entered'[c] = IF c \in press[p].taken THEN entered[c] + 1 ELSE entered[c]
    BY <1>4 DEF Spends, Finished
  <2>2. CASE c \in press[p].taken
    <3>1. lock[c] # Nobody /\ entered[c] = 0
      BY <1>4, <2>2, Own DEF Spends, HoldsLock
    <3> QED BY <2>1, <2>2, <3>1
  <2>3. CASE c \notin press[p].taken
    BY <1>0, <2>1, <2>3
  <2> QED BY <2>2, <2>3
<1> QED BY <1>1, <1>2, <1>3, <1>4 DEF Effect

\* The lock that a process is about to remove: it has no live owner, and no step gives it one.
LEMMA StaleStays ==
  ASSUME ContTypeOK, PressInv, LifeInv, HeldInv, NEW p \in Presses, Kept(p), Effect(p),
         NEW g \in Gateways, scan[g].at = "unlink"
  PROVE  LET c == scan[g].card IN lock'[c] = lock[c] /\ ~continued'[c]
<1> DEFINE c == scan[g].card
<1>1. c \in Cards /\ lock[c] # Nobody /\ ~continued[c] /\ ~HoldsLock(p, c)
  <2>1. c \in Cards
    BY DEF LifeInv
  <2> QED BY <2>1, Own DEF HeldInv
<1>2. CASE Keeps(p)
  BY <1>1, <1>2 DEF Keeps
<1>3. ASSUME NEW d \in Cards, Wins(p, d)
      PROVE  lock'[c] = lock[c] /\ ~continued'[c]
  BY <1>1, <1>3 DEF Wins, ContTypeOK
<1>4. CASE Gives(p) \/ Spends(p)
  <2>1. c \notin press[p].taken
    BY <1>1, <1>4 DEF Gives, Spends, HoldsLock
  <2> QED BY <1>1, <1>4, <2>1 DEF Gives, Spends, Unlinked, Finished
<1> QED BY <1>2, <1>3, <1>4 DEF Effect

LEMMA RequestHeld ==
  ASSUME ContTypeOK, PressInv, LifeInv, HeldInv, NEW p \in Presses, Kept(p), Effect(p)
  PROVE  HeldInv'
<1>1. \A q \in Presses, c \in Cards : HoldsLock(q, c)' => lock'[c] = Self(press[q].by)' /\ ~continued'[c]
  BY OthersHold, StillOwn
<1>2. \A q, r \in Presses, c \in Cards : HoldsLock(q, c)' /\ HoldsLock(r, c)' => q = r
  <2> SUFFICES ASSUME NEW q \in Presses, NEW r \in Presses, NEW c \in Cards, HoldsLock(q, c)', HoldsLock(r, c)', q # r
               PROVE  FALSE
    OBVIOUS
  <2>1. CASE q = p \/ r = p
    BY <2>1, OthersHold
  <2>2. CASE q # p /\ r # p
    BY <2>2, OthersHold, Own
  <2> QED BY <2>1, <2>2
<1>3. \A g \in Gateways : scan'[g].at = "unlink" =>
        lock'[scan'[g].card] # Nobody /\ OwnerGone(lock[scan[g].card])' /\ ~continued'[scan'[g].card]
  <2>1. UNCHANGED <<scan, life, gateway>>
    BY DEF Kept
  <2> QED BY <2>1, StaleStays DEF HeldInv, OwnerGone
<1>4. \A c \in Cards : IF continued'[c] THEN lock'[c] # Nobody /\ entered'[c] <= 1 ELSE entered'[c] = 0
  BY CardsKept
<1> QED BY <1>1, <1>2, <1>3, <1>4 DEF HeldInv

----------------------------------------------------------------------------
(* Processes that die and start. *)

ScanType == [todo : SUBSET Cards, at : {"look", "unlink"}, card : Cards \cup {Nobody}]

LEMMA ProcessType ==
  ASSUME LockInv, NEW g \in Gateways, Die(g) \/ Boot(g) \/ ScanStep(g)
  PROVE  ContTypeOK'
<1> USE DEF LockInv
<1>1. Resting \in ScanType /\ ScanType = [todo : SUBSET Cards, at : {"look", "unlink"}, card : Cards \cup {Nobody}]
  BY DEF Resting, ScanType
<1>2. CASE Die(g)
  <2>1. /\ UNCHANGED <<answer, continued, lock, life, entered, apart>>
        /\ scan' = [scan EXCEPT ![g] = Resting] /\ gateway' = [gateway EXCEPT ![g] = "down"]
        /\ press' = [p \in Presses |-> IF press[p].by = g THEN [press[p] EXCEPT !.at = "done", !.taken = {}] ELSE press[p]]
    BY <1>2 DEF Die
  <2>2. deaths' \in 0 .. MaxDeaths
    <3>1. deaths \in 0 .. MaxDeaths /\ deaths < MaxDeaths /\ deaths' = deaths + 1
      BY <1>2 DEF Die, ContTypeOK
    <3> QED BY <3>1
  <2>3. ASSUME NEW p \in Presses
        PROVE  [press[p] EXCEPT !.at = "done", !.taken = {}] \in Press
    <3>1. press[p] \in Press /\ "done" \in Steps /\ {} \in SUBSET Cards
      BY DEF ContTypeOK, Steps
    <3>2. Is([press[p] EXCEPT !.at = "done", !.taken = {}], "done", press[p].by, press[p].todo, {}, press[p].look)
      BY <3>1, Changed
    <3> QED BY <3>2 DEF Is
  <2>4. press' \in [Presses -> Press]
    BY <2>1, <2>3 DEF ContTypeOK
  <2>5. scan' \in [Gateways -> ScanType] /\ gateway' \in [Gateways -> {"up", "down", "starting"}]
    BY <1>1, <2>1 DEF ContTypeOK
  <2> QED BY <1>1, <2>1, <2>2, <2>4, <2>5 DEF ContTypeOK
<1>3. CASE Boot(g)
  <2> DEFINE new == [Resting EXCEPT !.todo = {c \in Cards : lock[c] # Nobody}]
  <2>1. /\ UNCHANGED <<answer, continued, lock, press, entered, deaths>> /\ apart' \in BOOLEAN
        /\ scan' = [scan EXCEPT ![g] = new] /\ gateway' = [gateway EXCEPT ![g] = "starting"]
        /\ life' = [life EXCEPT ![g] = life[g] + 1]
    BY <1>3 DEF Boot, ContTypeOK
  <2>2. new \in ScanType
    BY DEF Resting, ScanType
  <2>3. scan' \in [Gateways -> ScanType]
    BY <1>1, <2>1, <2>2 DEF ContTypeOK
  <2>4. gateway' \in [Gateways -> {"up", "down", "starting"}] /\ life' \in [Gateways -> Nat]
    BY <2>1 DEF ContTypeOK
  <2> QED BY <1>1, <2>1, <2>3, <2>4 DEF ContTypeOK
<1>4. CASE LookAtLock(g)
  <2>1. PICK c \in scan[g].todo : scan' = [scan EXCEPT ![g] =
       IF continued[c] \/ lock[c] = Nobody \/ ~OwnerGone(lock[c]) THEN [scan[g] EXCEPT !.todo = scan[g].todo \ {c}]
       ELSE [todo |-> scan[g].todo \ {c}, at |-> "unlink", card |-> c]]
    BY <1>4 DEF LookAtLock
  <2>2. scan[g] \in ScanType
    BY <1>1 DEF ContTypeOK
  <2>3. /\ [scan[g] EXCEPT !.todo = scan[g].todo \ {c}] \in ScanType
        /\ [todo |-> scan[g].todo \ {c}, at |-> "unlink", card |-> c] \in ScanType
    BY <2>2 DEF ScanType
  <2>4. PICK new \in ScanType : scan' = [scan EXCEPT ![g] = new]
    BY <2>1, <2>3
  <2>5. scan' \in [Gateways -> ScanType]
    BY <1>1, <2>4 DEF ContTypeOK
  <2> QED BY <1>1, <1>4, <2>5 DEF LookAtLock, ContTypeOK
<1>5. CASE UnlinkStale(g)
  <2>1. scan' = [scan EXCEPT ![g].at = "look", ![g].card = Nobody]
    BY <1>5 DEF UnlinkStale
  <2>2. scan[g] \in ScanType
    BY <1>1 DEF ContTypeOK
  <2>3. [scan[g] EXCEPT !.at = "look", !.card = Nobody] \in ScanType
    BY <2>2 DEF ScanType
  <2>4. scan' \in [Gateways -> ScanType]
    BY <1>1, <2>1, <2>3 DEF ContTypeOK
  <2>5. lock' \in [Cards -> {Nobody} \cup Gateways \X Nat]
    BY <1>5 DEF UnlinkStale, Unlinked, ContTypeOK
  <2> QED BY <1>1, <1>5, <2>4, <2>5 DEF UnlinkStale, ContTypeOK
<1>6. CASE Recovered(g)
  BY <1>6 DEF Recovered, ContTypeOK
<1> QED BY <1>2, <1>3, <1>4, <1>5, <1>6 DEF ScanStep

\* A dead process's requests hold nothing; nobody's holds more.
LEMMA DieHolds ==
  ASSUME ContTypeOK, NEW g \in Gateways, Die(g), NEW p \in Presses
  PROVE  /\ Active(p)' => Active(p) /\ press'[p] = press[p] /\ press[p].by # g
         /\ \A c \in Cards : HoldsLock(p, c)' => HoldsLock(p, c) /\ press'[p] = press[p] /\ press[p].by # g
<1>1. CASE press[p].by = g
  <2>1. press'[p] = [press[p] EXCEPT !.at = "done", !.taken = {}] /\ press[p] \in Press /\ "done" \in Steps
    BY <1>1 DEF Die, ContTypeOK, Steps
  <2>2. Is([press[p] EXCEPT !.at = "done", !.taken = {}], "done", press[p].by, press[p].todo, {}, press[p].look)
    BY <2>1, Changed
  <2>3. press'[p].at = "done"
    BY <2>1, <2>2 DEF Is
  <2> QED BY <2>3 DEF Active, HoldsLock
<1>2. CASE press[p].by # g
  BY <1>2 DEF Die, Active, HoldsLock
<1> QED BY <1>1, <1>2

LEMMA DieKeeps ==
  ASSUME LockInv, NEW g \in Gateways, Die(g)
  PROVE  PressInv' /\ LifeInv' /\ (apart' => HeldInv')
<1> USE DEF LockInv
<1>1. /\ UNCHANGED <<continued, lock, life, entered, apart>> /\ gateway' = [gateway EXCEPT ![g] = "down"]
      /\ scan' = [scan EXCEPT ![g] = Resting] /\ deaths' = deaths + 1 /\ deaths \in 0 .. MaxDeaths
  BY DEF Die, ContTypeOK
<1>2. \A h \in Gateways : scan'[h].at = "unlink" => h # g /\ scan'[h] = scan[h] /\ gateway'[h] = gateway[h]
  BY <1>1 DEF Resting, ContTypeOK
<1>3. PressInv'
  <2> SUFFICES ASSUME NEW p \in Presses
               PROVE  (/\ Active(p) => press[p].by \in Gateways /\ gateway[press[p].by] = "up"
                       /\ press[p].at \in {"group", "press"} => press[p].taken = {}
                       /\ press[p].at \in {"link", "press"} => press[p].look \in Cards)'
    BY DEF PressInv
  <2>1. CASE Active(p)'
    <3>1. Active(p) /\ press'[p] = press[p] /\ press[p].by # g
      BY <2>1, DieHolds
    <3> QED BY <1>1, <3>1 DEF PressInv, ContTypeOK
  <2>2. CASE ~Active(p)'
    BY <2>2 DEF Active
  <2> QED BY <2>1, <2>2
<1>4. LifeInv'
  <2>1. \A c \in Cards : lock'[c] # Nobody => lock'[c][2] <= life'[lock'[c][1]]
    BY <1>1 DEF LifeInv
  <2>2. \A h \in Gateways : scan'[h].at = "unlink" => gateway'[h] = "starting" /\ scan'[h].card \in Cards
    BY <1>2 DEF LifeInv
  <2>3. deaths' # 0
    BY <1>1
  <2>4. apart' => \A h, k \in Gateways : gateway'[h] = "starting" /\ gateway'[k] = "starting" => h = k
    BY <1>1 DEF LifeInv, ContTypeOK
  <2> QED BY <2>1, <2>2, <2>3, <2>4 DEF LifeInv
<1>5. ASSUME apart'
      PROVE  HeldInv'
  <2>0. HeldInv
    BY <1>1, <1>5
  <2>1. \A p \in Presses, c \in Cards : HoldsLock(p, c)' => lock'[c] = Self(press[p].by)' /\ ~continued'[c]
    BY <1>1, <2>0, DieHolds DEF HeldInv, Self
  <2>2. \A p, q \in Presses, c \in Cards : HoldsLock(p, c)' /\ HoldsLock(q, c)' => p = q
    BY <2>0, DieHolds DEF HeldInv
  <2>3. \A h \in Gateways : scan'[h].at = "unlink" =>
          lock'[scan'[h].card] # Nobody /\ OwnerGone(lock[scan[h].card])' /\ ~continued'[scan'[h].card]
    <3> SUFFICES ASSUME NEW h \in Gateways, scan'[h].at = "unlink"
                 PROVE  lock'[scan'[h].card] # Nobody /\ OwnerGone(lock[scan[h].card])' /\ ~continued'[scan'[h].card]
      OBVIOUS
    <3>1. scan[h].at = "unlink" /\ scan'[h] = scan[h] /\ scan[h].card \in Cards
      BY <1>2 DEF LifeInv
    <3>2. lock[scan[h].card] \in Gateways \X Nat /\ OwnerGone(lock[scan[h].card]) /\ ~continued[scan[h].card]
          /\ lock[scan[h].card] # Nobody
      BY <2>0, <3>1 DEF HeldInv, ContTypeOK
    <3> QED BY <1>1, <3>1, <3>2 DEF OwnerGone, ContTypeOK
  <2>4. \A c \in Cards : IF continued'[c] THEN lock'[c] # Nobody /\ entered'[c] <= 1 ELSE entered'[c] = 0
    BY <1>1, <2>0 DEF HeldInv
  <2> QED BY <2>1, <2>2, <2>3, <2>4 DEF HeldInv
<1> QED BY <1>3, <1>4, <1>5

LEMMA BootKeeps ==
  ASSUME LockInv, NEW g \in Gateways, Boot(g)
  PROVE  PressInv' /\ LifeInv' /\ (apart' => HeldInv')
<1> USE DEF LockInv
<1>1. /\ UNCHANGED <<continued, lock, press, entered, deaths>> /\ gateway' = [gateway EXCEPT ![g] = "starting"]
      /\ life' = [life EXCEPT ![g] = life[g] + 1] /\ gateway[g] = "down"
      /\ apart' = (apart /\ \A h \in Gateways : gateway[h] # "starting")
  BY DEF Boot
<1>2. /\ scan'[g].at = "look"
      /\ \A h \in Gateways \ {g} : scan'[h] = scan[h] /\ gateway'[h] = gateway[h] /\ life'[h] = life[h]
  BY <1>1 DEF Boot, Resting, ContTypeOK
<1>3. PressInv'
  BY <1>1 DEF PressInv, Active, ContTypeOK
<1>4. gateway'[g] = "starting" /\ life[g] \in Nat /\ life'[g] = life[g] + 1
  BY <1>1 DEF ContTypeOK
<1>5. LifeInv'
  <2>1. \A c \in Cards : lock'[c] # Nobody => lock'[c][2] <= life'[lock'[c][1]]
    <3> SUFFICES ASSUME NEW c \in Cards, lock[c] # Nobody
                 PROVE  lock[c][2] <= life'[lock[c][1]]
      BY <1>1
    <3>1. lock[c][1] \in Gateways /\ lock[c][2] \in Nat /\ lock[c][2] <= life[lock[c][1]] /\ life[lock[c][1]] \in Nat
      BY DEF ContTypeOK, LifeInv
    <3>2. CASE lock[c][1] = g
      BY <1>4, <3>1, <3>2
    <3>3. CASE lock[c][1] # g
      BY <1>2, <3>1, <3>3
    <3> QED BY <3>2, <3>3
  <2>2. \A h \in Gateways : scan'[h].at = "unlink" => gateway'[h] = "starting" /\ scan'[h].card \in Cards
    BY <1>2 DEF LifeInv
  <2>3. deaths' # 0
    BY <1>1 DEF LifeInv
  <2>4. apart' => \A h, k \in Gateways : gateway'[h] = "starting" /\ gateway'[k] = "starting" => h = k
    BY <1>1, <1>2
  <2> QED BY <2>1, <2>2, <2>3, <2>4 DEF LifeInv
<1>6. ASSUME apart'
      PROVE  HeldInv'
  <2>0. HeldInv /\ \A h \in Gateways : scan'[h].at # "unlink"
    BY <1>1, <1>2, <1>6 DEF LifeInv
  <2>1. \A p \in Presses, c \in Cards : HoldsLock(p, c)' => lock'[c] = Self(press[p].by)' /\ ~continued'[c]
    <3> SUFFICES ASSUME NEW p \in Presses, NEW c \in Cards, HoldsLock(p, c)
                 PROVE  lock'[c] = Self(press[p].by)' /\ ~continued'[c]
      BY <1>1 DEF HoldsLock, Active
    <3>1. press[p].by \in Gateways \ {g}
      BY <1>1 DEF PressInv, HoldsLock
    <3> QED BY <1>1, <1>2, <2>0, <3>1 DEF HeldInv, Self
  <2>2. \A p, q \in Presses, c \in Cards : HoldsLock(p, c)' /\ HoldsLock(q, c)' => p = q
    BY <1>1, <2>0 DEF HeldInv, HoldsLock, Active
  <2>3. \A c \in Cards : IF continued'[c] THEN lock'[c] # Nobody /\ entered'[c] <= 1 ELSE entered'[c] = 0
    BY <1>1, <2>0 DEF HeldInv
  <2> QED BY <2>0, <2>1, <2>2, <2>3 DEF HeldInv
<1> QED BY <1>3, <1>5, <1>6

LEMMA LookKeeps ==
  ASSUME LockInv, NEW g \in Gateways, LookAtLock(g)
  PROVE  PressInv' /\ LifeInv' /\ (apart' => HeldInv')
<1> USE DEF LockInv
<1>1. /\ UNCHANGED <<continued, lock, press, gateway, life, entered, deaths, apart>>
      /\ gateway[g] = "starting" /\ scan[g] \in ScanType
  BY DEF LookAtLock, ContTypeOK, ScanType
<1>2. \A h \in Gateways \ {g} : scan'[h] = scan[h]
  BY DEF LookAtLock, ContTypeOK
<1>3. scan'[g].at = "unlink" => LET c == scan'[g].card
                                IN  c \in Cards /\ ~continued[c] /\ lock[c] # Nobody /\ OwnerGone(lock[c])
  <2>1. PICK c \in scan[g].todo : scan[g].at = "look" /\ scan' = [scan EXCEPT ![g] =
       IF continued[c] \/ lock[c] = Nobody \/ ~OwnerGone(lock[c]) THEN [scan[g] EXCEPT !.todo = scan[g].todo \ {c}]
       ELSE [todo |-> scan[g].todo \ {c}, at |-> "unlink", card |-> c]]
    BY DEF LookAtLock
  <2>2. c \in Cards /\ [scan[g] EXCEPT !.todo = scan[g].todo \ {c}].at = "look"
    BY <1>1, <2>1 DEF ScanType
  <2>3. CASE continued[c] \/ lock[c] = Nobody \/ ~OwnerGone(lock[c])
    <3>1. scan'[g] = [scan[g] EXCEPT !.todo = scan[g].todo \ {c}]
      BY <2>1, <2>3 DEF ContTypeOK
    <3> QED BY <2>2, <3>1
  <2>4. CASE ~(continued[c] \/ lock[c] = Nobody \/ ~OwnerGone(lock[c]))
    <3>1. scan'[g] = [todo |-> scan[g].todo \ {c}, at |-> "unlink", card |-> c]
      BY <2>1, <2>4 DEF ContTypeOK
    <3> QED BY <2>2, <2>4, <3>1
  <2> QED BY <2>3, <2>4
<1>4. PressInv'
  BY <1>1 DEF PressInv, Active
<1>5. LifeInv'
  BY <1>1, <1>2, <1>3 DEF LifeInv
<1>6. ASSUME apart'
      PROVE  HeldInv'
  <2>1. HeldInv
    BY <1>1, <1>6
  <2>2. \A h \in Gateways : scan'[h].at = "unlink" =>
          lock'[scan'[h].card] # Nobody /\ OwnerGone(lock[scan[h].card])' /\ ~continued'[scan'[h].card]
    BY <1>1, <1>2, <1>3, <2>1 DEF HeldInv, OwnerGone
  <2> QED BY <1>1, <2>1, <2>2 DEF HeldInv, HoldsLock, Active, Self
<1> QED BY <1>4, <1>5, <1>6

\* Its owner gone, nobody who lives holds the lock that is removed, and nobody else removes one.
LEMMA UnlinkKeeps ==
  ASSUME LockInv, NEW g \in Gateways, UnlinkStale(g)
  PROVE  PressInv' /\ LifeInv' /\ (apart' => HeldInv')
<1> USE DEF LockInv
<1> DEFINE d == scan[g].card
<1>1. /\ UNCHANGED <<continued, press, gateway, life, entered, deaths, apart>>
      /\ gateway[g] = "starting" /\ scan[g].at = "unlink" /\ d \in Cards
      /\ lock' = [c \in Cards |-> IF c = d THEN Nobody ELSE lock[c]]
  BY DEF UnlinkStale, Unlinked, LifeInv
<1>2. scan'[g].at = "look" /\ \A h \in Gateways \ {g} : scan'[h] = scan[h]
  <2>1. scan' = [scan EXCEPT ![g] = [scan[g] EXCEPT !.at = "look", !.card = Nobody]]
    BY DEF UnlinkStale, ContTypeOK
  <2>2. scan[g] \in ScanType
    BY DEF ContTypeOK, ScanType
  <2>3. [scan[g] EXCEPT !.at = "look", !.card = Nobody].at = "look"
    BY <2>2 DEF ScanType
  <2> QED BY <2>1, <2>3 DEF ContTypeOK
<1>3. PressInv'
  BY <1>1 DEF PressInv, Active
<1>4. LifeInv'
  BY <1>1, <1>2 DEF LifeInv
<1>5. ASSUME apart'
      PROVE  HeldInv'
  <2>1. HeldInv /\ \A h \in Gateways : scan'[h].at # "unlink"
    BY <1>1, <1>2, <1>5 DEF LifeInv
  <2>2. lock[d] # Nobody /\ OwnerGone(lock[d]) /\ ~continued[d]
    BY <1>1, <2>1 DEF HeldInv
  <2>3. \A p \in Presses : ~HoldsLock(p, d)
    BY <1>1, <2>1, <2>2, Own
  <2>4. \A c \in Cards : IF continued'[c] THEN lock'[c] # Nobody /\ entered'[c] <= 1 ELSE entered'[c] = 0
    BY <1>1, <2>1, <2>2 DEF HeldInv
  <2>5. \A p \in Presses, c \in Cards : HoldsLock(p, c)' => lock'[c] = Self(press[p].by)' /\ ~continued'[c]
    BY <1>1, <2>1, <2>3 DEF HeldInv, HoldsLock, Active, Self
  <2>6. \A p, q \in Presses, c \in Cards : HoldsLock(p, c)' /\ HoldsLock(q, c)' => p = q
    BY <1>1, <2>1 DEF HeldInv, HoldsLock, Active
  <2> QED BY <2>1, <2>4, <2>5, <2>6 DEF HeldInv
<1> QED BY <1>3, <1>4, <1>5

LEMMA RecoveredKeeps ==
  ASSUME LockInv, NEW g \in Gateways, Recovered(g)
  PROVE  PressInv' /\ LifeInv' /\ (apart' => HeldInv')
<1> USE DEF LockInv
<1>1. /\ UNCHANGED <<continued, lock, press, scan, life, entered, deaths, apart>>
      /\ gateway' = [gateway EXCEPT ![g] = "up"] /\ gateway[g] = "starting" /\ scan[g].at = "look"
  BY DEF Recovered
<1>2. gateway'[g] = "up" /\ \A h \in Gateways \ {g} : gateway'[h] = gateway[h]
  BY <1>1 DEF ContTypeOK
<1>3. PressInv'
  BY <1>1, <1>2 DEF PressInv, Active
<1>4. LifeInv'
  BY <1>1, <1>2 DEF LifeInv
<1>5. ASSUME apart'
      PROVE  HeldInv'
  <2>1. HeldInv /\ \A h \in Gateways : scan'[h].at # "unlink"
    BY <1>1, <1>5 DEF LifeInv
  <2>2. \A p \in Presses, c \in Cards : HoldsLock(p, c)' <=> HoldsLock(p, c)
    BY <1>1 DEF HoldsLock, Active
  <2> QED BY <1>1, <2>1, <2>2 DEF HeldInv, Self
<1> QED BY <1>3, <1>4, <1>5

----------------------------------------------------------------------------
(* The theorems. *)

LEMMA LockStart == ContInit => LockInv
<1> SUFFICES ASSUME ContInit
             PROVE  LockInv
  OBVIOUS
<1>1. ContTypeOK
  <2>1. Idle \in Press /\ Resting \in ScanType
    BY DEF Idle, Asks, Press, Resting, ScanType
  <2>2. deaths \in 0 .. MaxDeaths /\ apart \in BOOLEAN
    BY DEF ContInit
  <2>3. /\ answer \in [Cards -> {"open", "executed", "declined", "expired"}] /\ continued \in [Cards -> BOOLEAN]
        /\ lock \in [Cards -> {Nobody} \cup Gateways \X Nat] /\ life \in [Gateways -> Nat]
        /\ gateway \in [Gateways -> {"up", "down", "starting"}] /\ entered \in [Cards -> Nat]
    BY DEF ContInit
  <2>4. press \in [Presses -> Press] /\ scan \in [Gateways -> ScanType]
    BY <2>1 DEF ContInit
  <2> QED BY <2>2, <2>3, <2>4 DEF ContTypeOK, ScanType
<1>2. \A p \in Presses : ~Active(p)
  BY DEF ContInit, Active, Idle, Asks
<1>3. PressInv
  BY <1>2 DEF PressInv, Active
<1>4. \A g \in Gateways : scan[g].at = "look" /\ gateway[g] = "up"
  BY DEF ContInit, Resting
<1>5. LifeInv
  BY <1>4 DEF LifeInv, ContInit
<1>6. HeldInv
  BY <1>2, <1>4 DEF HeldInv, HoldsLock, ContInit
<1> QED BY <1>1, <1>3, <1>5, <1>6 DEF LockInv

LEMMA LockStep == LockInv /\ [ContNext]_contVars => LockInv'
<1> SUFFICES ASSUME LockInv, [ContNext]_contVars
             PROVE  LockInv'
  OBVIOUS
<1>1. ContTypeOK /\ PressInv /\ LifeInv /\ (apart => HeldInv)
  BY DEF LockInv
<1>2. ASSUME NEW p \in Presses, RequestStep(p), ContNext
      PROVE  LockInv'
  <2>1. Kept(p) /\ Effect(p)
    BY <1>1, <1>2, Effects
  <2>2. ContTypeOK'
    BY <1>1, <1>2, <2>1, AnswerType, RequestType
  <2>3. PressInv' /\ LifeInv'
    BY <1>1, <2>1, RequestPress, RequestLife
  <2>4. apart' => HeldInv'
    BY <1>1, <2>1, RequestHeld DEF Kept
  <2> QED BY <2>2, <2>3, <2>4 DEF LockInv
<1>3. CASE ExpireCard /\ UNCHANGED <<deaths, apart>> /\ ContNext
  <2>1. UNCHANGED <<continued, lock, life, gateway, scan, press, entered, deaths, apart>>
    BY <1>3 DEF ExpireCard
  <2>2. ContTypeOK'
    BY <1>1, <1>3, <2>1, AnswerType DEF ContTypeOK
  <2> QED BY <1>1, <2>1, <2>2 DEF LockInv, PressInv, LifeInv, HeldInv, HoldsLock, Active, Self, OwnerGone
<1>4. ASSUME NEW g \in Gateways, Die(g) \/ Boot(g) \/ ScanStep(g)
      PROVE  LockInv'
  <2>1. ContTypeOK'
    BY <1>4, ProcessType
  <2>2. PressInv' /\ LifeInv' /\ (apart' => HeldInv')
    BY <1>4, DieKeeps, BootKeeps, LookKeeps, UnlinkKeeps, RecoveredKeeps DEF ScanStep
  <2> QED BY <2>1, <2>2 DEF LockInv
<1>5. CASE UNCHANGED contVars
  BY <1>1, <1>5 DEF contVars, LockInv, ContTypeOK, PressInv, LifeInv, HeldInv, HoldsLock, Active, Self, OwnerGone
<1> QED BY <1>2, <1>3, <1>4, <1>5 DEF ContNext, RequestStep

\* A card's lock is its holder's, over every death and start of a process.
LEMMA LockInvariance == ContSpec => []LockInv
BY LockStart, LockStep, PTL DEF ContSpec

\* No confirmed action is continued by two runs at once (OneAtATime), however many processes
\* share the folder and die, as long as no two of them start at once.
THEOREM NeverTwice == ContSpec => []OneAtATime
<1>1. LockInv => OneAtATime
  <2> SUFFICES ASSUME LockInv, apart, NEW p \in Presses, NEW q \in Presses, p # q, Runs(p), Runs(q),
                      NEW c \in press[p].taken \cap press[q].taken
               PROVE  FALSE
    BY DEF OneAtATime
  <2>1. HoldsLock(p, c) /\ HoldsLock(q, c)
    BY DEF HoldsLock, Active, Runs
  <2>2. c \in Cards
    BY DEF LockInv, ContTypeOK, Press
  <2> QED BY <2>1, <2>2 DEF LockInv, HeldInv
<1> QED BY <1>1, LockInvariance, PTL

\* What was continued well is not continued again (SpentOnce): its lock stays.
THEOREM NeverAgain == ContSpec => []SpentOnce
<1>1. LockInv => SpentOnce
  BY DEF LockInv, HeldInv, SpentOnce
<1> QED BY <1>1, LockInvariance, PTL

----------------------------------------------------------------------------
(* The whole of a turn. *)

\* What has an outcome keeps it, and what was reported stays so.
LEMMA AnswersStay ==
  ASSUME ContTypeOK, ContNext
  PROVE  \A c \in Cards : answer[c] # "open" => answer'[c] = answer[c]
BY AnswerSteps DEF ContTypeOK

Stay == \A c \in Cards : answer[c] # "open" => answer'[c] = answer[c]

\* What is true of a request's part in its turn stays so while others act.
LEMMA LeadStays ==
  ASSUME ContTypeOK, Stay, NEW q \in Presses, LeadOf(q), press'[q] = press[q]
  PROVE  LeadOf(q)'
<1>1. press[q] \in Press
  BY DEF ContTypeOK
<1>2. \A c \in Outbound : answer[c] \notin {"open", "expired"} => answer'[c] \notin {"open", "expired"}
  BY DEF Stay, Cards
<1>3. /\ InLoop(q)' <=> InLoop(q)
      /\ Past(q)' <=> Past(q)
      /\ \A c \in Cards : HoldsLock(q, c)' <=> HoldsLock(q, c)
  BY DEF InLoop, Past, HoldsLock, Active
<1> QED BY <1>1, <1>2, <1>3 DEF LeadOf, Cards

\* LeadOf, of a request that has become so.
Leads(at, by, todo, taken, look) ==
  /\ at = "idle" => by = Nobody
  /\ at \in {"take", "link"} => todo \subseteq Outbound /\ (at = "link" => look \in Outbound)
  /\ at \in {"take", "link", "ask", "start", "running"} => taken \subseteq Outbound
  /\ at \in {"taken", "admitted", "inside"} => taken \subseteq Delegated
  /\ at = "press" => look \in Delegated
  /\ \A c \in Outbound : at \notin {"idle", "done"} /\ c \in taken => answer[c] \notin {"open", "expired"}
  /\ at \in {"take", "link"} => \A c \in Outbound :
       c \in todo \/ (at = "link" /\ c = look) => answer[c] \notin {"open", "expired"}

LEMMA LeadsTo ==
  ASSUME ContTypeOK, Stay, NEW p \in Presses, NEW at, NEW by, NEW todo, NEW taken, NEW look,
         Became(p, at, by, todo, taken, look), Leads(at, by, todo, taken, look)
  PROVE  LeadOf(p)'
<1>1. \A c \in Outbound : answer[c] \notin {"open", "expired"} => answer'[c] \notin {"open", "expired"}
  BY DEF Stay, Cards
<1>2. /\ press'[p].at = at /\ press'[p].by = by /\ press'[p].todo = todo
      /\ press'[p].taken = taken /\ press'[p].look = look
  BY DEF Became
<1> QED BY <1>1, <1>2 DEF LeadOf, Leads, InLoop, Past, HoldsLock, Active

LEMMA LeadIs ==
  ASSUME NEW p \in Presses, LeadOf(p)
  PROVE  Leads(press[p].at, press[p].by, press[p].todo, press[p].taken, press[p].look)
BY DEF LeadOf, Leads, InLoop, Past, HoldsLock, Active, Cards

LEMMA LeadMoves ==
  ASSUME ContTypeOK, PressInv, Stay, NEW p \in Presses, LeadOf(p), RequestStep(p)
  PROVE  LeadOf(p)'
<1> DEFINE r == press[p]
<1>1. Leads(r.at, r.by, r.todo, r.taken, r.look)
  BY LeadIs
<1>2. CASE (AnswerCard(p) \/ PressContinue(p)) /\ UNCHANGED <<deaths, apart>>
  <2>1. PICK g \in Gateways, at \in {"group", "press"}, look \in Cards \cup {Nobody} :
          Became(p, at, g, {}, {}, look) /\ (at = "press" => look \in Delegated)
    BY <1>2, Begun
  <2>2. Leads(at, g, {}, {}, look)
    BY <2>1 DEF Leads
  <2> QED BY <2>1, <2>2, LeadsTo
<1>3. ASSUME NEW todo, NEW taken, NEW look, Goes(p, "done", todo, taken, look)
      PROVE  LeadOf(p)'
  <2>1. Leads("done", press[p].by, todo, taken, look)
    BY DEF Leads
  <2> QED BY <1>3, <2>1, LeadsTo DEF Goes
<1>4. CASE LookAtGroup(p)
  <2>1. r.at = "group" /\ r.taken = {}
    BY <1>4 DEF LookAtGroup, PressInv
  <2>2. Leads("take", r.by, Candidates, r.taken, r.look)
    BY <2>1 DEF Leads, Candidates
  <2> QED BY <1>3, <1>4, <2>2, LookGoes, LeadsTo DEF Goes
<1>5. CASE TakeOne(p)
  <2>1. PICK c \in r.todo : r.at = "take" /\ (\/ Goes(p, "take", r.todo \ {c}, r.taken, r.look)
                                              \/ Goes(p, "link", r.todo, r.taken, c))
    BY <1>5, TakeGoes
  <2>2. Leads("take", r.by, r.todo \ {c}, r.taken, r.look) /\ Leads("link", r.by, r.todo, r.taken, c)
    BY <1>1, <2>1 DEF Leads
  <2> QED BY <2>1, <2>2, LeadsTo DEF Goes
<1>6. CASE LinkOne(p)
  <2>1. PICK c \in Cards : c = r.look /\ r.at = "link" /\ (\/ Goes(p, "take", r.todo \ {c}, r.taken \cup {c}, Nobody)
                                                           \/ Goes(p, "take", r.todo \ {c}, r.taken, Nobody))
    BY <1>6, LinkGoes
  <2>2. Leads("take", r.by, r.todo \ {c}, r.taken \cup {c}, Nobody) /\ Leads("take", r.by, r.todo \ {c}, r.taken, Nobody)
    BY <1>1, <2>1 DEF Leads
  <2> QED BY <2>1, <2>2, LeadsTo DEF Goes
<1>7. CASE TakeForAgent(p)
  <2>1. PICK c \in Cards : c = r.look /\ r.at = "press" /\ (\/ Goes(p, "taken", r.todo, {c}, c)
                                                            \/ Goes(p, "done", r.todo, r.taken, c))
    BY <1>7, AgentGoes
  <2>2. Leads("taken", r.by, r.todo, {c}, c)
    BY <1>1, <2>1 DEF Leads, Cards
  <2> QED BY <1>3, <2>1, <2>2, LeadsTo DEF Goes
<1>8. ASSUME NEW from, NEW at, r.at = from, Goes(p, at, r.todo, r.taken, r.look),
             \/ from = "take" /\ at = "ask"
             \/ from \in {"ask", "start"} /\ at \in {"start", "running"}
             \/ from \in {"taken", "admitted"} /\ at \in {"admitted", "inside"}
      PROVE  LeadOf(p)'
  <2>1. Leads(at, r.by, r.todo, r.taken, r.look)
    BY <1>1, <1>8 DEF Leads
  <2> QED BY <1>8, <2>1, LeadsTo DEF Goes
<1>9. CASE Weigh(p)
  BY <1>3, <1>8, <1>9, WeighGoes
<1>10. CASE ChatFree(p) \/ StartResume(p) \/ AdmitAgent(p) \/ EnterAgent(p)
  BY <1>8, <1>10, PlainGoes
<1>11. CASE GiveBack(p) \/ RefuseAgent(p) \/ StopBeforeAgent(p) \/ ResumeEnds(p) \/ AgentEnds(p)
  BY <1>3, <1>11, PlainGoes
<1> QED BY <1>2, <1>4, <1>5, <1>6, <1>7, <1>9, <1>10, <1>11 DEF RequestStep, PressStep

LEMMA LeadStep ==
  ASSUME LockInv, LeadInv, [ContNext]_contVars
  PROVE  LeadInv'
<1>1. ContTypeOK /\ PressInv
  BY DEF LockInv
<1>2. Stay
  BY <1>1, AnswersStay DEF Stay, contVars
<1>3. SUFFICES ASSUME NEW q \in Presses
               PROVE  LeadOf(q)'
  BY DEF LeadInv
<1>4. LeadOf(q)
  BY DEF LeadInv
<1>5. ASSUME NEW p \in Presses, RequestStep(p)
      PROVE  LeadOf(q)'
  <2>1. CASE q = p
    BY <1>1, <1>2, <1>4, <1>5, <2>1, LeadMoves
  <2>2. CASE q # p
    BY <1>1, <1>2, <1>4, <1>5, <2>2, Effects, LeadStays DEF Kept
  <2> QED BY <2>1, <2>2
<1>6. ASSUME press'[q] = press[q]
      PROVE  LeadOf(q)'
  BY <1>1, <1>2, <1>4, <1>6, LeadStays
<1>7. ASSUME NEW g \in Gateways, Die(g)
      PROVE  LeadOf(q)'
  <2>1. CASE press[q].by = g
    <3>1. press'[q] = [press[q] EXCEPT !.at = "done", !.taken = {}] /\ press[q] \in Press /\ "done" \in Steps
      BY <1>1, <1>7, <2>1 DEF Die, ContTypeOK, Steps
    <3>2. Is([press[q] EXCEPT !.at = "done", !.taken = {}], "done", press[q].by, press[q].todo, {}, press[q].look)
      BY <3>1, Changed
    <3>3. press'[q].at = "done"
      BY <3>1, <3>2 DEF Is
    <3> QED BY <3>3 DEF LeadOf, InLoop, Past, HoldsLock, Active
  <2>2. CASE press[q].by # g
    BY <1>6, <1>7, <2>2 DEF Die
  <2> QED BY <2>1, <2>2
<1>8. ASSUME NEW g \in Gateways, Boot(g) \/ ScanStep(g)
      PROVE  LeadOf(q)'
  BY <1>6, <1>8 DEF Boot, ScanStep, LookAtLock, UnlinkStale, Recovered
<1>9. CASE ExpireCard \/ UNCHANGED contVars
  BY <1>6, <1>9 DEF ExpireCard, contVars
<1> QED BY <1>5, <1>7, <1>8, <1>9 DEF ContNext, RequestStep

\* A request's step that goes on the event loop: nobody else is in it.
LEMMA AloneInLoop ==
  ASSUME PressInv, OneGateway, NEW p \in Presses, PressStep(p), ~AgentEnds(p), NEW q \in Presses, InLoop(q)
  PROVE  q = p
<1>1. press[q].by = press[p].by
  <2>1. Active(p) /\ Active(q)
    BY DEF InLoop, Active, PressStep, LookAtGroup, TakeOne, LinkOne, Weigh, GiveBack, ChatFree, StartResume, ResumeEnds,
           TakeForAgent, RefuseAgent, AdmitAgent, StopBeforeAgent, EnterAgent
  <2> QED BY <2>1 DEF PressInv, OneGateway
<1>2. LoopFree(press[p].by, p)
  BY DEF PressStep, LookAtGroup, TakeOne, LinkOne, Weigh, GiveBack, ChatFree, StartResume, ResumeEnds,
         TakeForAgent, RefuseAgent, AdmitAgent, StopBeforeAgent, EnterAgent, Go
<1> QED BY <1>1, <1>2 DEF LoopFree

\* What was reported stays so, and an outbound card's holder keeps it, gives it back or spends it.
LEMMA ReportedStays ==
  ASSUME ContTypeOK, Stay, NEW p \in Presses, Effect(p)
  PROVE  \A c \in Outbound : Reported(c) => Reported(c)'
<1>1. \A c \in Cards : continued[c] => continued'[c]
  BY DEF Effect, Keeps, Wins, Gives, Spends, Finished
<1> QED BY <1>1 DEF Reported, Stay, Cards

LEMMA OutboundKept ==
  ASSUME ContTypeOK, PressInv, NEW p \in Presses, LeadOf(p), RequestStep(p), NEW c \in Outbound, HoldsLock(p, c)
  PROVE  HoldsLock(p, c)' \/ Gives(p) \/ Spends(p)
<1> DEFINE r == press[p]
<1>1. Leads(r.at, r.by, r.todo, r.taken, r.look) /\ r.at \notin {"idle", "done"} /\ c \in r.taken
  BY LeadIs DEF HoldsLock, Active
<1>2. ASSUME NEW at \in Steps \ {"idle", "done"}, NEW todo, NEW taken, NEW look,
             Goes(p, at, todo, taken, look), c \in taken
      PROVE  HoldsLock(p, c)'
  BY <1>2 DEF Goes, Became, HoldsLock, Active
<1> USE DEF Steps
<1>3. CASE AnswerCard(p) \/ PressContinue(p)
  BY <1>1, <1>3 DEF AnswerCard, PressContinue
<1>4. CASE LookAtGroup(p) \/ TakeForAgent(p)
  BY <1>1, <1>4 DEF LookAtGroup, TakeForAgent, PressInv
<1>5. CASE TakeOne(p)
  BY <1>1, <1>2, <1>5, TakeGoes
<1>9. CASE LinkOne(p)
  <2>1. PICK d \in Cards : \/ Goes(p, "take", r.todo \ {d}, r.taken \cup {d}, Nobody)
                           \/ Goes(p, "take", r.todo \ {d}, r.taken, Nobody)
    BY <1>9, LinkGoes
  <2> QED BY <1>1, <1>2, <2>1
<1>6. CASE ChatFree(p) \/ StartResume(p) \/ AdmitAgent(p) \/ EnterAgent(p)
  BY <1>1, <1>2, <1>6, PlainGoes
<1>7. CASE StopBeforeAgent(p)
  BY <1>1, <1>7 DEF StopBeforeAgent, Leads
<1>8. CASE Weigh(p) \/ GiveBack(p) \/ RefuseAgent(p) \/ ResumeEnds(p) \/ AgentEnds(p)
  <2>1. CASE press'[p].at = "done"
    <3>1. Active(p) /\ \A d \in Cards : ~HoldsLock(p, d)'
      BY <1>1, <2>1 DEF HoldsLock, Active
    <3>2. CASE Weigh(p)
      <4>1. ~Goes(p, "ask", r.todo, r.taken, r.look)
        BY <2>1 DEF Goes, Became
      <4>2. Unlinked(r.taken) /\ UNCHANGED <<continued, entered>>
        BY <3>2, <4>1, WeighGoes DEF Weigh
      <4> QED BY <3>1, <4>2 DEF Gives
    <3>3. CASE GiveBack(p) \/ RefuseAgent(p)
      BY <3>1, <3>3 DEF GiveBack, RefuseAgent, Gives
    <3>4. CASE ResumeEnds(p) \/ AgentEnds(p)
      <4>1. PICK ok \in BOOLEAN : Finished(r.taken, ok)
        BY <3>4 DEF ResumeEnds, AgentEnds
      <4>2. CASE ok
        BY <3>1, <4>1, <4>2 DEF Spends, Finished
      <4>3. CASE ~ok
        BY <3>1, <4>1, <4>3 DEF Gives, Finished
      <4> QED BY <4>2, <4>3
    <3> QED BY <1>8, <3>2, <3>3, <3>4
  <2>2. CASE Goes(p, "ask", r.todo, r.taken, r.look)
    BY <1>1, <1>2, <2>2
  <2> QED BY <1>8, <2>1, <2>2, WeighGoes, PlainGoes DEF Goes, Became
<1> QED BY <1>3, <1>4, <1>5, <1>6, <1>7, <1>8, <1>9 DEF RequestStep, PressStep

\* Whoever holds an outbound card's lock is on the lead's path.
LEMMA LeadHolds ==
  ASSUME ContTypeOK, PressInv, LeadInv, NEW q \in Presses, NEW c \in Outbound, HoldsLock(q, c)
  PROVE  (InLoop(q) \/ Past(q)) /\ c \in press[q].taken
<1>1. press[q] \in Press /\ LeadOf(q)
  BY DEF ContTypeOK, LeadInv
<1> QED BY <1>1 DEF HoldsLock, Active, LeadOf, InLoop, Past, PressInv, Press

\* The four parts of GroupInv, over a request's step in a gateway that no process leaves.
Together ==
  LockInv /\ HeldInv /\ LeadInv /\ OneGateway /\ GroupInv /\ Stay /\ LeadInv'

LEMMA HeldOrReported ==
  ASSUME Together, NEW p \in Presses, RequestStep(p), NEW c \in Outbound, lock'[c] # Nobody
  PROVE  continued'[c] \/ \E q \in Presses : HoldsLock(q, c)'
<1> USE DEF Together, LockInv
<1>1. Kept(p) /\ Effect(p) /\ c \in Cards
  BY Effects DEF Cards
<1>2. CASE \E d \in Cards : Wins(p, d) /\ d = c
  BY <1>2 DEF Wins
<1>3. CASE lock[c] # Nobody
  <2>1. CASE continued[c]
    BY <1>1, <2>1 DEF Effect, Keeps, Wins, Gives, Spends, Finished
  <2>2. ASSUME NEW q \in Presses, HoldsLock(q, c), q # p
        PROVE  HoldsLock(q, c)'
    BY <1>1, <2>2 DEF Kept, HoldsLock, Active
  <2>3. CASE HoldsLock(p, c)
    <3>1. c \in press[p].taken
      BY <2>3 DEF HoldsLock
    <3>2. CASE Gives(p)
      BY <3>1, <3>2, <1>1 DEF Gives, Unlinked
    <3>3. CASE Spends(p)
      BY <3>1, <3>3, <1>1 DEF Spends, Finished
    <3>4. LeadOf(p)
      BY DEF LeadInv
    <3> QED BY <2>3, <3>2, <3>3, <3>4, OutboundKept
  <2> QED BY <1>3, <2>1, <2>2, <2>3 DEF GroupInv
<1>4. CASE lock[c] = Nobody /\ ~\E d \in Cards : Wins(p, d) /\ d = c
  BY <1>1, <1>4 DEF Effect, Keeps, Wins, Gives, Spends, Unlinked, Finished, ContTypeOK
<1> QED BY <1>2, <1>3, <1>4

LEMMA LoopAlone ==
  ASSUME Together, NEW p \in Presses, RequestStep(p), NEW q \in Presses, NEW r \in Presses, InLoop(q)', InLoop(r)'
  PROVE  q = r
<1> USE DEF Together, LockInv
<1>1. Kept(p)
  BY Effects
<1>2. \A t \in Presses \ {p} : InLoop(t)' <=> InLoop(t)
  BY <1>1 DEF Kept, InLoop
<1>3. CASE PressStep(p) /\ ~AgentEnds(p)
  BY <1>2, <1>3, AloneInLoop
<1>4. CASE AnswerCard(p) \/ PressContinue(p) \/ AgentEnds(p)
  <2>1. ~InLoop(p)'
    BY <1>4, Begun, PlainGoes DEF InLoop, Became, Goes
  <2> QED BY <1>2, <2>1 DEF GroupInv
<1> QED BY <1>3, <1>4 DEF RequestStep

\* Past its loop with what it won, a request has the whole turn: what another had won before
\* would be the other's whole turn, and nothing would be left to win.
LEMMA WeighWhole ==
  ASSUME Together, NEW p \in Presses, RequestStep(p), press[p].at = "take", press[p].todo = {},
         NEW c \in press[p].taken, answer[c] = "executed"
  PROVE  Whole(p)
<1> USE DEF Together, LockInv
<1>1. InLoop(p) /\ HoldsLock(p, c) /\ c \in Outbound /\ c \in Cards
  BY DEF InLoop, HoldsLock, Active, LeadInv, LeadOf, Cards
<1>2. ~Reported(c)
  BY <1>1 DEF HeldInv, LeadInv, LeadOf, Reported
<1>3. ASSUME NEW q \in Presses \ {p}, Past(q)
      PROVE  FALSE
  <2>1. c \in press[q].taken
    BY <1>1, <1>2, <1>3 DEF GroupInv, Whole
  <2>2. HoldsLock(q, c)
    BY <1>3, <2>1 DEF HoldsLock, Active, Past
  <2> QED BY <1>1, <1>3, <2>2 DEF HeldInv
<1> QED BY <1>1, <1>3 DEF GroupInv, Whole

LEMMA PastWhole ==
  ASSUME Together, NEW p \in Presses, RequestStep(p), NEW q \in Presses, Past(q)'
  PROVE  Whole(q)'
<1> USE DEF Together, LockInv
<1>1. Kept(p) /\ \A c \in Outbound : Reported(c) => Reported(c)'
  BY Effects, ReportedStays
<1>2. ASSUME Whole(q), press'[q].taken = press[q].taken
      PROVE  Whole(q)'
  BY <1>1, <1>2 DEF Whole
<1>3. CASE q # p
  <2>1. press'[q] = press[q] /\ Past(q)
    BY <1>1, <1>3 DEF Kept, Past
  <2> QED BY <1>2, <2>1 DEF GroupInv
<1>4. CASE q = p
  <2> DEFINE r == press[p]
  <2>0. press'[p].at \in {"ask", "start", "running"}
    BY <1>4 DEF Past
  <2>1. CASE Weigh(p)
    <3>1. ~Goes(p, "done", r.todo, {}, r.look)
      BY <2>0 DEF Goes, Became
    <3>2. /\ Goes(p, "ask", r.todo, r.taken, r.look) /\ r.at = "take" /\ r.todo = {}
          /\ \E c \in r.taken : answer[c] = "executed"
      BY <2>1, <3>1, WeighGoes
    <3> QED BY <1>2, <1>4, <3>2, WeighWhole DEF Goes, Became
  <2>2. CASE ChatFree(p) \/ StartResume(p)
    <3>1. Past(p) /\ press'[p].taken = r.taken
      BY <2>2, PlainGoes DEF Past, Goes, Became
    <3> QED BY <1>2, <1>4, <3>1 DEF GroupInv
  <2>3. CASE LookAtGroup(p) \/ TakeOne(p) \/ LinkOne(p) \/ TakeForAgent(p)
    BY <2>0, <2>3, LookGoes, TakeGoes, LinkGoes, AgentGoes DEF Goes, Became
  <2>4. CASE GiveBack(p) \/ ResumeEnds(p) \/ RefuseAgent(p) \/ AdmitAgent(p) \/ StopBeforeAgent(p) \/ EnterAgent(p)
             \/ AgentEnds(p)
    BY <2>0, <2>4, PlainGoes DEF Goes, Became
  <2>5. CASE AnswerCard(p) \/ PressContinue(p)
    BY <2>0, <2>5, Begun DEF Became
  <2> QED BY <2>1, <2>2, <2>3, <2>4, <2>5 DEF RequestStep, PressStep
<1> QED BY <1>3, <1>4

\* In the loop, a card of the turn is won, still to come, reported, or another's who has it all.
LEMMA LoopWhole ==
  ASSUME Together, NEW p \in Presses, RequestStep(p), NEW q \in Presses, InLoop(q)', NEW c \in Outbound
  PROVE  \/ c \in press'[q].taken \cup press'[q].todo
         \/ press'[q].at = "link" /\ c = press'[q].look
         \/ Reported(c)'
         \/ \E t \in Presses \ {q} : Past(t)' /\ c \in press'[t].taken
<1> USE DEF Together, LockInv
<1>1. Kept(p) /\ (Reported(c) => Reported(c)') /\ c \in Cards
  BY Effects, ReportedStays DEF Cards
<1>2. \A t \in Presses \ {p} : press'[t] = press[t] /\ (Past(t)' <=> Past(t)) /\ (InLoop(t)' <=> InLoop(t))
  BY <1>1 DEF Kept, Past, InLoop
<1>3. CASE q # p
  <2>1. InLoop(q)
    BY <1>2, <1>3
  <2>2. AnswerCard(p) \/ PressContinue(p) \/ AgentEnds(p)
    BY <1>3, <2>1, AloneInLoop DEF RequestStep
  <2>3. ~Past(p)
    BY <2>2 DEF AnswerCard, PressContinue, AgentEnds, Past
  <2> QED BY <1>1, <1>2, <1>3, <2>1, <2>3 DEF GroupInv
<1>4. CASE q = p
  <2> DEFINE r == press[p]
  <2>0. press'[p].at \in {"take", "link"}
    BY <1>4 DEF InLoop
  <2>1. CASE LookAtGroup(p)
    <3>1. Goes(p, "take", Candidates, r.taken, r.look) /\ answer[c] # "open"
      BY <2>0, <2>1, LookGoes DEF Goes, Became
    <3>2. c \in Candidates \/ Reported(c)
      BY <1>1, <3>1 DEF Candidates, Reported, ContTypeOK
    <3> QED BY <1>1, <1>4, <3>1, <3>2 DEF Goes, Became
  <2>2. ASSUME InLoop(p), c \notin r.taken \cup r.todo, ~(r.at = "link" /\ c = r.look)
        PROVE  Reported(c)' \/ \E t \in Presses \ {q} : Past(t)' /\ c \in press'[t].taken
    BY <1>1, <1>2, <1>4, <2>2 DEF GroupInv
  <2>3. CASE TakeOne(p)
    <3>1. PICK d \in r.todo : r.at = "take" /\ (\/ continued[d] /\ Goes(p, "take", r.todo \ {d}, r.taken, r.look)
                                                \/ Goes(p, "link", r.todo, r.taken, d))
      BY <2>3, TakeGoes
    <3>2. InLoop(p)
      BY <3>1 DEF InLoop
    <3>3. CASE c \in r.taken
      BY <1>4, <3>1, <3>3 DEF Goes, Became
    <3>4. CASE c \in r.todo /\ c = d /\ continued[d]
      BY <1>1, <3>4 DEF Reported
    <3>5. CASE c \in r.todo /\ (c # d \/ ~continued[d])
      BY <1>4, <3>1, <3>5 DEF Goes, Became
    <3> QED BY <2>2, <3>1, <3>2, <3>3, <3>4, <3>5
  <2>4. CASE LinkOne(p)
    <3>1. PICK d \in Cards : d = r.look /\ r.at = "link"
                             /\ (\/ lock[d] = Nobody /\ Goes(p, "take", r.todo \ {d}, r.taken \cup {d}, Nobody)
                                 \/ lock[d] # Nobody /\ Goes(p, "take", r.todo \ {d}, r.taken, Nobody))
      BY <2>4, LinkGoes
    <3>2. InLoop(p)
      BY <3>1 DEF InLoop
    <3>3. CASE c \in r.taken \/ (c \in r.todo /\ c # d)
      BY <1>4, <3>1, <3>3 DEF Goes, Became
    <3>4. CASE c = d /\ lock[d] = Nobody
      BY <1>4, <3>1, <3>4 DEF Goes, Became
    <3>5. CASE c = d /\ lock[d] # Nobody /\ c \notin r.taken
      <4>1. CASE continued[c]
        BY <1>1, <4>1 DEF Reported
      <4>2. ASSUME NEW t \in Presses, HoldsLock(t, c)
            PROVE  Past(t)' /\ c \in press'[t].taken /\ t # q
        <5>1. (InLoop(t) \/ Past(t)) /\ c \in press[t].taken
          BY <4>2, LeadHolds
        <5>2. t # p
          BY <3>5, <5>1
        <5>3. ~InLoop(t)
          BY <3>2, <5>2 DEF GroupInv
        <5> QED BY <1>2, <1>4, <5>1, <5>2, <5>3
      <4> QED BY <3>5, <4>1, <4>2 DEF GroupInv
    <3> QED BY <2>2, <3>1, <3>2, <3>3, <3>4, <3>5
  <2>5. CASE Weigh(p) \/ TakeForAgent(p)
    BY <2>0, <2>5, WeighGoes, AgentGoes DEF Goes, Became
  <2>6. CASE GiveBack(p) \/ ChatFree(p) \/ StartResume(p) \/ ResumeEnds(p) \/ RefuseAgent(p) \/ AdmitAgent(p)
             \/ StopBeforeAgent(p) \/ EnterAgent(p) \/ AgentEnds(p)
    BY <2>0, <2>6, PlainGoes DEF Goes, Became
  <2>7. CASE AnswerCard(p) \/ PressContinue(p)
    BY <2>0, <2>7, Begun DEF Became
  <2> QED BY <2>1, <2>3, <2>4, <2>5, <2>6, <2>7 DEF RequestStep, PressStep
<1> QED BY <1>3, <1>4

\* A request keeps its process; who has none has not begun.
LEMMA Idles ==
  ASSUME ContTypeOK, PressInv, LeadInv, NEW p \in Presses, RequestStep(p)
  PROVE  press'[p].by = press[p].by \/ press[p].by = Nobody
<1>1. CASE AnswerCard(p) \/ PressContinue(p)
  BY <1>1 DEF AnswerCard, PressContinue, LeadInv, LeadOf
<1>2. CASE LookAtGroup(p) \/ TakeOne(p) \/ LinkOne(p) \/ TakeForAgent(p) \/ Weigh(p)
  BY <1>2, LookGoes, TakeGoes, LinkGoes, AgentGoes, WeighGoes DEF Goes, Became
<1>3. CASE ChatFree(p) \/ StartResume(p) \/ AdmitAgent(p) \/ EnterAgent(p) \/ GiveBack(p) \/ RefuseAgent(p)
           \/ StopBeforeAgent(p) \/ ResumeEnds(p) \/ AgentEnds(p)
  BY <1>3, PlainGoes DEF Goes, Became
<1> QED BY <1>1, <1>2, <1>3 DEF RequestStep, PressStep

\* While no process has died, only requests and expiry move.
LEMMA GroupStep ==
  ASSUME LockInv, WholeInv, LeadInv', [ContNext]_contVars, (deaths = 0 /\ OneGateway)'
  PROVE  GroupInv'
<1>1. ContTypeOK /\ PressInv /\ LifeInv
  BY DEF LockInv
<1>2. /\ deaths = 0 /\ apart /\ \A g \in Gateways : gateway[g] = "up"
      /\ ~\E g \in Gateways : Die(g) \/ Boot(g) \/ ScanStep(g)
  <2>1. deaths \in 0 .. MaxDeaths /\ deaths' = 0
    BY <1>1 DEF ContTypeOK
  <2>2. \A g \in Gateways : ~Die(g)
    <3>1. \A g \in Gateways : Die(g) => deaths' = deaths + 1
      BY DEF Die
    <3> QED BY <2>1, <3>1
  <2>3. UNCHANGED deaths
    <3>1. \A p \in Presses : PressStep(p) => UNCHANGED deaths
      BY DEF PressStep
    <3>2. \A g \in Gateways : Boot(g) \/ ScanStep(g) => UNCHANGED deaths
      BY DEF Boot, ScanStep, LookAtLock, UnlinkStale, Recovered
    <3> QED BY <2>2, <3>1, <3>2 DEF ContNext, contVars
  <2> QED BY <1>1, <2>1, <2>2, <2>3 DEF LifeInv, Boot, ScanStep, LookAtLock, UnlinkStale, Recovered
<1>3. HeldInv /\ LeadInv /\ Stay
  BY <1>1, <1>2, AnswersStay DEF LockInv, WholeInv, Stay, contVars
<1>4. OneGateway
  <2>1. CASE UNCHANGED press
    BY <2>1 DEF OneGateway
  <2>2. ASSUME NEW p \in Presses, RequestStep(p)
        PROVE  OneGateway
    <3>1. Kept(p)
      BY <1>1, <2>2, Effects
    <3>2. press'[p].by = press[p].by \/ press[p].by = Nobody
      BY <1>1, <1>3, <2>2, Idles
    <3> QED BY <3>1, <3>2 DEF OneGateway, Kept
  <2> QED BY <1>2, <2>1, <2>2 DEF ContNext, contVars, ExpireCard, RequestStep
<1>5. GroupInv
  BY <1>2, <1>4 DEF WholeInv
<1>6. ASSUME NEW p \in Presses, RequestStep(p)
      PROVE  GroupInv'
  <2>1. Together
    BY <1>3, <1>4, <1>5 DEF Together
  <2> QED BY <1>6, <2>1, HeldOrReported, LoopAlone, PastWhole, LoopWhole DEF GroupInv
<1>7. CASE ExpireCard \/ UNCHANGED contVars
  <2>1. UNCHANGED <<continued, lock, press>>
    BY <1>7 DEF ExpireCard, contVars
  <2>2. \A c \in Outbound : Reported(c) => Reported(c)'
    BY <1>3, <2>1 DEF Reported, Stay, Cards
  <2> QED BY <1>5, <2>1, <2>2 DEF GroupInv, InLoop, Past, Whole, HoldsLock, Active
<1> QED BY <1>2, <1>6, <1>7 DEF ContNext, RequestStep

LEMMA WholeInvariance == ContSpec => [](LockInv /\ WholeInv)
<1>1. ContInit => WholeInv
  <2> SUFFICES ASSUME ContInit
               PROVE  WholeInv
    OBVIOUS
  <2>1. \A p \in Presses : press[p].at = "idle" /\ press[p].by = Nobody
    BY DEF ContInit, Idle, Asks
  <2>2. LeadInv
    BY <2>1 DEF LeadInv, LeadOf, InLoop, Past, HoldsLock, Active
  <2>3. \A c \in Outbound : lock[c] = Nobody
    BY DEF ContInit, Cards
  <2>4. GroupInv
    BY <2>1, <2>3 DEF GroupInv, InLoop, Past
  <2> QED BY <2>2, <2>4 DEF WholeInv
<1>2. LockInv /\ WholeInv /\ [ContNext]_contVars => (LockInv /\ WholeInv)'
  BY LockStep, LeadStep, GroupStep DEF WholeInv
<1> QED BY <1>1, <1>2, LockStart, PTL DEF ContSpec

\* While one process has the turn's requests, a resumed run reports every call of the turn that
\* was answered and not reported before (GroupWhole): of two answers that resume the turn at
\* once, one gets the whole of it and the other nothing.
THEOREM WholeTurn == ContSpec => []GroupWhole
<1>1. WholeInv => GroupWhole
  <2> SUFFICES ASSUME WholeInv, NEW p \in Presses, press[p].at = "running", deaths = 0,
                      \A q \in Presses : press[q].by \in {press[p].by, Nobody},
                      NEW c \in Outbound
               PROVE  c \in press[p].taken \/ continued[c] \/ answer[c] = "expired"
    BY DEF GroupWhole
  <2>1. OneGateway
    BY DEF OneGateway
  <2>2. Whole(p)
    BY <2>1 DEF WholeInv, GroupInv, Past
  <2> QED BY <2>2 DEF Whole, Reported
<1> QED BY <1>1, WholeInvariance, PTL


=============================================================================
