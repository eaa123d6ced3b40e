----------------------------- MODULE ContinueLock -----------------------------
(***************************************************************************)
(* Picking a turn up again after its cards are answered.                   *)
(*                                                                         *)
(* An executed action may be continued once: the lead resumes its turn     *)
(* when the last outbound card of the turn is answered (gateway/resume.py),*)
(* and a person presses "Continue <agent>" on an agent's card              *)
(* (gateway/services.py).  Both take the action's Continue lock, a file    *)
(* linked into place with its owner in it (policy/pending.py), spend it    *)
(* when the run ends well and remove it otherwise.  A gateway process that *)
(* starts removes the locks whose owner is gone.                           *)
(***************************************************************************)
EXTENDS Naturals, FiniteSets

CONSTANTS Outbound,     \* one turn's outbound cards of the lead
          Delegated,    \* executed cards of agents that stopped in a delegation
          Presses,      \* requests: an answer to a card, or a press of Continue
          Gateways,     \* gateway processes that share the folder
          MaxDeaths,    \* bound: processes that die
          Nobody

ASSUME ContinueAssumption ==
  /\ Outbound \cap Delegated = {} /\ MaxDeaths \in Nat
  /\ Nobody \notin Outbound \cup Delegated \cup Gateways \cup Gateways \X Nat

Cards == Outbound \cup Delegated

VARIABLES
  answer,    \* each card's outcome, "open" while it waits
  continued, \* the record's `continued`
  lock,      \* the .continued file: its owner, a process and its life, or Nobody
  life,      \* how often each gateway has started
  gateway,   \* "up", "down" or "starting"
  scan,      \* a starting gateway's walk over the lock files
  press,     \* each request
  entered,   \* history: Continues of each card that ended well
  deaths,
  apart      \* history: no two gateways were starting at once

contVars == <<answer, continued, lock, life, gateway, scan, press, entered, deaths, apart>>

Asks(at, g, c) == [at |-> at, by |-> g, todo |-> {}, taken |-> {}, look |-> c]
Idle == Asks("idle", Nobody, Nobody)
Resting == [todo |-> {}, at |-> "look", card |-> Nobody]

ContInit ==
  /\ answer = [c \in Cards |-> IF c \in Outbound THEN "open" ELSE "executed"]
  /\ continued = [c \in Cards |-> FALSE]
  /\ lock = [c \in Cards |-> Nobody]
  /\ life = [g \in Gateways |-> 1]
  /\ gateway = [g \in Gateways |-> "up"]
  /\ scan = [g \in Gateways |-> Resting]
  /\ press = [p \in Presses |-> Idle]
  /\ entered = [c \in Cards |-> 0]
  /\ deaths = 0 /\ apart = TRUE

Self(g) == <<g, life[g]>>

\* Mutant: a starting gateway takes every owner for gone.
OwnerForgotten(o) == o # Nobody

\* Its process is gone: dead, or another life of it runs.
OwnerGone(o) == gateway[o[1]] = "down" \/ life[o[1]] # o[2]

\* Mutant: the locks are taken on another thread, and awaited.
InLoopNever(p) == FALSE

\* From its look at the turn's cards to its last lock a resume does not await: it keeps its
\* process's event loop.
InLoop(p) == press[p].at \in {"take", "link"}

LoopFree(g, p) == \A q \in Presses \ {p} : press[q].by = g => ~InLoop(q)

\* Where a press goes next: its process must live and its loop be free.
Go(p, step) ==
  /\ gateway[press[p].by] = "up" /\ LoopFree(press[p].by, p)
  /\ press' = [press EXCEPT ![p] = step]

Runs(p) == press[p].at \in {"running", "admitted", "inside"}

----------------------------------------------------------------------------
(* The lead's resume. *)

\* A card is answered; what its confirmation does is PendingConfirm's.
AnswerCard(p) == \E c \in Outbound, g \in Gateways, o \in {"executed", "declined"} :
  /\ press[p].at = "idle" /\ answer[c] = "open" /\ gateway[g] = "up"
  /\ answer' = [answer EXCEPT ![c] = o]
  /\ press' = [press EXCEPT ![p] = Asks("group", g, Nobody)]
  /\ UNCHANGED <<continued, lock, life, gateway, scan, entered>>

ExpireCard == \E c \in Outbound :
  /\ answer[c] = "open"
  /\ answer' = [answer EXCEPT ![c] = "expired"]
  /\ UNCHANGED <<continued, lock, life, gateway, scan, press, entered>>

\* Nothing is resumed while a card of the turn is open, or when none ran.
LookAtGroup(p) ==
  LET candidates == {c \in Outbound : ~continued[c] /\ answer[c] \in {"executed", "declined"}} IN
  /\ press[p].at = "group"
  /\ IF (\E c \in Outbound : answer[c] = "open") \/ ~\E c \in candidates : answer[c] = "executed"
     THEN Go(p, [press[p] EXCEPT !.at = "done"])
     ELSE Go(p, [press[p] EXCEPT !.at = "take", !.todo = candidates])
  /\ UNCHANGED <<answer, continued, lock, life, gateway, scan, entered>>

\* take_continue, first half: the record says whether it was continued ...
TakeOne(p) == \E c \in press[p].todo :
  /\ press[p].at = "take"
  /\ Go(p, IF continued[c] THEN [press[p] EXCEPT !.todo = @ \ {c}]
           ELSE [press[p] EXCEPT !.at = "link", !.look = c])
  /\ UNCHANGED <<answer, continued, lock, life, gateway, scan, entered>>

\* ... and the link succeeds when there is no lock.
LinkOne(p) ==
  LET c == press[p].look  won == lock[c] = Nobody IN
  /\ press[p].at = "link"
  /\ Go(p, [press[p] EXCEPT !.at = "take", !.todo = @ \ {c}, !.look = Nobody,
                            !.taken = IF won THEN @ \cup {c} ELSE @])
  /\ lock' = IF won THEN [lock EXCEPT ![c] = Self(press[p].by)] ELSE lock
  /\ UNCHANGED <<answer, continued, life, gateway, scan, entered>>

\* release_continue unlinks by name.
Unlinked(cs) == lock' = [c \in Cards |-> IF c \in cs THEN Nobody ELSE lock[c]]

\* What it won must hold a call that ran; then it asks whether the chat is busy.
Weigh(p) ==
  LET worth == \E c \in press[p].taken : answer[c] = "executed" IN
  /\ press[p].at = "take" /\ press[p].todo = {}
  /\ Go(p, IF worth THEN [press[p] EXCEPT !.at = "ask"] ELSE [press[p] EXCEPT !.at = "done", !.taken = {}])
  /\ IF worth THEN UNCHANGED lock ELSE Unlinked(press[p].taken)
  /\ UNCHANGED <<answer, continued, life, gateway, scan, entered>>

\* The chat is replying, or start_run refuses or raises: everything is given back.
GiveBack(p) ==
  /\ press[p].at \in {"ask", "start"}
  /\ Go(p, [press[p] EXCEPT !.at = "done", !.taken = {}])
  /\ Unlinked(press[p].taken)
  /\ UNCHANGED <<answer, continued, life, gateway, scan, entered>>

ChatFree(p) ==
  /\ press[p].at = "ask" /\ ~\E q \in Presses : Runs(q)
  /\ Go(p, [press[p] EXCEPT !.at = "start"])
  /\ UNCHANGED <<answer, continued, lock, life, gateway, scan, entered>>

\* Of one process's runs on a chat, one is admitted.
StartResume(p) ==
  /\ press[p].at = "start"
  /\ ~\E q \in Presses : Runs(q) /\ press[q].by = press[p].by
  /\ Go(p, [press[p] EXCEPT !.at = "running"])
  /\ UNCHANGED <<answer, continued, lock, life, gateway, scan, entered>>

\* Mutant: a Continue that ended well gives its locks back as one that did not.
SpentGivesBack(cs, ok) ==
  /\ UNCHANGED continued
  /\ Unlinked(cs)
  /\ entered' = IF ok THEN [c \in Cards |-> IF c \in cs THEN entered[c] + 1 ELSE entered[c]] ELSE entered

\* Mutant: only a Continue that ended well is recorded.
SpentOnly(cs, ok) ==
  /\ UNCHANGED lock
  /\ continued' = IF ok THEN [c \in Cards |-> c \in cs \/ continued[c]] ELSE continued
  /\ entered' = IF ok THEN [c \in Cards |-> IF c \in cs THEN entered[c] + 1 ELSE entered[c]] ELSE entered

\* finish_continue, of each card: spent, its lock staying; or given back.
Finished(cs, ok) ==
  IF ok THEN /\ continued' = [c \in Cards |-> c \in cs \/ continued[c]]
             /\ entered' = [c \in Cards |-> IF c \in cs THEN entered[c] + 1 ELSE entered[c]]
             /\ UNCHANGED lock
  ELSE Unlinked(cs) /\ UNCHANGED <<continued, entered>>

\* The run's task is done: whether it ended well is told to its done-callback.
ResumeEnds(p) == \E ok \in BOOLEAN :
  /\ press[p].at = "running"
  /\ Go(p, [press[p] EXCEPT !.at = "done"])
  /\ Finished(press[p].taken, ok)
  /\ UNCHANGED <<answer, life, gateway, scan>>

----------------------------------------------------------------------------
(* Continue <agent>. *)

PressContinue(p) == \E c \in Delegated, g \in Gateways :
  /\ press[p].at = "idle" /\ gateway[g] = "up" /\ ~continued[c]
  /\ press' = [press EXCEPT ![p] = Asks("press", g, c)]
  /\ UNCHANGED <<answer, continued, lock, life, gateway, scan, entered>>

TakeForAgent(p) ==
  LET c == press[p].look  won == lock[c] = Nobody IN
  /\ press[p].at = "press"
  /\ Go(p, IF won THEN [press[p] EXCEPT !.at = "taken", !.taken = {c}] ELSE [press[p] EXCEPT !.at = "done"])
  /\ lock' = IF won THEN [lock EXCEPT ![c] = Self(press[p].by)] ELSE lock
  /\ UNCHANGED <<answer, continued, life, gateway, scan, entered>>

\* The run is refused: the lock is given back.
RefuseAgent(p) ==
  /\ press[p].at = "taken"
  /\ Go(p, [press[p] EXCEPT !.at = "done", !.taken = {}])
  /\ Unlinked(press[p].taken)
  /\ UNCHANGED <<answer, continued, life, gateway, scan, entered>>

AdmitAgent(p) ==
  /\ press[p].at = "taken" /\ ~\E q \in Presses : Runs(q) /\ press[q].by = press[p].by
  /\ Go(p, [press[p] EXCEPT !.at = "admitted"])
  /\ UNCHANGED <<answer, continued, lock, life, gateway, scan, entered>>

\* Only the agent's re-entry reports an outcome: a run that is stopped, or fails, before it
\* calls the agent in says nothing of the lock.
StopBeforeAgent(p) ==
  /\ press[p].at = "admitted"
  /\ Go(p, [press[p] EXCEPT !.at = "done", !.taken = {}])
  /\ UNCHANGED <<answer, continued, lock, life, gateway, scan, entered>>

EnterAgent(p) ==
  /\ press[p].at = "admitted"
  /\ Go(p, [press[p] EXCEPT !.at = "inside"])
  /\ UNCHANGED <<answer, continued, lock, life, gateway, scan, entered>>

\* The agent's thread has ended, whatever became of the run that awaited it.
AgentEnds(p) == \E ok \in BOOLEAN :
  /\ press[p].at = "inside" /\ gateway[press[p].by] = "up"
  /\ press' = [press EXCEPT ![p].at = "done"]
  /\ Finished(press[p].taken, ok)
  /\ UNCHANGED <<answer, life, gateway, scan>>

----------------------------------------------------------------------------
(* Processes. *)

\* A process dies with its requests and runs.  Its locks stay.
Die(g) ==
  /\ gateway[g] # "down" /\ deaths < MaxDeaths /\ deaths' = deaths + 1
  /\ gateway' = [gateway EXCEPT ![g] = "down"]
  /\ scan' = [scan EXCEPT ![g] = Resting]
  /\ press' = [p \in Presses |-> IF press[p].by = g THEN [press[p] EXCEPT !.at = "done", !.taken = {}] ELSE press[p]]
  /\ UNCHANGED <<answer, continued, lock, life, entered, apart>>

\* It starts again: recover_continues goes over the lock files there are.
Boot(g) ==
  /\ gateway[g] = "down"
  /\ gateway' = [gateway EXCEPT ![g] = "starting"]
  /\ life' = [life EXCEPT ![g] = @ + 1]
  /\ scan' = [scan EXCEPT ![g] = [Resting EXCEPT !.todo = {c \in Cards : lock[c] # Nobody}]]
  /\ apart' = (apart /\ \A h \in Gateways : gateway[h] # "starting")
  /\ UNCHANGED <<answer, continued, lock, press, entered, deaths>>

\* One that was recorded, that is no longer there, or whose owner lives is passed over.
LookAtLock(g) == \E c \in scan[g].todo :
  /\ gateway[g] = "starting" /\ scan[g].at = "look"
  /\ scan' = [scan EXCEPT ![g] =
       IF continued[c] \/ lock[c] = Nobody \/ ~OwnerGone(lock[c]) THEN [scan[g] EXCEPT !.todo = @ \ {c}]
       ELSE [todo |-> scan[g].todo \ {c}, at |-> "unlink", card |-> c]]
  /\ UNCHANGED <<answer, continued, lock, life, gateway, press, entered, deaths, apart>>

\* The lock is removed by its name, whoever's it is by now.
UnlinkStale(g) ==
  /\ gateway[g] = "starting" /\ scan[g].at = "unlink"
  /\ Unlinked({scan[g].card})
  /\ scan' = [scan EXCEPT ![g].at = "look", ![g].card = Nobody]
  /\ UNCHANGED <<answer, continued, life, gateway, press, entered, deaths, apart>>

Recovered(g) ==
  /\ gateway[g] = "starting" /\ scan[g].at = "look" /\ scan[g].todo = {}
  /\ gateway' = [gateway EXCEPT ![g] = "up"]
  /\ UNCHANGED <<answer, continued, lock, life, scan, press, entered, deaths, apart>>

----------------------------------------------------------------------------
PressStep(p) ==
  /\ \/ LookAtGroup(p) \/ TakeOne(p) \/ LinkOne(p) \/ Weigh(p) \/ GiveBack(p) \/ ChatFree(p)
     \/ StartResume(p) \/ ResumeEnds(p)
     \/ TakeForAgent(p) \/ RefuseAgent(p) \/ AdmitAgent(p) \/ StopBeforeAgent(p)
     \/ EnterAgent(p) \/ AgentEnds(p)
  /\ UNCHANGED <<deaths, apart>>

ScanStep(g) == LookAtLock(g) \/ UnlinkStale(g) \/ Recovered(g)

ContNext ==
  \/ \E p \in Presses : (AnswerCard(p) \/ PressContinue(p)) /\ UNCHANGED <<deaths, apart>>
  \/ ExpireCard /\ UNCHANGED <<deaths, apart>>
  \/ \E p \in Presses : PressStep(p)
  \/ \E g \in Gateways : Die(g) \/ Boot(g) \/ ScanStep(g)

ContSpec == ContInit /\ [][ContNext]_contVars

\* Requests, runs and starting processes get on, and a process that died is started again.
ContFairness ==
  /\ \A p \in Presses : WF_contVars(PressStep(p))
  /\ \A g \in Gateways : WF_contVars(Boot(g)) /\ WF_contVars(ScanStep(g))

----------------------------------------------------------------------------
(* What the lock is for. *)

Press == [at : {"idle", "group", "take", "link", "ask", "start", "running",
                "press", "taken", "admitted", "inside", "done"},
          by : Gateways \cup {Nobody}, todo : SUBSET Cards, taken : SUBSET Cards, look : Cards \cup {Nobody}]

ContTypeOK ==
  /\ answer \in [Cards -> {"open", "executed", "declined", "expired"}]
  /\ continued \in [Cards -> BOOLEAN]
  /\ lock \in [Cards -> {Nobody} \cup Gateways \X Nat]
  /\ life \in [Gateways -> Nat] /\ deaths \in 0 .. MaxDeaths /\ apart \in BOOLEAN
  /\ gateway \in [Gateways -> {"up", "down", "starting"}]
  /\ scan \in [Gateways -> [todo : SUBSET Cards, at : {"look", "unlink"}, card : Cards \cup {Nobody}]]
  /\ press \in [Presses -> Press]
  /\ entered \in [Cards -> Nat]

\* No confirmed action is continued by two runs at once, over the deaths and starts of
\* processes (pending.py, recover_continues: "a live owner's lock is never released").  Not so
\* when two of them start at once: both find a lock stale, one removes it, a request takes it,
\* and the other removes the lock that was taken.
OneAtATime ==
  apart => \A p, q \in Presses : p # q /\ Runs(p) /\ Runs(q) => press[p].taken \cap press[q].taken = {}

\* What was continued well is never continued again, but for the same two starts.
SpentOnce == apart => \A c \in Cards : entered[c] <= 1

\* While one process has the turn's requests, a resumed run reports every call of the turn
\* that was answered and not reported before (resume.py: "the turn's outcomes as its input").
GroupWhole ==
  \A p \in Presses :
    press[p].at = "running" /\ (\A q \in Presses : press[q].by \in {press[p].by, Nobody}) /\ deaths = 0
      => \A c \in Outbound : c \in press[p].taken \/ continued[c] \/ answer[c] = "expired"

\* The lock of an outbound card is given back or spent.
LeadLocksEnd == \A c \in Outbound : lock[c] # Nobody ~> (lock[c] = Nobody \/ continued[c])

(* The inductive invariants behind them.  Who holds a card's lock is alive and is named in it;   *)
(* a lock that a starting process is about to remove has lost its owner, which holds only while  *)
(* no other process starts, since locks are removed by name; and what was continued keeps its    *)
(* lock for good.                                                                                *)

Active(p) == press[p].at \notin {"idle", "done"}
HoldsLock(p, c) == Active(p) /\ c \in press[p].taken

PressInv == \A p \in Presses :
  /\ Active(p) => press[p].by \in Gateways /\ gateway[press[p].by] = "up"
  /\ press[p].at \in {"group", "press"} => press[p].taken = {}
  /\ press[p].at \in {"link", "press"} => press[p].look \in Cards

LifeInv ==
  /\ \A c \in Cards : lock[c] # Nobody => lock[c][2] <= life[lock[c][1]]
  /\ \A g \in Gateways : scan[g].at = "unlink" => gateway[g] = "starting" /\ scan[g].card \in Cards
  /\ deaths = 0 => apart /\ \A g \in Gateways : gateway[g] = "up"
  /\ apart => \A g, h \in Gateways : gateway[g] = "starting" /\ gateway[h] = "starting" => g = h

HeldInv ==
  /\ \A p \in Presses, c \in Cards : HoldsLock(p, c) => lock[c] = Self(press[p].by) /\ ~continued[c]
  /\ \A p, q \in Presses, c \in Cards : HoldsLock(p, c) /\ HoldsLock(q, c) => p = q
  /\ \A g \in Gateways : scan[g].at = "unlink" =>
       lock[scan[g].card] # Nobody /\ OwnerGone(lock[scan[g].card]) /\ ~continued[scan[g].card]
  /\ \A c \in Cards : IF continued[c] THEN lock[c] # Nobody /\ entered[c] <= 1 ELSE entered[c] = 0

LockInv == ContTypeOK /\ PressInv /\ LifeInv /\ (apart => HeldInv)

\* While one process has the requests, whoever is past its loop has the whole group; nobody else
\* is in the loop meanwhile, and what it did not get is reported or held by one that has it all.
OneGateway == \A p, q \in Presses : press[p].by \in {press[q].by, Nobody} \/ press[q].by = Nobody
Past(p) == press[p].at \in {"ask", "start", "running"}
Reported(c) == continued[c] \/ answer[c] = "expired"
Whole(p) == \A c \in Outbound : c \in press[p].taken \/ Reported(c)

LeadOf(p) ==
  /\ press[p].at = "idle" => press[p].by = Nobody
  /\ InLoop(p) => press[p].todo \subseteq Outbound /\ (press[p].at = "link" => press[p].look \in Outbound)
  /\ InLoop(p) \/ Past(p) => press[p].taken \subseteq Outbound
  /\ press[p].at \in {"taken", "admitted", "inside"} => press[p].taken \subseteq Delegated
  /\ press[p].at = "press" => press[p].look \in Delegated
  /\ \A c \in Outbound : HoldsLock(p, c) => answer[c] \notin {"open", "expired"}
  /\ InLoop(p) => \A c \in Outbound : c \in press[p].todo \/ (press[p].at = "link" /\ c = press[p].look)
                     => answer[c] \notin {"open", "expired"}
LeadInv == \A p \in Presses : LeadOf(p)

GroupInv ==
  /\ \A c \in Outbound : lock[c] # Nobody => continued[c] \/ \E p \in Presses : HoldsLock(p, c)
  /\ \A p, q \in Presses : InLoop(p) /\ InLoop(q) => p = q
  /\ \A p \in Presses : Past(p) => Whole(p)
  /\ \A p \in Presses : InLoop(p) => \A c \in Outbound :
       \/ c \in press[p].taken \cup press[p].todo
       \/ press[p].at = "link" /\ c = press[p].look
       \/ Reported(c)
       \/ \E q \in Presses \ {p} : Past(q) /\ c \in press[q].taken

WholeInv == LeadInv /\ (deaths = 0 /\ OneGateway => GroupInv)

=============================================================================
