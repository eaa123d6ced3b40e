--------------------------- MODULE PendingConfirm ---------------------------
(***************************************************************************)
(* The life of a pending action: a Tier 3 call stated to a person and      *)
(* answered, possibly by several routes of several gateway workers at once *)
(* (app/policy/pending.py, confirm_flow.py, supersede.py, the confirmation *)
(* routes of app/gateway/routers/confirmations.py).                        *)
(*                                                                         *)
(* What the workers share is a directory.  An action is one JSON file,     *)
(* always written WHOLE from a copy read earlier (PendingStore.save), and  *)
(* a claim is a hard link whose creation fails if it exists.  A request is *)
(* one route handled by one worker; every read, link, unlink and write of  *)
(* a file is a step of its own, so requests interleave between any two.    *)
(***************************************************************************)
EXTENDS Integers, FiniteSets

CONSTANTS Actions,   \* identifiers of pending actions (files)
          Requests,  \* requests, each handled once by some worker
          Routes,    \* the routes that requests may take
          Events,    \* what the environment may do: see EventNames
          None       \* no claimant, no action

RouteNames == {"list", "confirm", "decline", "gone", "supersede", "remove", "edit", "applyAll"}
EventNames == {"expiry", "crash", "auditFails"}

ASSUME ConstantsAssumption ==
  /\ Routes \subseteq RouteNames
  /\ Events \subseteq EventNames
  /\ None \notin Requests \cup Actions

\* Routes that run PendingStore.expire_due before they look at a card.
Sweeping == {"list", "confirm", "decline", "supersede", "remove"}
\* Routes over every card of a listing or of a group, not one card.
Grouped == {"supersede", "remove", "applyAll"}
\* Routes whose claim authorises the call to run.
Confirming == {"confirm", "applyAll"}
\* Variant: a refusal is recorded with the outcome of an unclear reply.
VerdictUnclear(r) == "unrecognised"

\* What a claim taken to refuse resolves the record to.
Verdict(r) == IF r \in {"supersede", "edit"} THEN "superseded" ELSE "declined"

Outcomes == {"absent", "open", "executed", "declined", "superseded", "drifted", "failed", "expired"}
\* Outcomes that tell the person the call was not run, decided under a claim.  The answer
\* "chat_deleted" says the same of a card that another route has claimed.
Refusals == {"declined", "superseded", "drifted"}
Record == [outcome : Outcomes, by : Requests \cup {None}]
Absent == [outcome |-> "absent", by |-> None]
Opened == [outcome |-> "open", by |-> None]

Steps == {"idle", "scan", "expire", "look", "claim", "lost", "linked", "stamp", "confirmed",
          "run", "ran", "audit", "answer", "raised", "edit", "settle",
          "apply", "record", "fail", "release", "reopen", "done", "dead"}
Answers == {"none", "executed", "drifted", "failed", "declined", "superseded",
            "already_resolved", "already_running", "chat_deleted", "refused", "not_applied"}

VARIABLES
  rec,    \* rec[a]: the record in a's file
  claim,  \* claim[a]: a's claim file exists
  due,    \* actions whose expires_at has passed
  ran,    \* ran[a]: how many times a's call ran (history)
  \* and, of each request:
  route,  \* the route it takes
  pc,     \* its next step
  late,   \* the actions expired at the route's one reading of the clock
  todo,   \* files still to read in this pass
  work,   \* cards still to claim
  held,   \* claims held and not yet settled
  cur,    \* the action it is working on, then the one it answered about
  snap,   \* its copies of the records
  told    \* its answer

files == <<rec, claim>>
world == <<due, ran>>
scope == <<route, late>>
lists == <<todo, work, held>>
vars == <<files, world, scope, lists, pc, cur, snap, told>>

NoCopies == [a \in Actions |-> Absent]

Init ==
  /\ rec = [a \in Actions |-> Absent]
  /\ claim = [a \in Actions |-> FALSE]
  /\ due = {}
  /\ ran = [a \in Actions |-> 0]
  /\ route = [p \in Requests |-> "list"]
  /\ pc = [p \in Requests |-> "idle"]
  /\ late = [p \in Requests |-> {}]
  /\ todo = [p \in Requests |-> {}]
  /\ work = [p \in Requests |-> {}]
  /\ held = [p \in Requests |-> {}]
  /\ cur = [p \in Requests |-> None]
  /\ snap = [p \in Requests |-> NoCopies]
  /\ told = [p \in Requests |-> "none"]

Existing == {a \in Actions : rec[a].outcome # "absent"}
At(p, s) == pc[p] = s
On(p, r) == route[p] = r
Goto(p, s) == pc' = [pc EXCEPT ![p] = s]

\* A copy of a record with a new outcome, or a new claimant.
Ended(r, o) == [outcome |-> o, by |-> r.by]
Owned(r, p) == [outcome |-> r.outcome, by |-> p]

\* Request p ends, in pc s, with answer t about a; its locals are gone.
Leave(p, s, a, t) ==
  /\ Goto(p, s)
  /\ cur' = [cur EXCEPT ![p] = a]
  /\ told' = [told EXCEPT ![p] = t]
  /\ late' = [late EXCEPT ![p] = {}]
  /\ todo' = [todo EXCEPT ![p] = {}]
  /\ work' = [work EXCEPT ![p] = {}]
  /\ held' = [held EXCEPT ![p] = {}]
  /\ snap' = [snap EXCEPT ![p] = NoCopies]
  /\ UNCHANGED route
Answered(p, a, t) == Leave(p, "done", a, t)

(***************************************************************************)
(* The world outside the routes: a plan is stated, time passes, a worker   *)
(* dies.                                                                   *)
(***************************************************************************)

\* A new action is saved, as _require_confirmation and the edit route do.
NewCard(a) ==
  /\ rec[a].outcome = "absent"
  /\ rec' = [rec EXCEPT ![a] = Opened]
  /\ UNCHANGED <<claim, world>>

Propose(a) ==
  /\ NewCard(a)
  /\ UNCHANGED <<scope, lists, pc, cur, snap, told>>

\* PendingAction.is_expired becomes true of a.
PassTime(a) ==
  /\ "expiry" \in Events
  /\ a \in Existing \ due
  /\ due' = due \cup {a}
  /\ UNCHANGED <<files, ran, scope, lists, pc, cur, snap, told>>

\* The worker handling p stops: files stay as they are.
Crash(p) ==
  /\ "crash" \in Events
  /\ pc[p] \notin {"idle", "done", "dead"}
  /\ Leave(p, "dead", None, "none")
  /\ UNCHANGED <<files, world>>

(***************************************************************************)
(* Reading: lazy expiry, then the card or cards the route is about.        *)
(***************************************************************************)

\* The route reads the clock, then sweeps or looks at its cards T at once.
Start(p, r, T) ==
  /\ route' = [route EXCEPT ![p] = r]
  /\ late' = [late EXCEPT ![p] = due]
  /\ Goto(p, IF r \in Sweeping THEN "scan" ELSE "look")
  /\ todo' = [todo EXCEPT ![p] = IF r \in Sweeping THEN due ELSE T]
  /\ work' = [work EXCEPT ![p] = IF r \in Sweeping THEN T ELSE {}]

Begin(p, r, T) ==
  /\ At(p, "idle")
  /\ r \in Routes
  /\ T \subseteq Existing
  /\ IF r = "list" THEN T = {} ELSE T # {}
  /\ r \notin Grouped => \A a, b \in T : a = b
  /\ Start(p, r, T)
  /\ UNCHANGED <<files, world, held, cur, snap, told>>

\* expire_due reads one file whose action has expired...
ScanRead(p, a) ==
  /\ At(p, "scan")
  /\ a \in todo[p]
  /\ \/ /\ rec[a].outcome = "open"
        /\ Goto(p, "expire")
        /\ cur' = [cur EXCEPT ![p] = a]
        /\ snap' = [snap EXCEPT ![p][a] = rec[a]]
        /\ UNCHANGED todo
     \/ /\ rec[a].outcome # "open"
        /\ todo' = [todo EXCEPT ![p] = @ \ {a}]
        /\ UNCHANGED <<pc, cur, snap>>
  /\ UNCHANGED <<files, world, scope, work, held, told>>

\* p writes its copy of a record, resolved to o.
Resolve(p, a, o) ==
  /\ rec' = [rec EXCEPT ![a] = Ended(snap[p][a], o)]
  /\ UNCHANGED claim

\* ...and writes back the copy it read, EXPIRED: no claim is taken.
ScanWrite(p) ==
  /\ At(p, "expire")
  /\ Resolve(p, cur[p], "expired")
  /\ todo' = [todo EXCEPT ![p] = @ \ {cur[p]}]
  /\ Goto(p, "scan")
  /\ UNCHANGED <<world, scope, work, held, cur, snap, told>>

\* The sweep is over: a listing ends, a route turns to its cards.
Swept(p) ==
  /\ At(p, "scan")
  /\ todo[p] = {}
  /\ \/ /\ On(p, "list")
        /\ Answered(p, None, "none")
     \/ /\ ~On(p, "list")
        /\ Goto(p, "look")
        /\ todo' = [todo EXCEPT ![p] = work[p]]
        /\ work' = [work EXCEPT ![p] = {}]
        /\ UNCHANGED <<scope, held, cur, snap, told>>
  /\ UNCHANGED <<files, world>>

\* Unresolved, and not expired by the route's clock.  The route of a deleted
\* chat (_resolve, `gone`) looks at the outcome alone.
Answerable(p, a) ==
  /\ rec[a].outcome = "open"
  /\ a \notin late[p] \/ On(p, "gone")

LookOpen(p, a) ==
  /\ At(p, "look")
  /\ a \in todo[p]
  /\ Answerable(p, a)
  /\ work' = [work EXCEPT ![p] = @ \cup {a}]
  /\ todo' = [todo EXCEPT ![p] = @ \ {a}]
  /\ Goto(p, IF todo[p] = {a} THEN "claim" ELSE "look")
  /\ UNCHANGED <<files, world, scope, held, cur, snap, told>>

\* A card no longer open: refused.  A group to apply is refused as a whole.
LookClosed(p, a) ==
  /\ At(p, "look")
  /\ a \in todo[p]
  /\ ~Answerable(p, a)
  /\ \/ /\ On(p, "applyAll") \/ (todo[p] = {a} /\ work[p] = {})
        /\ Answered(p, a, "already_resolved")
     \/ /\ ~On(p, "applyAll")
        /\ ~(todo[p] = {a} /\ work[p] = {})
        /\ todo' = [todo EXCEPT ![p] = @ \ {a}]
        /\ Goto(p, IF todo[p] = {a} THEN "claim" ELSE "look")
        /\ UNCHANGED <<scope, work, held, cur, snap, told>>
  /\ UNCHANGED <<files, world>>

\* Refused before the claim: the count is missing, the chat is replying, no
\* slot is free, the tool was removed, the edit is invalid.  Nothing changes.
Refuse(p, a) ==
  /\ At(p, "claim")
  /\ On(p, "confirm") \/ On(p, "edit")
  /\ a \in work[p]
  /\ Answered(p, a, "refused")
  /\ UNCHANGED <<files, world>>

(***************************************************************************)
(* PendingStore.claim: link, read back, write with claimed_by.             *)
(***************************************************************************)

\* Variant: the link replaces an existing claim file.
ClaimOver(p, a) ==
  /\ At(p, "claim")
  /\ a \in work[p]
  /\ claim' = [claim EXCEPT ![a] = TRUE]
  /\ work' = [work EXCEPT ![p] = @ \ {a}]
  /\ held' = [held EXCEPT ![p] = @ \cup {a}]
  /\ cur' = [cur EXCEPT ![p] = a]
  /\ Goto(p, "linked")
  /\ UNCHANGED <<rec, world, scope, todo, snap, told>>

Claim(p, a) ==
  /\ At(p, "claim")
  /\ a \in work[p]
  /\ ~claim[a]
  /\ claim' = [claim EXCEPT ![a] = TRUE]
  /\ work' = [work EXCEPT ![p] = @ \ {a}]
  /\ held' = [held EXCEPT ![p] = @ \cup {a}]
  /\ cur' = [cur EXCEPT ![p] = a]
  /\ Goto(p, "linked")
  /\ UNCHANGED <<rec, world, scope, todo, snap, told>>

\* Variant: a decline that lost the claim resolves the record all the same.
ClaimLostDeclines(p, a) ==
  /\ At(p, "claim")
  /\ a \in work[p]
  /\ claim[a]
  /\ Answered(p, a, "declined")
  /\ rec' = [rec EXCEPT ![a] = Ended(rec[a], "declined")]
  /\ UNCHANGED <<claim, world>>

\* The link exists: another route took it.  A decline reads the record again
\* to say why; a deleted chat says that nothing has run, whether or not it has; a
\* sweep or a group goes on with its other cards.
ClaimLost(p, a) ==
  /\ At(p, "claim")
  /\ a \in work[p]
  /\ claim[a]
  /\ \/ /\ On(p, "decline")
        /\ Goto(p, "lost")
        /\ cur' = [cur EXCEPT ![p] = a]
        /\ UNCHANGED <<scope, lists, snap, told>>
     \/ On(p, "gone") /\ Answered(p, a, "chat_deleted")
     \/ /\ ~On(p, "decline") /\ ~On(p, "gone")
        /\ work[p] = {a} /\ held[p] = {}
        /\ Answered(p, a, "already_resolved")
     \/ /\ ~On(p, "decline") /\ ~On(p, "gone")
        /\ ~(work[p] = {a} /\ held[p] = {})
        /\ work' = [work EXCEPT ![p] = @ \ {a}]
        /\ Goto(p, IF work[p] = {a} THEN "apply" ELSE "claim")
        /\ UNCHANGED <<scope, todo, held, cur, snap, told>>
  /\ UNCHANGED <<files, world>>

AnswerLost(p) ==
  /\ At(p, "lost")
  /\ Answered(p, cur[p], IF rec[cur[p]].outcome = "open" THEN "already_running" ELSE "already_resolved")
  /\ UNCHANGED <<files, world>>

\* claim() re-reads the record; its outcome is not looked at.
ReadClaimed(p) ==
  /\ At(p, "linked")
  /\ snap' = [snap EXCEPT ![p][cur[p]] = Owned(rec[cur[p]], p)]
  /\ Goto(p, "stamp")
  /\ UNCHANGED <<files, world, scope, lists, cur, told>>

AfterStamp(p) ==
  CASE On(p, "confirm")  -> "confirmed"
    [] On(p, "edit")     -> "edit"
    [] On(p, "applyAll") -> IF work[p] = {} THEN "apply" ELSE "claim"
    [] OTHER             -> "settle"

\* p writes its copy of the record it claimed.
SaveCopy(p) ==
  /\ rec' = [rec EXCEPT ![cur[p]] = snap[p][cur[p]]]
  /\ UNCHANGED <<claim, world, scope, lists, cur, snap, told>>

Stamp(p) ==
  /\ At(p, "stamp")
  /\ Goto(p, AfterStamp(p))
  /\ SaveCopy(p)

(***************************************************************************)
(* A claim taken to run the call: ConfirmationFlow._apply and              *)
(* PolicyMiddleware.execute_confirmed.                                     *)
(***************************************************************************)

\* Who confirmed is saved before anything runs.
SaveConfirmation(p) ==
  /\ At(p, "confirmed")
  /\ Goto(p, "run")
  /\ SaveCopy(p)

\* Variant: drift is recorded, and the call runs all the same.
DriftNoted(p) ==
  /\ At(p, "run")
  /\ Resolve(p, cur[p], "drifted")
  /\ Goto(p, "ran")
  /\ ran' = [ran EXCEPT ![cur[p]] = @ + 1]
  /\ UNCHANGED <<due, scope, lists, cur, snap, told>>

\* The targets are no longer the ones stated: resolved, not run.
Drift(p) ==
  /\ At(p, "run")
  /\ Resolve(p, cur[p], "drifted")
  /\ Goto(p, "answer")
  /\ UNCHANGED <<world, scope, lists, cur, snap, told>>

\* The calls of the cards in S run.
RanAll(S) == [a \in Actions |-> IF a \in S THEN ran[a] + 1 ELSE ran[a]]

RunTool(p) ==
  /\ At(p, "run")
  /\ ran' = RanAll({cur[p]})
  /\ Goto(p, "ran")
  /\ UNCHANGED <<files, due, scope, lists, cur, snap, told>>

\* The call raises, before or after it had its effect.
ToolRaises(p) ==
  /\ At(p, "run")
  /\ ran' = ran \/ ran' = RanAll({cur[p]})
  /\ Goto(p, "raised")
  /\ UNCHANGED <<files, due, scope, lists, cur, snap, told>>

RecordExecuted(p) ==
  /\ At(p, "ran")
  /\ Resolve(p, cur[p], "executed")
  /\ Goto(p, "audit")
  /\ UNCHANGED <<world, scope, lists, cur, snap, told>>

\* Appending the audit line raises after EXECUTED was recorded: the exception
\* reaches _apply's handler as the call's own would.
AuditRaises(p) ==
  /\ "auditFails" \in Events
  /\ At(p, "audit")
  /\ Goto(p, "raised")
  /\ UNCHANGED <<files, world, scope, lists, cur, snap, told>>

\* Variant: the handler answers and leaves the record as it is.
FailedUnrecorded(p) ==
  /\ At(p, "raised")
  /\ Answered(p, cur[p], "failed")
  /\ UNCHANGED <<files, world>>

RecordFailed(p) ==
  /\ At(p, "raised")
  /\ Resolve(p, cur[p], "failed")
  /\ Answered(p, cur[p], "failed")
  /\ UNCHANGED world

\* Variant: the record is not read again.
AnswerDone(p) ==
  /\ At(p, "audit") \/ At(p, "answer")
  /\ Answered(p, cur[p], "executed")
  /\ UNCHANGED <<files, world>>

\* _apply reads the record again to choose its answer: only DRIFTED is looked for.
Answer(p) ==
  /\ At(p, "audit") \/ At(p, "answer")
  /\ Answered(p, cur[p], IF rec[cur[p]].outcome = "drifted" THEN "drifted" ELSE "executed")
  /\ UNCHANGED <<files, world>>

(***************************************************************************)
(* A claim taken to refuse: decline, deleted chat, agent removed, rules    *)
(* reloaded, replaced by an edit.                                          *)
(***************************************************************************)

Settle(p) ==
  /\ At(p, "settle")
  /\ ~On(p, "edit")
  /\ Resolve(p, cur[p], Verdict(route[p]))
  /\ \/ /\ work[p] = {}
        /\ Answered(p, cur[p], Verdict(route[p]))
     \/ /\ work[p] # {}
        /\ held' = [held EXCEPT ![p] = @ \ {cur[p]}]
        /\ Goto(p, "claim")
        /\ UNCHANGED <<scope, todo, work, cur, snap, told>>
  /\ UNCHANGED world

\* The edit is saved as a new action before the original is superseded...
SaveEdited(p, b) ==
  /\ At(p, "edit")
  /\ NewCard(b)
  /\ work' = [work EXCEPT ![p] = {b}]
  /\ Goto(p, "settle")
  /\ UNCHANGED <<scope, todo, held, cur, snap, told>>

\* ...and confirmed in the same request, through the same path as Confirm.
SettleEdited(p) ==
  /\ At(p, "settle")
  /\ On(p, "edit")
  /\ Resolve(p, cur[p], "superseded")
  /\ held' = [held EXCEPT ![p] = {}]
  /\ Start(p, "confirm", work[p])
  /\ UNCHANGED <<world, cur, snap, told>>

(***************************************************************************)
(* "Apply all": one ledger transaction over every claim held.              *)
(***************************************************************************)

ApplyBatch(p) ==
  /\ At(p, "apply")
  /\ ran' = RanAll(held[p])
  /\ Goto(p, "record")
  /\ UNCHANGED <<files, due, scope, lists, cur, snap, told>>

\* BatchError: rolled back, every claim goes back.
BatchRefused(p) ==
  /\ At(p, "apply")
  /\ Goto(p, "release")
  /\ UNCHANGED <<files, world, scope, lists, cur, snap, told>>

\* Variant: claims go back although the transaction may have committed.
BatchReopened(p) ==
  /\ At(p, "apply")
  /\ ran' = ran \/ ran' = RanAll(held[p])
  /\ Goto(p, "release")
  /\ UNCHANGED <<files, due, scope, lists, cur, snap, told>>

\* Any other exception: it is not known whether the transaction committed.
BatchUnknown(p) ==
  /\ At(p, "apply")
  /\ ran' = ran \/ ran' = RanAll(held[p])
  /\ Goto(p, "fail")
  /\ UNCHANGED <<files, due, scope, lists, cur, snap, told>>

SettleBatch(p, a) ==
  /\ At(p, "record") \/ At(p, "fail")
  /\ a \in held[p]
  /\ LET o == IF At(p, "record") THEN "executed" ELSE "failed"
     IN /\ Resolve(p, a, o)
        /\ \/ /\ held[p] = {a}
              /\ Answered(p, a, o)
           \/ /\ held[p] # {a}
              /\ held' = [held EXCEPT ![p] = @ \ {a}]
              /\ UNCHANGED <<scope, todo, work, pc, cur, snap, told>>
  /\ UNCHANGED world

\* PendingStore.release_claim, first half: the claim file is removed...
Unlink(p, a) ==
  /\ At(p, "release")
  /\ a \in held[p]
  /\ claim' = [claim EXCEPT ![a] = FALSE]
  /\ held' = [held EXCEPT ![p] = @ \ {a}]
  /\ cur' = [cur EXCEPT ![p] = a]
  /\ Goto(p, "reopen")
  /\ UNCHANGED <<rec, world, scope, todo, work, snap, told>>

\* ...second half: the copy read when it was claimed is written back.
Reopen(p) ==
  /\ At(p, "reopen")
  /\ rec' = [rec EXCEPT ![cur[p]] = Owned(snap[p][cur[p]], None)]
  /\ \/ /\ held[p] = {}
        /\ Answered(p, cur[p], "not_applied")
     \/ /\ held[p] # {}
        /\ Goto(p, "release")
        /\ UNCHANGED <<scope, lists, cur, snap, told>>
  /\ UNCHANGED <<claim, world>>

-----------------------------------------------------------------------------

\* What a started request does by itself.
Step(p) ==
  \/ \E a \in Actions : \/ ScanRead(p, a) \/ LookOpen(p, a) \/ LookClosed(p, a) \/ Refuse(p, a)
                        \/ Claim(p, a) \/ ClaimLost(p, a) \/ SaveEdited(p, a)
                        \/ SettleBatch(p, a) \/ Unlink(p, a)
  \/ ScanWrite(p) \/ Swept(p) \/ AnswerLost(p) \/ ReadClaimed(p) \/ Stamp(p)
  \/ SaveConfirmation(p) \/ Drift(p) \/ RunTool(p) \/ ToolRaises(p)
  \/ RecordExecuted(p) \/ AuditRaises(p) \/ RecordFailed(p) \/ Answer(p)
  \/ Settle(p) \/ SettleEdited(p)
  \/ ApplyBatch(p) \/ BatchRefused(p) \/ BatchUnknown(p) \/ Reopen(p)

Next ==
  \/ \E a \in Actions : Propose(a) \/ PassTime(a)
  \/ \E p \in Requests :
       \/ \E r \in RouteNames, T \in SUBSET Actions : Begin(p, r, T)
       \/ Step(p)
       \/ Crash(p)

Spec == Init /\ [][Next]_vars

\* A route runs to its end: every step is a file operation, and a confirmed
\* call returns or raises (delegations carry a timeout).
Fairness == \A p \in Requests : WF_vars(Step(p))
FairSpec == Spec /\ Fairness

-----------------------------------------------------------------------------

\* Every variable has the shape the code gives it.
TypeOK ==
  /\ rec \in [Actions -> Record]
  /\ claim \in [Actions -> BOOLEAN]
  /\ due \subseteq Actions
  /\ ran \in [Actions -> Nat]
  /\ route \in [Requests -> RouteNames]
  /\ pc \in [Requests -> Steps]
  /\ late \in [Requests -> SUBSET Actions]
  /\ todo \in [Requests -> SUBSET Actions]
  /\ work \in [Requests -> SUBSET Actions]
  /\ held \in [Requests -> SUBSET Actions]
  /\ cur \in [Requests -> Actions \cup {None}]
  /\ snap \in [Requests -> [Actions -> Record]]
  /\ told \in [Requests -> Answers]

\* A confirmed call runs at most once, whatever routes, workers and crashes
\* meet on its card (FR-030: "exactly one caller").
AtMostOnce == \A a \in Actions : ran[a] <= 1

\* Two requests never hold the claim of one action, and a claim that is held
\* has its file: the one claim site serves every route.
ClaimExclusive ==
  /\ \A p, q \in Requests : p # q => held[p] \cap held[q] = {}
  /\ \A p \in Requests : \A a \in held[p] : claim[a]

\* A claim is given back only for a card that did not run: reopening one that
\* may have been written would write it twice (apply_all, #122).
GivenBackUnrun == [][\A a \in Actions : claim[a] /\ ~claim'[a] => ran[a] = 0]_vars

\* "I have not done it" stays true where a claim was taken to say it: an action recorded
\* declined, superseded or drifted, or one whose request answered so, did not run and never
\* runs.  The answer of a deleted chat that lost the claim ("chat_deleted") is not among
\* them: the code gives it of a call that may be running or done.
RefusalIsKept ==
  /\ \A a \in Actions : rec[a].outcome \in Refusals => ran[a] = 0
  /\ \A p \in Requests : At(p, "done") /\ told[p] \in Refusals => ran[cur[p]] = 0

\* A claimed action is eventually resolved for good, whatever the expiry sweeps
\* write meanwhile: one that is claimed and open can never be confirmed, and says
\* nothing (confirm_flow.py: "A CLAIMED ACTION MUST NEVER BE LEFT UNRESOLVED").
ClaimedIsSettled ==
  \A a \in Actions : claim[a] ~> [](rec[a].outcome \notin {"absent", "open"})

(***************************************************************************)
(* The inductive invariant behind AtMostOnce and RefusalIsKept: which step *)
(* a request is at tells what it holds, and what became of an action tells *)
(* at which steps its claim may still be held.                             *)
(***************************************************************************)
Working == {"linked", "stamp", "confirmed", "run", "ran", "audit", "answer", "raised", "edit", "settle"}
EmptyHanded == {"idle", "scan", "expire", "look", "done", "dead"}
AfterRun == {"ran", "audit", "raised", "record", "fail"}

HandsInv ==
  \A p \in Requests :
    /\ pc[p] \in Working => cur[p] \in held[p]
    /\ pc[p] \in EmptyHanded => held[p] = {}
    /\ pc[p] \in {"expire", "lost", "reopen"} => cur[p] \in Actions

\* An action that ran keeps its claim file, and its holder is past the run.
RanInv ==
  \A a \in Actions :
    ran[a] # 0 => /\ ran[a] = 1
                  /\ claim[a]
                  /\ \A p \in Requests : a \in held[p] => pc[p] \in AfterRun

\* An action that did not run and never will: claimed, and held by nobody who
\* could still run it or give it back.
Sealed(a) ==
  /\ ran[a] = 0
  /\ claim[a]
  /\ \A p \in Requests : a \in held[p] => pc[p] = "answer"

RefusedInv ==
  /\ \A p \in Requests, a \in Actions : snap[p][a].outcome \notin Refusals
  /\ \A a \in Actions : rec[a].outcome \in Refusals => Sealed(a)
  /\ \A p \in Requests : pc[p] = "done" /\ told[p] \in Refusals => cur[p] \in Actions /\ Sealed(cur[p])

IInv == TypeOK /\ ClaimExclusive /\ HandsInv /\ RanInv /\ RefusedInv

\* EXPIRED tells the person the call was not done (limits.py, "so I did NOT do it").
ExpiredNeverRan == \A a \in Actions : rec[a].outcome = "expired" => ran[a] = 0

\* "Done." is answered only for a call that ran.
DoneIsDone ==
  \A p \in Requests : At(p, "done") /\ told[p] = "executed" => ran[cur[p]] = 1

(***************************************************************************)
(* The inductive invariant behind DoneIsDone and ImplementsContract, where *)
(* nothing expires, no audit line fails and no group is applied: a request *)
(* holds one claim at most, and the record it works on, and its own copy   *)
(* of it, are open until it records what became of it.                     *)
(***************************************************************************)
Unsettled == {"linked", "stamp", "confirmed", "run", "ran", "raised", "edit", "settle"}

OneCardInv ==
  \A p \in Requests :
    /\ route[p] # "applyAll"
    /\ pc[p] \notin {"expire", "apply", "record", "fail", "release", "reopen"}
    /\ pc[p] = "scan" => todo[p] = {}
    /\ held[p] # {} => pc[p] \in Working /\ held[p] = {cur[p]}
    /\ todo[p] \cup work[p] \subseteq Existing

OpenInv ==
  /\ \A a \in Actions : rec[a].outcome = "absent" => ~claim[a]
  /\ \A a \in Actions : rec[a].outcome \notin {"absent", "open"} => claim[a]
  /\ \A p \in Requests :
       /\ pc[p] \in Unsettled => rec[cur[p]].outcome = "open"
       /\ pc[p] \in Unsettled \ {"linked"} => snap[p][cur[p]].outcome = "open"

EndInv ==
  \A p \in Requests :
    /\ pc[p] \in {"ran", "audit"} => ran[cur[p]] = 1
    /\ pc[p] = "audit" => rec[cur[p]].outcome = "executed"
    /\ pc[p] = "answer" => rec[cur[p]].outcome = "drifted"
    /\ pc[p] = "done" /\ told[p] = "executed" => cur[p] \in Actions /\ ran[cur[p]] = 1

CInv == IInv /\ due = {} /\ OneCardInv /\ OpenInv /\ EndInv

(***************************************************************************)
(* What the flow promises of one action, see ConfirmContract.              *)
(***************************************************************************)
Contract == INSTANCE ConfirmContract WITH outcome <- [a \in Actions |-> rec[a].outcome]
ImplementsContract == Contract!Spec

=============================================================================
