--------------------------- MODULE HistoryThreads ---------------------------
(***************************************************************************)
(* The chats in which the automations run, and how their content goes: a   *)
(* ledger of those chats, "Delete run history", which deletes them whole,  *)
(* and the sweep at startup and after each purge, which finishes deletes   *)
(* that failed, trims a chat a person wrote in lately and deletes the      *)
(* others once their content is past the retention.                        *)
(*                                                                         *)
(* Firings, deletes and sweeps of all workers exclude each other by the    *)
(* firing lock; a person's run in such a chat holds no lock.  Nor does the *)
(* coroutine of a step that took longer than STEP_TIMEOUT: the step is     *)
(* recorded as failed and the lock goes on to others, while it goes on to  *)
(* delete or to trim.  A tick of the clock is one retention period, and no *)
(* holder of the lock spans one.                                           *)
(***************************************************************************)
EXTENDS Naturals, Sequences

CONSTANTS Rules,
          MaxThreads,   \* bound: chats the engine ever creates
          MaxTime,      \* bound: retention periods
          MaxFirings,   \* bound: firings of the engine
          MaxTalks,     \* bound: a person's runs
          MaxFailures   \* bound: steps that fail, and crashes

ASSUME HistoryConstants == MaxThreads \in Nat /\ MaxTime \in Nat

Threads == 1 .. MaxThreads
NoThread == 0

\* A message: who wrote it, and when.
Messages == {"engine", "person"} \X (0 .. MaxTime)
Stores == {"files", "traces", "record"}
Overruns == 1 .. MaxFailures

VARIABLES
  period,   \* the clock
  map,      \* threads.json: the chat of each rule
  chats,     \* chats created so far
  ledger,   \* automation_threads
  stored,   \* the stored runs that name a chat: the chat and the time
  pages,    \* the checkpoints of each chat, oldest first, also those that are gone
  stores,   \* where else the chat has content
  talk,     \* a person's run: what it has in memory, and whether this worker runs it
  job,      \* who holds the firing lock, and where it is
  stray,    \* steps that took too long and go on, with nobody waiting for them
  spent     \* bounds: firings, talks and failures so far

historyVars == <<period, map, chats, ledger, stored, pages, stores, talk, job, stray, spent>>

NoRow == [in |-> FALSE, seen |-> 0, pending |-> FALSE, reason |-> "none", trim |-> FALSE]
Row == [NoRow EXCEPT !.in = TRUE, !.seen = period]
Silent == [on |-> FALSE, here |-> FALSE, msgs |-> {}]
Free == [by |-> "nobody", at |-> "free", rule |-> NoThread, cur |-> NoThread, whole |-> {}, check |-> {},
         old |-> {}, due |-> {}, copy |-> <<>>, saw |-> {}]
NoStray == [chat |-> NoThread, at |-> "none", cut |-> 0, old |-> {}, due |-> {}, copy |-> <<>>]
NoPage == [at |-> 0, msgs |-> {}, there |-> FALSE]

HistoryInit ==
  /\ period = 0 /\ map = [r \in Rules |-> NoThread] /\ chats = 0
  /\ ledger = [t \in Threads |-> NoRow] /\ stored = {}
  /\ pages = [t \in Threads |-> <<>>] /\ stores = [t \in Threads |-> {}]
  /\ talk = [t \in Threads |-> Silent] /\ job = Free
  /\ stray = [k \in Overruns |-> NoStray]
  /\ spent = [firings |-> 0, talks |-> 0, failures |-> 0]

\* The place of the newest checkpoint there is.
Newest(seq) == {n \in 1 .. Len(seq) : seq[n].there /\ \A k \in n + 1 .. Len(seq) : ~seq[k].there}

Held(t) == UNION {pages[t][n].msgs : n \in 1 .. Len(pages[t])}
Latest(t) == UNION {pages[t][n].msgs : n \in Newest(pages[t])}

\* A message is as old as the first checkpoint that holds it.
OldAt(t, cut) == {m \in Held(t) : \E n \in 1 .. Len(pages[t]) : m \in pages[t][n].msgs /\ pages[t][n].at < cut}
Old(t) == OldAt(t, period)

Listed == {t \in Threads : ledger[t].in}
Mapped == {map[r] : r \in Rules} \ {NoThread}
Forgetting(ts) == map' = [r \in Rules |-> IF map[r] \in ts THEN NoThread ELSE map[r]]
Written(t, msgs) == pages' = [pages EXCEPT ![t] = Append(@, [at |-> period, msgs |-> msgs, there |-> TRUE])]
Cleared(t) == pages' = [pages EXCEPT ![t] = [n \in 1 .. Len(@) |-> NoPage]]
Counted(what) == spent' = [spent EXCEPT ![what] = @ + 1]
Step(at) == job' = [job EXCEPT !.at = at]

----------------------------------------------------------------------------
(* The engine's firings. *)

Fire(r) ==
  /\ job = Free /\ spent.firings < MaxFirings
  /\ map[r] = NoThread => chats < MaxThreads
  /\ job' = [Free EXCEPT !.by = "engine", !.rule = r, !.cur = map[r], !.at = IF map[r] = NoThread THEN "create" ELSE "turn"]
  /\ Counted("firings")
  /\ UNCHANGED <<period, map, chats, ledger, stored, pages, stores, talk, stray>>

CreateThread ==
  /\ job.at = "create"
  /\ chats' = chats + 1 /\ stores' = [stores EXCEPT ![chats + 1] = {"record"}]
  /\ job' = [job EXCEPT !.cur = chats + 1, !.at = "note"]
  /\ UNCHANGED <<period, map, ledger, stored, pages, talk, stray, spent>>

\* The ledger is told before the map points at the chat.
NoteThread ==
  /\ job.at = "note" /\ Step("map")
  /\ ledger' = [ledger EXCEPT ![job.cur] = IF @.in THEN @ ELSE Row]
  /\ UNCHANGED <<period, map, chats, stored, pages, stores, talk, stray, spent>>

MapThread ==
  /\ job.at = "map" /\ Step("turn")
  /\ map' = [map EXCEPT ![job.rule] = job.cur]
  /\ UNCHANGED <<period, chats, ledger, stored, pages, stores, talk, stray, spent>>

\* The turn, or none when it fails, as it does while a person's run goes on there.
TakesTurn ==
  /\ job.at = "turn" /\ Step("store")
  /\ \/ /\ ~talk[job.cur].on
        /\ Written(job.cur, Latest(job.cur) \cup {<<"engine", period>>})
        /\ stores' = [stores EXCEPT ![job.cur] = Stores]
     \/ UNCHANGED <<pages, stores>>
  /\ UNCHANGED <<period, map, chats, ledger, stored, talk, stray, spent>>

StoreRun ==
  /\ job.at = "store" /\ job' = Free
  /\ ledger' = [ledger EXCEPT ![job.cur] = IF @.in THEN @ ELSE Row]
  /\ stored' = stored \cup {<<job.cur, period>>}
  /\ UNCHANGED <<period, map, chats, pages, stores, talk, stray, spent>>

\* The rule has gone from the rules; its chat is forgotten, with no lock.
DropRule(r) ==
  /\ map[r] # NoThread /\ job.by # "engine"
  /\ map' = [map EXCEPT ![r] = NoThread]
  /\ UNCHANGED <<period, chats, ledger, stored, pages, stores, talk, job, stray, spent>>

----------------------------------------------------------------------------
(* A person in such a chat, and time. *)

Talk(t) == \E here \in BOOLEAN :
  /\ spent.talks < MaxTalks /\ ~talk[t].on /\ stores[t] # {} /\ (job.cur = t => job.by # "engine")
  /\ LET msgs == Latest(t) \cup {<<"person", period>>} IN
     talk' = [talk EXCEPT ![t] = [on |-> TRUE, here |-> here, msgs |-> msgs]] /\ Written(t, msgs)
  /\ stores' = [stores EXCEPT ![t] = Stores] /\ Counted("talks")
  /\ UNCHANGED <<period, map, chats, ledger, stored, job, stray>>

\* The run's last checkpoint holds the state it worked on.
TalkEnds(t) ==
  /\ talk[t].on /\ talk' = [talk EXCEPT ![t] = Silent]
  /\ Written(t, talk[t].msgs) /\ stores' = [stores EXCEPT ![t] = @ \cup {"traces"}]
  /\ UNCHANGED <<period, map, chats, ledger, stored, job, stray, spent>>

Tick ==
  /\ period < MaxTime /\ job = Free
  /\ period' = period + 1
  /\ UNCHANGED <<map, chats, ledger, stored, pages, stores, talk, job, stray, spent>>

\* first is the least of ts.
Least(first, ts) == first \in ts /\ \A t \in ts : first <= t

\* Stored runs past the retention go; the ledger keeps how old their chats are.
Purge ==
  LET past == {run \in stored : run[2] < period} IN
  /\ past # {}
  /\ stored' = stored \ past
  /\ \E first \in [Threads -> 0 .. MaxTime] :
       /\ \A t \in Threads : Least(first[t], {ledger[t].seen} \cup {run[2] : run \in {x \in past : x[1] = t}})
       /\ ledger' = [t \in Threads |-> [ledger[t] EXCEPT !.seen = first[t]]]
  /\ UNCHANGED <<period, map, chats, pages, stores, talk, job, stray, spent>>

----------------------------------------------------------------------------
(* "Delete run history", and the sweep. *)

\* _busy: the runs in progress this worker knows.
Busy == {t \in Threads : talk[t].on /\ talk[t].here}

\* Refused while one of the chats has a run in progress.  A chat the ledger does not know is
\* left and forgotten.
AskDelete ==
  LET noted == [t \in Threads |-> IF ~ledger[t].in /\ \E run \in stored : run[1] = t THEN Row ELSE ledger[t]]
      all == {t \in Threads : noted[t].in}
  IN
  /\ job = Free /\ all # {} /\ all \cap Busy = {}
  /\ ledger' = noted /\ Forgetting(Mapped \ all)
  /\ job' = [Free EXCEPT !.by = "person", !.at = "mark", !.whole = all]
  /\ UNCHANGED <<period, chats, stored, pages, stores, talk, stray, spent>>

\* The intent is written first: the sweep finishes what is interrupted.
MarkPending ==
  /\ job.at = "mark" /\ Step("pick")
  /\ ledger' = [t \in Threads |-> IF t \in job.whole /\ ledger[t].in
                                  THEN [ledger[t] EXCEPT !.pending = TRUE, !.reason = "explicit"] ELSE ledger[t]]
  /\ UNCHANGED <<period, map, chats, stored, pages, stores, talk, stray, spent>>

\* Mutant: a pending delete is finished whole, whoever asked.
AnyPending == {t \in Listed : ledger[t].pending}

ExplicitDeletes == {t \in Listed : ledger[t].pending /\ ledger[t].reason = "explicit"}

\* threads_past_retention.
Stale == {t \in Listed : ledger[t].seen < period \/ \E run \in stored : run[1] = t /\ run[2] < period}

\* Mutant: the chat of a rule that lives is left alone.
RotatesNone(t) == t \in Mapped

\* A chat a rule will still use, after those past the retention were forgotten.
InUse(t) == t \in Mapped \ Stale

\* Mutant: what was interrupted is left to its age.
NeverPending(t) == FALSE

Unfinished(t) == ledger[t].pending \/ ledger[t].trim

\* threads_to_sweep.
ToSweep == {t \in Listed : \/ Unfinished(t)
                           \/ ~InUse(t) /\ (t \in Stale \/ \A run \in stored : run[1] # t)}

Sweep ==
  LET ready == ToSweep \ Busy IN
  /\ job = Free /\ (ready # {} \/ Stale \cap Mapped # {})
  /\ Forgetting({t \in Mapped : ~InUse(t)})
  /\ job' = [Free EXCEPT !.by = "sweep", !.at = "pick", !.whole = ready \cap ExplicitDeletes,
               !.check = ready \ ExplicitDeletes,
               !.saw = {<<t, <<"person", period>>>> : t \in {x \in Threads : <<"person", period>> \in Held(x)}}]
  /\ UNCHANGED <<period, chats, ledger, stored, pages, stores, talk, stray, spent>>

Pick ==
  /\ job.at = "pick"
  /\ \/ \E t \in Threads : /\ Least(t, job.whole)
                           /\ job' = [job EXCEPT !.cur = t, !.whole = @ \ {t}, !.at = "files"]
     \/ \E t \in Threads : /\ job.whole = {} /\ Least(t, job.check)
                           /\ job' = [job EXCEPT !.cur = t, !.check = @ \ {t}, !.at = "read"]
     \/ /\ job.whole = {} /\ job.check = {}
        /\ job' = IF job.by = "person" THEN [job EXCEPT !.at = "runs"] ELSE Free
  /\ UNCHANGED <<period, map, chats, ledger, stored, pages, stores, talk, stray, spent>>

DeleteRuns ==
  /\ job.at = "runs" /\ job' = Free /\ stored' = {}
  /\ UNCHANGED <<period, map, chats, ledger, pages, stores, talk, stray, spent>>

----------------------------------------------------------------------------
(* trim_thread. *)

\* A person's message of the latest checkpoint is inside the window.
InWindow(t, cut) == \E m \in Latest(t) \ OldAt(t, cut) : m[1] = "person"

\* x has read every checkpoint, and will rewrite those with something old.
Reading(x, t, cut) ==
  LET old == OldAt(t, cut) IN
  [x EXCEPT !.at = "again", !.old = old, !.copy = pages[t],
            !.due = {n \in 1 .. Len(pages[t]) : pages[t][n].msgs \cap old # {}}]

\* The latest checkpoint is the one x has read.
Unchanged(x, t) == Newest(pages[t]) = Newest(x.copy)

\* The newest first.
Foremost(x, n) == n \in x.due /\ \A k \in x.due : k <= n

\* The checkpoint as x read it, without what is old: in place, or put back if it is gone.
Rewritten(x, t, n) ==
  pages' = [pages EXCEPT ![t][n] = [x.copy[n] EXCEPT !.msgs = @ \ x.old]]

Onward == job' = [job EXCEPT !.at = "pick", !.old = {}, !.due = {}, !.copy = <<>>]

TrimDone ==
  /\ ledger' = [ledger EXCEPT ![job.cur].trim = FALSE]
  /\ Forgetting({job.cur}) /\ Onward
  /\ UNCHANGED <<period, chats, stored, pages, stores, talk, stray, spent>>

\* Deleted whole when no person's message is inside the window.
ReadPages ==
  /\ job.at = "read"
  /\ IF ~InWindow(job.cur, period)
     THEN Step("files") /\ UNCHANGED <<period, map, chats, ledger, stored, pages, stores, talk, stray, spent>>
     ELSE IF Old(job.cur) = {} THEN TrimDone
     ELSE /\ job' = Reading(job, job.cur, period)
          /\ UNCHANGED <<period, map, chats, ledger, stored, pages, stores, talk, stray, spent>>

\* Written meanwhile: left to the next sweep.
LookAgain ==
  /\ job.at = "again"
  /\ IF ~Unchanged(job, job.cur) THEN TrimDone
     ELSE Step("rewrite") /\ UNCHANGED <<period, map, chats, ledger, stored, pages, stores, talk, stray, spent>>

RewritePage == \E n \in job.due :
  /\ job.at = "rewrite" /\ Foremost(job, n)
  /\ Rewritten(job, job.cur, n)
  /\ job' = [job EXCEPT !.due = @ \ {n}]
  /\ UNCHANGED <<period, map, chats, ledger, stored, stores, talk, stray, spent>>

AllRewritten == job.at = "rewrite" /\ job.due = {} /\ TrimDone

\* STEP_TIMEOUT ends the wait for a step, and not the step.
GoesOn ==
  stray' = [stray EXCEPT ![spent.failures + 1] =
              [chat |-> job.cur, at |-> job.at, cut |-> period, old |-> job.old, due |-> job.due, copy |-> job.copy]]

\* Also when there were too many to rewrite at once: tried again as a trim.
TrimFails ==
  /\ job.at \in {"read", "again", "rewrite"} /\ spent.failures < MaxFailures /\ Counted("failures")
  /\ ledger' = [ledger EXCEPT ![job.cur].trim = ledger[job.cur].in]
  /\ Onward /\ (UNCHANGED stray \/ GoesOn)
  /\ UNCHANGED <<period, map, chats, stored, pages, stores, talk>>

----------------------------------------------------------------------------
(* delete_thread_everywhere, and what the ledger is told. *)

DeleteFiles ==
  /\ job.at = "files" /\ Step("pages")
  /\ stores' = [stores EXCEPT ![job.cur] = @ \ {"files"}]
  /\ UNCHANGED <<period, map, chats, ledger, stored, pages, talk, stray, spent>>

DeletePages ==
  /\ job.at = "pages" /\ Step("traces")
  /\ Cleared(job.cur)
  /\ UNCHANGED <<period, map, chats, ledger, stored, stores, talk, stray, spent>>

DeleteTraces ==
  /\ job.at = "traces" /\ Step("record")
  /\ stores' = [stores EXCEPT ![job.cur] = @ \ {"traces"}]
  /\ UNCHANGED <<period, map, chats, ledger, stored, pages, talk, stray, spent>>

DeleteRecord ==
  /\ job.at = "record" /\ Step("recheck")
  /\ stores' = [stores EXCEPT ![job.cur] = @ \ {"record"}]
  /\ UNCHANGED <<period, map, chats, ledger, stored, pages, talk, stray, spent>>

\* thread_failed: an explicit delete stays one.
Failed ==
  /\ LET row == ledger[job.cur]
         why == IF row.reason # "none" THEN row.reason
                ELSE IF job.by = "person" THEN "explicit" ELSE "retention"
     IN ledger' = [ledger EXCEPT ![job.cur] = IF row.in THEN [row EXCEPT !.pending = TRUE, !.reason = why] ELSE row]
  /\ Step("pick")

DeleteFails ==
  /\ job.at \in {"files", "pages", "traces", "record", "recheck"}
  /\ spent.failures < MaxFailures /\ Counted("failures") /\ Failed
  /\ UNCHANGED stray \/ (job.at # "recheck" /\ GoesOn)
  /\ UNCHANGED <<period, map, chats, stored, pages, stores, talk>>

\* A run wrote meanwhile: not gone.
RecheckPages ==
  /\ job.at = "recheck"
  /\ IF Newest(pages[job.cur]) = {} THEN Step("gone") /\ UNCHANGED ledger ELSE Failed
  /\ UNCHANGED <<period, map, chats, stored, pages, stores, talk, stray, spent>>

ThreadGone ==
  /\ job.at = "gone" /\ Step("forget")
  /\ ledger' = [ledger EXCEPT ![job.cur] = NoRow]
  /\ UNCHANGED <<period, map, chats, stored, pages, stores, talk, stray, spent>>

ForgetThread ==
  /\ job.at = "forget" /\ Step("pick") /\ Forgetting({job.cur})
  /\ UNCHANGED <<period, chats, ledger, stored, pages, stores, talk, stray, spent>>

\* The process that holds the lock dies.
Dies ==
  /\ job # Free /\ spent.failures < MaxFailures /\ Counted("failures")
  /\ job' = Free
  /\ UNCHANGED <<period, map, chats, ledger, stored, pages, stores, talk, stray>>

----------------------------------------------------------------------------
(* What goes on after STEP_TIMEOUT, without the lock and with nobody waiting. *)

StrayAt(k, at) == stray' = [stray EXCEPT ![k].at = at]
StrayEnds(k) == stray' = [stray EXCEPT ![k] = NoStray]

StrayDeletes(k) ==
  /\ stray[k].at \in Stores
  /\ stores' = [stores EXCEPT ![stray[k].chat] = @ \ {stray[k].at}]
  /\ IF stray[k].at = "record" THEN StrayEnds(k) ELSE StrayAt(k, IF stray[k].at = "files" THEN "pages" ELSE "record")
  /\ UNCHANGED <<period, map, chats, ledger, stored, pages, talk, job, spent>>

\* What the sweep saw in the chat is gone from here on.
StrayClears(k) ==
  /\ stray[k].at = "pages" /\ StrayAt(k, "traces")
  /\ Cleared(stray[k].chat)
  /\ job' = [job EXCEPT !.saw = {s \in @ : s[1] # stray[k].chat}]
  /\ UNCHANGED <<period, map, chats, ledger, stored, stores, talk, spent>>

\* Nobody is told that the chat could be deleted whole.
StrayReads(k) ==
  /\ stray[k].at = "read"
  /\ IF InWindow(stray[k].chat, stray[k].cut) /\ OldAt(stray[k].chat, stray[k].cut) # {}
     THEN stray' = [stray EXCEPT ![k] = Reading(stray[k], stray[k].chat, stray[k].cut)] ELSE StrayEnds(k)
  /\ UNCHANGED <<period, map, chats, ledger, stored, pages, stores, talk, job, spent>>

StrayLooks(k) ==
  /\ stray[k].at = "again"
  /\ IF Unchanged(stray[k], stray[k].chat) THEN StrayAt(k, "rewrite") ELSE StrayEnds(k)
  /\ UNCHANGED <<period, map, chats, ledger, stored, pages, stores, talk, job, spent>>

StrayRewrites(k) == \E n \in stray[k].due :
  /\ stray[k].at = "rewrite" /\ Foremost(stray[k], n)
  /\ Rewritten(stray[k], stray[k].chat, n)
  /\ IF stray[k].due = {n} THEN StrayEnds(k) ELSE stray' = [stray EXCEPT ![k].due = @ \ {n}]
  /\ UNCHANGED <<period, map, chats, ledger, stored, stores, talk, job, spent>>

----------------------------------------------------------------------------
JobStep ==
  \/ CreateThread \/ NoteThread \/ MapThread \/ TakesTurn \/ StoreRun
  \/ MarkPending \/ Pick \/ DeleteRuns
  \/ ReadPages \/ LookAgain \/ RewritePage \/ AllRewritten
  \/ DeleteFiles \/ DeletePages \/ DeleteTraces \/ DeleteRecord \/ RecheckPages \/ ThreadGone \/ ForgetThread

HistoryNext ==
  \/ JobStep \/ AskDelete \/ Sweep \/ TrimFails \/ DeleteFails \/ Dies \/ Purge \/ Tick
  \/ \E r \in Rules : Fire(r) \/ DropRule(r)
  \/ \E t \in Threads : Talk(t) \/ TalkEnds(t)
  \/ \E k \in Overruns : StrayDeletes(k) \/ StrayClears(k) \/ StrayReads(k) \/ StrayLooks(k) \/ StrayRewrites(k)

\* The purge and the sweep run at startup and every hour; who holds the lock gets on; a run ends.
HistoryFairness ==
  /\ WF_historyVars(JobStep) /\ WF_historyVars(Sweep) /\ WF_historyVars(Purge)
  /\ \A t \in Threads : WF_historyVars(TalkEnds(t))

HistorySpec == HistoryInit /\ [][HistoryNext]_historyVars

----------------------------------------------------------------------------
(* What deleting promises. *)

Page == [at : 0 .. MaxTime, msgs : SUBSET Messages, there : BOOLEAN]
LedgerRow == [in : BOOLEAN, seen : 0 .. MaxTime, pending : BOOLEAN, trim : BOOLEAN,
              reason : {"none", "explicit", "retention"}]

\* The steps of a holder of the lock that are about the chat job.cur.
ThreadSteps == {"read", "again", "rewrite", "files", "pages", "traces", "record", "recheck", "gone", "forget"}
Job == [by : {"nobody", "engine", "person", "sweep"},
        at : {"free", "create", "note", "map", "turn", "store", "mark", "pick", "runs"} \cup ThreadSteps,
        rule : Rules \cup {NoThread}, cur : Threads \cup {NoThread},
        whole : SUBSET Threads, check : SUBSET Threads,
        old : SUBSET Messages, due : SUBSET Nat, copy : Seq(Page), saw : SUBSET (Threads \X Messages)]
Stray == [chat : Threads \cup {NoThread}, at : {"none", "read", "again", "rewrite", "files", "pages", "traces", "record"},
          cut : 0 .. MaxTime, old : SUBSET Messages, due : SUBSET Nat, copy : Seq(Page)]

HistoryTypeOK ==
  /\ period \in 0 .. MaxTime /\ chats \in 0 .. MaxThreads
  /\ map \in [Rules -> Threads \cup {NoThread}]
  /\ ledger \in [Threads -> LedgerRow]
  /\ stored \subseteq Threads \X (0 .. MaxTime)
  /\ pages \in [Threads -> Seq(Page)]
  /\ stores \in [Threads -> SUBSET Stores]
  /\ talk \in [Threads -> [on : BOOLEAN, here : BOOLEAN, msgs : SUBSET Messages]]
  /\ job \in Job
  /\ stray \in [Overruns -> Stray]

Asked(t) == ledger[t].in /\ ledger[t].reason = "explicit"

\* A delete that went on comes to the checkpoints of t.
OverrunClears(t) == \E k \in Overruns : stray[k].chat = t /\ StrayClears(k)

\* What a person wrote inside the retention, and the sweep could see, goes only with a chat
\* whose deletion was asked for: no trim or retention delete that failed becomes a delete
\* (store.py, trim_failed: "a failed trim can never become a delete"), and no trim that went
\* on after STEP_TIMEOUT costs a message.  A delete that went on does: it takes what was written
\* meanwhile, and that step is excepted.
PersonKept ==
  [][\A t \in Threads : \A m \in Held(t) :
       <<t, m>> \in job.saw /\ m \notin UNION {pages'[t][n].msgs : n \in 1 .. Len(pages'[t])}
         => Asked(t) \/ OverrunClears(t)]_historyVars

(***************************************************************************)
(* The inductive invariant behind PersonKept.                              *)
(***************************************************************************)
Trims == {"again", "rewrite"}
Recent == <<"person", period>>

\* The checkpoints of t, and those that trims of t have read.
Versions(t) ==
  {pages[t]} \cup (IF job.at \in Trims /\ job.cur = t THEN {job.copy} ELSE {})
             \cup {stray[k].copy : k \in {k \in Overruns : stray[k].at \in Trims /\ stray[k].chat = t}}

\* Nothing is from the future, nor from after the checkpoint that holds it, and one that is
\* gone holds nothing.
Aged(p) == p.at <= period /\ (\A m \in p.msgs : m[2] <= p.at) /\ (p.msgs # {} => p.there)
AgesInv ==
  \A t \in Threads :
    /\ \A q \in Versions(t) : Len(q) <= Len(pages[t]) /\ \A n \in 1 .. Len(q) : Aged(q[n])
    /\ \A m \in talk[t].msgs : m[2] <= period

\* What a person wrote in this period is in every checkpoint after the first that has it, in
\* whatever order trims put them back, and in a run that goes on.
RecentInv ==
  \A t \in Threads : \A p \in Versions(t) : \A i \in 1 .. Len(p) : Recent \in p[i].msgs =>
    /\ \A q \in Versions(t) : \A j \in i .. Len(q) : q[j].there => Recent \in q[j].msgs
    /\ talk[t].on => Recent \in talk[t].msgs

\* So it is in the latest.
NowInv == \A t \in Threads : Recent \in Held(t) => Recent \in Latest(t)

\* A trim writes places it has read, and removes what is of an earlier period.
Cuts(x) ==
  x.at \in Trims => /\ \A n \in x.due : n \in 1 .. Len(x.copy) /\ x.copy[n].there
                    /\ \A m \in x.old : m[2] < period
CutInv ==
  /\ Cuts(job)
  /\ \A k \in Overruns : /\ Cuts(stray[k]) /\ stray[k].cut <= period
                         /\ stray[k].at # "none" => stray[k].chat \in Threads

\* A chat is taken once, and a firing has one.
TakenInv ==
  /\ job.at \in ThreadSteps => job.cur \in Threads \ (job.whole \cup job.check)
  /\ job.whole \cap job.check = {}
  /\ job.at = "create" => chats < MaxThreads
  /\ job.at \in {"note", "map", "turn", "store"} => job.cur \in Threads

\* What is not in the ledger has nothing pending there, and is not deleted as asked for.
RowsInv ==
  /\ \A t \in Threads : /\ Unfinished(t) => ledger[t].in
                        /\ Asked(t) => ledger[t].pending
  /\ job.at = "mark" => job.whole \subseteq Listed
  /\ job.at # "mark" => \A t \in job.whole : Asked(t)

\* What has not been created is nowhere.
Trimmed(t) == \E k \in Overruns : stray[k].at \in {"read"} \cup Trims /\ stray[k].chat = t
CreatedInv ==
  /\ \A t \in Threads : Trimmed(t) \/ ledger[t].in \/ t \in Mapped \cup job.check => t <= chats
  /\ \A run \in stored : run[1] <= chats
  /\ job.at \in ThreadSteps \cup {"note", "map", "turn", "store"} => job.cur <= chats

\* No rule fires in a chat that is trimmed, nor in one whose delete has to be retried unless
\* that was asked for: the engine forgets it first.
ForgottenInv ==
  /\ \A t \in Mapped : ~Trimmed(t) /\ (Unfinished(t) => Asked(t)) /\ t \notin job.check
  /\ job.at \in {"read"} \cup Trims => job.cur \notin Mapped
  /\ job.at \in {"files", "pages", "traces", "record", "recheck"} => job.cur \notin Mapped \/ Asked(job.cur)
  /\ job.at \in {"note", "map", "turn"} => ~Trimmed(job.cur)
  /\ job.at \in {"note", "map"} => ~Unfinished(job.cur) /\ job.cur \notin job.check

\* What the sweep saw is there until its chat's turn, and then stops a delete that
\* nobody asked for.
SawInv ==
  \A s \in job.saw :
    /\ s[2] = Recent
    /\ s[1] \in job.check \/ (s[1] = job.cur /\ job.at = "read") => s[2] \in Held(s[1])
    /\ s[1] = job.cur /\ job.at \in {"files", "pages"} => Asked(s[1])

ChatsInv ==
  /\ HistoryTypeOK /\ AgesInv /\ RecentInv /\ NowInv /\ CutInv /\ TakenInv
  /\ RowsInv /\ CreatedInv /\ ForgottenInv /\ SawInv

\* A chat whose deletion was asked for is deleted, over failures, crashes and runs a person
\* starts in it meanwhile (delete.py: "a failed delete is retried").
AskedIsGone == \A t \in Threads : Asked(t) ~> ~ledger[t].in

\* What is past the retention in a chat the ledger has known that long goes, also while its
\* rule lives and a person writes in it (delete.py: "RETENTION COVERS LIVE RULES' THREADS TOO").
RetentionHolds ==
  \A t \in Threads : t \in Stale /\ Old(t) # {} ~> (~ledger[t].in \/ Old(t) = {})

=============================================================================
