---------------------------- MODULE TriggerEngine ----------------------------
(***************************************************************************)
(* The trigger engine (app/trigger_engine): from an event a rule's source  *)
(* produces to the message a person gets, or the reason recorded why not.  *)
(*                                                                         *)
(* One elected gateway worker runs the engine's loop.  All blocking work   *)
(* is done by ONE thread of that worker, a rule at a time; the loop on the *)
(* event loop only waits for it, with a bound per rule.  A cycle evaluates *)
(* every rule, then releases what politeness held back.                    *)
(*                                                                         *)
(* The stores are JSON files cached in memory: read once, written whole.   *)
(* Queues behind quiet hours and in the coalescing window are on disk, the *)
(* queue behind an exchange is in memory only.                             *)
(***************************************************************************)
EXTENDS Naturals, Sequences, FiniteSets

CONSTANTS Workers,      \* gateway processes
          Rules,        \* enabled rules, as numbers in the order of the rule file
          Instants,     \* instants of the cron rules, as numbers in order of time
          Questions,    \* what watched sessions may wait for: events of watcher rules
          RuleOf,       \* the rule of each event
          Dest,         \* the destination each rule declares
          Urgent,       \* rules that override quiet hours
          MaxAttempts,  \* tries an event gets before it is settled as failed
          BackoffAfter, \* consecutive failures after which a rule is muted
          MaxFirings,   \* bound: how often each event fires
          MaxFaults,    \* bound: deaths, stops, timeouts and raising sources
          None

Events == Instants \cup Questions
\* A firing is an event and the number of times it has fired.
Firings == UNION {{e} \X (1 .. MaxFirings[e]) : e \in Events}

ASSUME EngineConstants ==
  /\ Rules \subseteq Nat /\ Rules # {} /\ Instants \subseteq Nat
  /\ Instants \cap Questions = {}
  /\ RuleOf \in [Events -> Rules]
  /\ Urgent \subseteq Rules
  /\ MaxAttempts \in Nat \ {0} /\ BackoffAfter \in Nat \ {0}
  /\ MaxFirings \in [Events -> Nat] /\ MaxFaults \in Nat
  /\ None \notin Workers \cup Rules \cup Events

VARIABLES
  \* the world
  due,     \* instants whose time has come
  old,     \* instants the one-day look-back no longer reaches
  faults,
  \* the disk
  leader,  \* who holds the single-runner lock
  firing,  \* who holds the firing lock
  disk,    \* fingerprints, fired instants, and the two queues that are kept
  closed,  \* firings whose last audit line is their end: delivered, failed or expired
  \* each worker
  up,      \* its process
  loop,    \* its loop and its thread
  mem,     \* its copies of the stores, and what it has in memory only
  \* history
  runs,    \* how often each event was fingerprinted after a run
  sent,    \* the destinations each firing was delivered to
  lost     \* firings that were only in the memory of a process that ended

world == <<due, old>>
stores == <<leader, firing, disk, closed>>
history == <<runs, sent, lost>>
vars == <<world, faults, stores, up, loop, mem, history>>

Last(e) == <<e, runs[e]>>
MaxOf(S) == {i \in S : \A j \in S : j <= i}

Asleep == [phase |-> "asleep", todo |-> {}, awaited |-> {}, rule |-> None, at |-> "free",
           batch |-> {}, event |-> None, settled |-> {}, quiet |-> FALSE, out |-> <<>>]

Blank == [prints |-> {}, marked |-> {}, deferred |-> {}, window |-> {}]
Forgotten == [prints |-> None, marked |-> None, deferred |-> {}, window |-> {}, hold |-> {},
              ripe |-> {}, tries |-> [e \in Events |-> 0], since |-> None,
              fails |-> [r \in Rules |-> 0], muted |-> {}]

Init ==
  /\ due = {} /\ old = {} /\ faults = 0
  /\ leader = None /\ firing = None
  /\ disk = Blank
  /\ closed = {}
  /\ up = [w \in Workers |-> "down"]
  /\ loop = [w \in Workers |-> Asleep]
  /\ mem = [w \in Workers |-> Forgotten]
  /\ runs = [e \in Events |-> 0]
  /\ sent = [f \in Firings |-> <<>>]
  /\ lost = {}

Audited(fs) == closed' = closed \cup fs
Fault == faults < MaxFaults /\ faults' = faults + 1
Steps(w) == up[w] \in {"leading", "leaving"}

----------------------------------------------------------------------------
(* The processes. *)

\* Mutant: the queues a dead worker left on disk are not adopted.
StartAfresh(w) ==
  /\ up[w] = "down" /\ leader = None
  /\ leader' = w /\ up' = [up EXCEPT ![w] = "leading"]
  /\ mem' = [mem EXCEPT ![w] = Forgotten]
  /\ loop' = [loop EXCEPT ![w] = Asleep]
  /\ UNCHANGED <<world, faults, firing, disk, closed, history>>

\* A worker starts.  The election is tried once: who loses it serves without an engine.
Start(w) ==
  /\ up[w] = "down"
  /\ IF leader = None
     THEN /\ leader' = w /\ up' = [up EXCEPT ![w] = "leading"]
          /\ mem' = [mem EXCEPT ![w] = [Forgotten EXCEPT !.deferred = disk.deferred,
                                                         !.window = disk.window]]
     ELSE /\ up' = [up EXCEPT ![w] = "serving"]
          /\ UNCHANGED <<leader, mem>>
  /\ loop' = [loop EXCEPT ![w] = Asleep]
  /\ UNCHANGED <<world, faults, firing, disk, closed, history>>

\* The firings of batches on their way out.
Sending(out) == UNION {out[i].firings : i \in DOMAIN out}

\* Firings that exist only in the memory of w: held, drained, or not routed yet.
InHand(w) ==
  mem[w].hold \cup Sending(loop[w].out)
  \cup (IF loop[w].at = "route" THEN {Last(loop[w].event)} ELSE {})

Ended(w) ==
  /\ up' = [up EXCEPT ![w] = "down"]
  /\ lost' = lost \cup (InHand(w) \ closed)
  /\ loop' = [loop EXCEPT ![w] = Asleep]
  /\ mem' = [mem EXCEPT ![w] = Forgotten]
  /\ leader' = IF leader = w THEN None ELSE leader
  /\ firing' = IF firing = w THEN None ELSE firing
  /\ UNCHANGED <<world, disk, closed, runs, sent>>

Crash(w) == up[w] # "down" /\ Fault /\ Ended(w)

\* Shutdown: the loop ends between cycles within five seconds ...
StopClean(w) == up[w] = "leading" /\ loop[w].phase = "asleep" /\ Fault /\ Ended(w)

\* ... or is cancelled and the lock released, while the thread finishes what it is at.
StopLate(w) ==
  /\ up[w] = "leading" /\ loop[w].phase # "asleep" /\ Fault
  /\ up' = [up EXCEPT ![w] = "leaving"]
  /\ leader' = None
  /\ loop' = [loop EXCEPT ![w] = IF loop[w].at = "free" THEN Asleep
                                 ELSE [loop[w] EXCEPT !.todo = {}, !.awaited = {}]]
  /\ UNCHANGED <<world, firing, disk, closed, mem, history>>

Exit(w) == up[w] = "leaving" /\ loop[w].phase = "asleep" /\ Ended(w) /\ UNCHANGED faults

----------------------------------------------------------------------------
(* A cycle: the rules are submitted to the thread and awaited, each with a bound. *)

\* The clock is read here, once: what is due, too old, muted, in quiet hours, or waiting
\* beyond its bound is decided for the time the cycle began.
TimePasses ==
  /\ due' \in {S \in SUBSET Instants : due \subseteq S /\ \A i \in S, j \in Instants : j < i => j \in S}
  /\ old' \in {S \in SUBSET due' : old \subseteq S /\ \A i \in S, j \in due' : j < i => j \in S}

CycleAt(w, quiet, ripe) == \E muted \in SUBSET mem[w].muted :
  /\ up[w] = "leading" /\ loop[w].phase = "asleep"
  /\ TimePasses
  /\ loop' = [loop EXCEPT ![w] = [Asleep EXCEPT !.phase = "evaluate", !.todo = Rules \ muted,
                                                !.awaited = Rules \ muted, !.quiet = quiet]]
  /\ mem' = [mem EXCEPT ![w].prints = IF @ = None THEN disk.prints ELSE @,
                        ![w].marked = IF @ = None THEN disk.marked ELSE @,
                        ![w].muted = muted, ![w].ripe = ripe]
  /\ UNCHANGED <<faults, stores, up, history>>

BeginCycle(w) ==
  \E quiet \in BOOLEAN, ripe \in SUBSET (mem[w].hold \cup mem[w].window) : CycleAt(w, quiet, ripe)

\* Mutant: only instants that fired themselves are passed over, not those before them.
CatchUpSkipped(w, r) == MaxOf({i \in (due \ old) \ mem[w].marked : RuleOf[i] = r})

\* The newest instant in the look-back that is not behind the newest one fired.
CatchUp(w, r) ==
  MaxOf({i \in due \ old : RuleOf[i] = r
                           /\ \A m \in mem[w].marked : RuleOf[m] = r => i > m})

\* A source that is unavailable produces nothing.  Events of one poll differ, so those seen
\* are known when it ends.
Polled(w, r) == {CatchUp(w, r), {}} \cup SUBSET {q \in Questions : RuleOf[q] = r}

StartRule(w) == \E r \in loop[w].todo :
  /\ loop[w].at = "free"
  /\ \A s \in loop[w].todo : r <= s
  /\ \E batch \in Polled(w, r) :
       loop' = [loop EXCEPT ![w].todo = @ \ {r}, ![w].rule = r, ![w].at = "next",
                            ![w].batch = batch \ mem[w].prints, ![w].settled = {}]
  /\ UNCHANGED <<world, faults, stores, up, mem, history>>

Failed(w, r) ==
  LET n == mem[w].fails[r] + 1 IN
  IF n >= BackoffAfter
  THEN mem' = [mem EXCEPT ![w].fails[r] = BackoffAfter, ![w].muted = @ \cup {r}]
  ELSE mem' = [mem EXCEPT ![w].fails[r] = n]

\* The source raises something else: the rule fails.
RuleRaises(w) == \E r \in loop[w].todo :
  /\ loop[w].at = "free" /\ Fault
  /\ \A s \in loop[w].todo : r <= s
  /\ Failed(w, r)
  /\ loop' = [loop EXCEPT ![w].todo = @ \ {r}, ![w].awaited = @ \ {r}]
  /\ UNCHANGED <<world, stores, up, history>>

\* wait_for ends the waiting, not the thread: a rule that has not begun never begins.
Timeout(w) == \E r \in loop[w].awaited :
  /\ Fault /\ Failed(w, r)
  /\ loop' = [loop EXCEPT ![w].awaited = @ \ {r}, ![w].todo = @ \ {r}]
  /\ UNCHANGED <<world, stores, up, history>>

----------------------------------------------------------------------------
(* run_blocking: one rule's events, on the thread. *)

AtNext(w) == Steps(w) /\ loop[w].at = "next"

\* The firing lock is held across resolving the thread, the turn and its record.
TakeTurn(w) == \E e \in loop[w].batch :
  /\ AtNext(w)
  /\ runs[e] < MaxFirings[e]
  /\ firing = None /\ firing' = w
  /\ loop' = [loop EXCEPT ![w].batch = @ \ {e}, ![w].event = e, ![w].at = "turn"]
  /\ UNCHANGED <<world, faults, leader, disk, closed, up, mem, history>>

\* Mutant: the fingerprint is kept in memory only.
RememberHere(w, e) ==
  /\ mem' = [mem EXCEPT ![w].prints = @ \cup {e}]
  /\ UNCHANGED disk
  /\ runs' = [runs EXCEPT ![e] = @ + 1]

\* FingerprintStore.record writes this worker's whole copy.
Remember(w, e) ==
  /\ mem' = [mem EXCEPT ![w].prints = @ \cup {e}]
  /\ disk' = [disk EXCEPT !.prints = mem[w].prints \cup {e}]
  /\ runs' = [runs EXCEPT ![e] = @ + 1]

\* The rule's agent is gone: settled at once.
AgentMissing(w) == \E e \in loop[w].batch :
  /\ AtNext(w) /\ runs[e] < MaxFirings[e]
  /\ Remember(w, e)
  /\ Audited({<<e, runs[e] + 1>>})
  /\ loop' = [loop EXCEPT ![w].batch = @ \ {e}, ![w].settled = @ \cup {e}]
  /\ UNCHANGED <<world, faults, leader, firing, up, sent, lost>>

\* Mutant: one try too many.
TurnFailsAgain(w) ==
  LET e == loop[w].event IN
  /\ Steps(w) /\ loop[w].at = "turn" /\ mem[w].tries[e] < MaxAttempts
  /\ firing' = None
  /\ mem' = [mem EXCEPT ![w].tries[e] = @ + 1]
  /\ loop' = [loop EXCEPT ![w].at = "next"]
  /\ UNCHANGED <<world, faults, leader, disk, closed, up, history>>

\* The run fails: another try in a later cycle, or given up and settled.
TurnFails(w) ==
  LET e == loop[w].event  n == mem[w].tries[e] + 1 IN
  /\ Steps(w) /\ loop[w].at = "turn"
  /\ firing' = None
  /\ IF n >= MaxAttempts
     THEN /\ mem' = [mem EXCEPT ![w].prints = @ \cup {e}, ![w].tries[e] = 0]
          /\ disk' = [disk EXCEPT !.prints = mem[w].prints \cup {e}]
          /\ runs' = [runs EXCEPT ![e] = @ + 1]
          /\ Audited({<<e, runs[e] + 1>>})
          /\ loop' = [loop EXCEPT ![w].at = "next", ![w].settled = @ \cup {e}]
     ELSE /\ mem' = [mem EXCEPT ![w].tries[e] = n]
          /\ loop' = [loop EXCEPT ![w].at = "next"]
          /\ UNCHANGED <<disk, closed, runs>>
  /\ UNCHANGED <<world, faults, leader, up, sent, lost>>

TurnEnds(w) ==
  /\ Steps(w) /\ loop[w].at = "turn"
  /\ firing' = None
  /\ loop' = [loop EXCEPT ![w].at = "ran"]
  /\ UNCHANGED <<world, faults, leader, disk, closed, up, mem, history>>

\* Recorded before delivery.
Fingerprint(w) ==
  LET e == loop[w].event IN
  /\ Steps(w) /\ loop[w].at = "ran" /\ runs[e] < MaxFirings[e]
  /\ Remember(w, e)
  /\ loop' = [loop EXCEPT ![w].at = "route"]
  /\ UNCHANGED <<world, faults, leader, firing, closed, up, sent, lost>>

Routed(w) ==
  /\ Steps(w) /\ loop[w].at = "route"
  /\ loop' = [loop EXCEPT ![w].at = "next", ![w].settled = @ \cup {loop[w].event}]
  /\ UNCHANGED <<world, faults, leader, firing, up, history>>

\* Quiet hours first, ...
Suppressed(w) == loop[w].quiet /\ loop[w].rule \notin Urgent

Defer(w) ==
  LET f == Last(loop[w].event) IN
  /\ Routed(w) /\ Suppressed(w)
  /\ mem' = [mem EXCEPT ![w].deferred = @ \cup {f}]
  /\ disk' = [disk EXCEPT !.deferred = mem[w].deferred \cup {f}, !.window = mem[w].window]
  /\ UNCHANGED closed

\* ... then an exchange under way, or one that cannot be ruled out, ...
Hold(w) ==
  LET f == Last(loop[w].event) IN
  /\ Routed(w) /\ ~Suppressed(w)
  /\ mem' = [mem EXCEPT ![w].hold = @ \cup {f}]
  /\ UNCHANGED <<closed, disk>>

\* ... then the coalescing window.
Join(w) ==
  LET f == Last(loop[w].event) IN
  /\ Routed(w) /\ ~Suppressed(w)
  /\ mem' = [mem EXCEPT ![w].window = @ \cup {f}]
  /\ disk' = [disk EXCEPT !.window = mem[w].window \cup {f}, !.deferred = mem[w].deferred]
  /\ UNCHANGED closed

\* The rule's events are done: settled instants are marked fired.
EndRule(w) ==
  LET r == loop[w].rule
      fired == loop[w].settled \cap Instants IN
  /\ AtNext(w) /\ \A e \in loop[w].batch : runs[e] = MaxFirings[e]
  /\ loop' = [loop EXCEPT ![w] = IF up[w] = "leaving" THEN Asleep
               ELSE [loop[w] EXCEPT !.at = "free", !.rule = None, !.event = None,
                                    !.batch = {}, !.settled = {}, !.awaited = @ \ {r}]]
  /\ LET marked == mem[w].marked \cup fired IN
     /\ disk' = IF fired = {} THEN disk ELSE [disk EXCEPT !.marked = marked]
     /\ mem' = [mem EXCEPT ![w].marked = marked,
                           ![w].fails[r] = IF r \in loop[w].awaited THEN 0 ELSE @,
                           ![w].muted = IF r \in loop[w].awaited THEN @ \ {r} ELSE @]
  /\ UNCHANGED <<world, faults, leader, firing, closed, up, history>>

----------------------------------------------------------------------------
(* The release part of a cycle: for each rule in order, what quiet hours, an *)
(* exchange and the window held back, of any rule, to THIS rule's destination. *)

FirstRule == CHOOSE r \in Rules : \A s \in Rules : r <= s

BeginRelease(w) ==
  /\ up[w] = "leading" /\ loop[w].phase = "evaluate"
  /\ loop[w].awaited = {} /\ loop[w].at = "free"
  /\ loop' = [loop EXCEPT ![w].phase = "release", ![w].rule = FirstRule, ![w].at = "deferred"]
  /\ UNCHANGED <<world, faults, stores, up, mem, history>>

HasDeferred(w) == mem[w].deferred # {} /\ ~loop[w].quiet
WindowDue(w) == mem[w].window \cap mem[w].ripe # {}

\* What the rule's turn releases next: it looks at the three queues once, in this order.
NextQueue(w) ==
  IF loop[w].at = "deferred" /\ HasDeferred(w) THEN "deferred"
  ELSE IF loop[w].at \in {"deferred", "held"} /\ mem[w].hold # {} THEN "held"
  ELSE IF WindowDue(w) THEN "window" ELSE "none"

AtRelease(w, queue) ==
  /\ Steps(w) /\ loop[w].phase = "release" /\ loop[w].out = <<>>
  /\ NextQueue(w) = queue

Batch(fs, why) == IF fs = {} THEN <<>> ELSE <<[firings |-> fs, why |-> why, at |-> "check"]>>

\* A queue is emptied, on disk too, before what was in it is delivered.
ReleaseDeferred(w) ==
  /\ AtRelease(w, "deferred")
  /\ loop' = [loop EXCEPT ![w].at = "held", ![w].out = Batch(mem[w].deferred, "quiet")]
  /\ mem' = [mem EXCEPT ![w].deferred = {}]
  /\ disk' = [disk EXCEPT !.deferred = {}, !.window = mem[w].window]
  /\ UNCHANGED <<world, faults, leader, firing, closed, up, history>>

\* Mutant: a scheduled firing waits for its exchange without a bound.
ReleaseHeldPatiently(w) == \E free \in SUBSET mem[w].hold :
  LET late == {f \in (mem[w].hold \cap mem[w].ripe) \ free : f[1] \in Questions} IN
  /\ AtRelease(w, "held")
  /\ loop' = [loop EXCEPT ![w].at = "window", ![w].out = Batch(free, "ended") \o Batch(late, "bound")]
  /\ mem' = [mem EXCEPT ![w].hold = @ \ (free \cup late), ![w].ripe = @ \ (free \cup late)]
  /\ UNCHANGED <<world, faults, leader, firing, disk, closed, up, history>>

\* InterruptQueue.due: what is free, the watcher's at their bound; scheduled ones expire there.
ReleaseHeld(w) == \E free \in SUBSET mem[w].hold :
  LET ripe == (mem[w].hold \cap mem[w].ripe) \ free
      late == {f \in ripe : f[1] \in Questions} IN
  /\ AtRelease(w, "held")
  /\ loop' = [loop EXCEPT ![w].at = "window", ![w].out = Batch(free, "ended") \o Batch(late, "bound")]
  /\ mem' = [mem EXCEPT ![w].hold = @ \ (free \cup ripe), ![w].ripe = @ \ (free \cup ripe)]
  /\ Audited(ripe \ late)
  /\ UNCHANGED <<world, faults, leader, firing, disk, up, history>>

FlushWindow(w) ==
  /\ AtRelease(w, "window")
  /\ loop' = [loop EXCEPT ![w].at = "window", ![w].out = Batch(mem[w].window, "now")]
  /\ mem' = [mem EXCEPT ![w].window = {}, ![w].ripe = @ \ mem[w].window]
  /\ disk' = [disk EXCEPT !.window = {}, !.deferred = mem[w].deferred]
  /\ UNCHANGED <<world, faults, leader, firing, closed, up, history>>

NextRule(w) == \E r \in Rules :
  /\ AtRelease(w, "none")
  /\ r > loop[w].rule /\ \A s \in Rules : s > loop[w].rule => r <= s
  /\ loop' = [loop EXCEPT ![w].rule = r, ![w].at = "deferred"]
  /\ UNCHANGED <<world, faults, stores, up, mem, history>>

Out(w) == loop[w].out[1]

\* Does the firing need its condition looked at again before it is delivered?
Rechecked(f, why) == why # "now" /\ ~(f[1] \notin Questions /\ why = "ended")

\* Watcher alerts whose condition still holds survive; scheduled ones cannot be looked at.
Recheck(w) == Steps(w) /\ loop[w].out # <<>> /\ Out(w).at = "check" /\
  LET asked == {f \in Out(w).firings : Rechecked(f, Out(w).why)} IN
  \E true \in SUBSET {f \in asked : f[1] \in Questions} :
    LET left == (Out(w).firings \ asked) \cup true IN
    /\ Audited(asked \ true)
    /\ loop' = [loop EXCEPT ![w].out = IF left = {} THEN Tail(@)
                   ELSE <<[Out(w) EXCEPT !.firings = left, !.at = "deliver"]>> \o Tail(@)]
    /\ UNCHANGED <<world, faults, leader, firing, disk, up, mem, history>>

SendOut(w) ==
  sent' = [f \in Firings |-> IF f \in Out(w).firings THEN Append(sent[f], Dest[loop[w].rule]) ELSE sent[f]]

Deliver(w) ==
  /\ Steps(w) /\ loop[w].out # <<>> /\ Out(w).at = "deliver"
  /\ SendOut(w)
  /\ loop' = [loop EXCEPT ![w].out[1].at = "note"]
  /\ UNCHANGED <<world, faults, stores, up, mem, runs, lost>>

NoteDelivered(w) ==
  /\ Steps(w) /\ loop[w].out # <<>> /\ Out(w).at = "note"
  /\ Audited(Out(w).firings)
  /\ loop' = [loop EXCEPT ![w].out = Tail(@)]
  /\ UNCHANGED <<world, faults, leader, firing, disk, up, mem, history>>

\* Redaction fails, or the destination raises, which may be after the message went out:
\* recorded, and not tried again.
NotDelivered(w) == \E out \in BOOLEAN :
  /\ Steps(w) /\ loop[w].out # <<>> /\ Out(w).at = "deliver"
  /\ IF out THEN SendOut(w) ELSE UNCHANGED sent
  /\ Audited(Out(w).firings)
  /\ loop' = [loop EXCEPT ![w].out = Tail(@)]
  /\ UNCHANGED <<world, faults, leader, firing, disk, up, mem, runs, lost>>

\* Retention: the fingerprints are emptied when a day has passed since they last were, so
\* that the instants due by then are out of the look-back.  The first sweep only notes the time.
Sweep(w) ==
  /\ AtRelease(w, "none") /\ \A s \in Rules : s <= loop[w].rule
  /\ \/ mem' = [mem EXCEPT ![w].since = IF @ = None THEN due ELSE @, ![w].ripe = {}] /\ UNCHANGED disk
     \/ /\ mem[w].since # None /\ mem[w].since \subseteq old
        /\ mem' = [mem EXCEPT ![w].prints = {}, ![w].since = due, ![w].ripe = {}]
        /\ disk' = [disk EXCEPT !.prints = {}]
  /\ loop' = [loop EXCEPT ![w] = Asleep]
  /\ UNCHANGED <<world, faults, leader, firing, closed, up, history>>

----------------------------------------------------------------------------
ThreadStep(w) ==
  \/ StartRule(w) \/ TakeTurn(w) \/ AgentMissing(w) \/ TurnFails(w) \/ TurnEnds(w)
  \/ Fingerprint(w) \/ Defer(w) \/ Hold(w) \/ Join(w) \/ EndRule(w)
  \/ BeginRelease(w) \/ ReleaseDeferred(w) \/ ReleaseHeld(w) \/ FlushWindow(w)
  \/ NextRule(w) \/ Recheck(w) \/ Deliver(w) \/ NoteDelivered(w) \/ NotDelivered(w) \/ Sweep(w)

Next ==
  \E w \in Workers :
    \/ Start(w) \/ Crash(w) \/ StopClean(w) \/ StopLate(w) \/ Exit(w)
    \/ BeginCycle(w) \/ RuleRaises(w) \/ Timeout(w) \/ ThreadStep(w)

Spec == Init /\ [][Next]_vars

----------------------------------------------------------------------------
(* What the engine guarantees. *)

\* The thread is at a rule.
AtRule(l) == l.at \in {"next", "turn", "ran", "route"}

Batches == [firings : SUBSET Firings, why : {"quiet", "ended", "bound", "now"},
            at : {"check", "deliver", "note"}]
Loops == [phase : {"asleep", "evaluate", "release"}, todo : SUBSET Rules, awaited : SUBSET Rules,
          rule : Rules \cup {None},
          at : {"free", "next", "turn", "ran", "route", "deferred", "held", "window"},
          batch : SUBSET Events, event : Events \cup {None}, settled : SUBSET Events,
          quiet : BOOLEAN, out : Seq(Batches)]
Memories == [prints : {None} \cup SUBSET Events, marked : {None} \cup SUBSET Instants,
             deferred : SUBSET Firings, window : SUBSET Firings, hold : SUBSET Firings,
             ripe : SUBSET Firings, tries : [Events -> 0 .. MaxAttempts - 1],
             since : {None} \cup SUBSET Instants, fails : [Rules -> 0 .. BackoffAfter],
             muted : SUBSET Rules]

\* Every variable keeps its type.
EngineTypeOK ==
  /\ due \subseteq Instants /\ old \subseteq due /\ faults \in 0 .. MaxFaults
  /\ leader \in Workers \cup {None} /\ firing \in Workers \cup {None}
  /\ disk \in [prints : SUBSET Events, marked : SUBSET Instants,
               deferred : SUBSET Firings, window : SUBSET Firings]
  /\ closed \subseteq Firings
  /\ up \in [Workers -> {"down", "serving", "leading", "leaving"}]
  /\ loop \in [Workers -> Loops] /\ mem \in [Workers -> Memories]
  /\ \A w \in Workers :
       /\ loop[w].todo \subseteq loop[w].awaited
       /\ AtRule(loop[w]) => loop[w].rule \notin loop[w].todo
       /\ mem[w].ripe \subseteq mem[w].hold \cup mem[w].window
  /\ runs \in [Events -> Nat] /\ \A e \in Events : runs[e] <= MaxFirings[e]
  /\ sent \in [Firings -> Seq({Dest[r] : r \in Rules})] /\ lost \subseteq Firings

\* No firing is delivered twice: a missed message can be recovered, a repeat cannot (FR-017).
SentOnce == \A f \in Firings : Len(sent[f]) <= 1

\* And a scheduled instant fires at most once, over failures, retries, restarts and the daily
\* reset of the fingerprints (FR-018).
DeliveredOnce == SentOnce /\ \A i \in Instants : runs[i] <= 1

\* A firing whose event was fingerprinted has its end in the audit log, or waits in a queue on
\* disk, or is in the memory of a live process: only a process that ended can lose it.
NothingVanishes ==
  \A f \in Firings : f[2] <= runs[f[1]] =>
    \/ f \in closed \/ f \in lost
    \/ f \in disk.deferred \cup disk.window
    \/ \E w \in Workers : f \in InHand(w)

\* The engine takes a turn only for an instant later than every one that rule has settled:
\* what was skipped after an outage never comes back (scheduler.py, catch_up).
NeverGoesBack ==
  [][\A w \in Workers, i \in Instants :
       loop[w].at # "turn" /\ loop'[w].at = "turn" /\ loop'[w].event = i
         => \A j \in disk.marked : RuleOf[j] = RuleOf[i] => i > j]_vars

(* The inductive invariant behind these, for as long as one worker works at a time.  A firing *)
(* that still has to be delivered is in one place and was not sent; memory and disk agree on   *)
(* the stores; and an instant that fired is marked, too old, or in the fingerprints, where it  *)
(* stays until it is one of the other two.                                                     *)

Alone == \A v, w \in Workers : Steps(v) /\ Steps(w) => v = w

\* What a worker's thread is at, and what it then has.
Phased(w) ==
  /\ ~Steps(w) => loop[w] = Asleep /\ mem[w] = Forgotten
  /\ loop[w].phase = "asleep" => loop[w] = Asleep
  /\ loop[w].phase = "evaluate" => loop[w].at \in {"free", "next", "turn", "ran", "route"} /\ loop[w].out = <<>>
  /\ loop[w].phase = "release" => loop[w].at \in {"deferred", "held", "window"}
  /\ loop[w].phase = "release" \/ AtRule(loop[w]) => loop[w].rule \in Rules
  /\ ~AtRule(loop[w]) => loop[w].batch = {} /\ loop[w].settled = {}
  /\ loop[w].at \in {"turn", "ran", "route"} => loop[w].event \in Events \ loop[w].batch
  /\ loop[w].at \in {"turn", "ran"} => runs[loop[w].event] < MaxFirings[loop[w].event]
  /\ loop[w].at = "route" => runs[loop[w].event] > 0

\* The memory of a worker at work is what the disk has.
Stored(w) == Steps(w) =>
  /\ mem[w].deferred = disk.deferred /\ mem[w].window = disk.window
  /\ mem[w].prints \in {None, disk.prints} /\ mem[w].marked \in {None, disk.marked}
  /\ loop[w].phase # "asleep" => mem[w].prints = disk.prints /\ mem[w].marked = disk.marked

\* A firing that can still be delivered.
Unsent(f) == sent[f] = <<>> /\ f[2] <= runs[f[1]]

\* Batches share no firing, and only the first is beyond its check.
InOrder(out) ==
  /\ \A i, j \in DOMAIN out : i # j => out[i].firings \cap out[j].firings = {}
  /\ \A i \in DOMAIN out : i # 1 => out[i].at = "check"

\* What a worker has in hand is nowhere else.
Placed(w) ==
  /\ InHand(w) \cap (disk.deferred \cup disk.window) = {}
  /\ mem[w].hold \cap Sending(loop[w].out) = {}
  /\ \A f \in mem[w].hold : Unsent(f)
  /\ loop[w].at = "route" => Unsent(Last(loop[w].event)) /\ Last(loop[w].event) \notin mem[w].hold
  /\ InOrder(loop[w].out)
  /\ \A i \in DOMAIN loop[w].out : loop[w].out[i].at # "note" => \A f \in loop[w].out[i].firings : Unsent(f)

QueuedOnce ==
  /\ disk.deferred \cap disk.window = {}
  /\ \A f \in disk.deferred \cup disk.window : Unsent(f)
  /\ \A f \in Firings : f[2] > runs[f[1]] => sent[f] = <<>>

\* The fingerprint of instant i outlives the next time w empties the fingerprints.
Remembers(w, i) ==
  \/ mem[w].since = None
  \/ i \in mem[w].since \cup loop[w].settled
  \/ (loop[w].at = "route" /\ loop[w].event = i)

\* What keeps instant i, which has fired, from firing again.
Spent(i) ==
  /\ i \in due
  /\ \/ i \in disk.marked \cup old
     \/ i \in disk.prints /\ \A w \in Workers : Steps(w) => Remembers(w, i)

\* Instant i has not fired, and no later one of its rule has.
Fresh(i) == i \in due /\ runs[i] = 0 /\ \A m \in disk.marked : RuleOf[m] = RuleOf[i] => i > m

\* Instant i is about to fire in w.
Fires(w, i) == i \in loop[w].batch \/ (loop[w].at \in {"turn", "ran"} /\ loop[w].event = i)

FiredOnce == \A i \in Instants : runs[i] <= 1 /\ (runs[i] = 1 => Spent(i))

WorkerInv(w) ==
  Phased(w) /\ Stored(w) /\ Placed(w) /\ \A i \in Instants : Fires(w, i) => Fresh(i)

EngineInv ==
  /\ EngineTypeOK /\ QueuedOnce /\ FiredOnce /\ SentOnce /\ NothingVanishes
  /\ \A w \in Workers : WorkerInv(w)

\* A message goes where the rule it comes from sends its messages.
OwnDestination ==
  \A f \in Firings : \A i \in DOMAIN sent[f] : sent[f][i] = Dest[RuleOf[f[1]]]

\* The thread's work ends: turns, deliveries and lookups have timeouts.  Quiet hours end and
\* the loop wakes for that (TriggerLoop.next_wakeup), and while it wakes at least every
\* minute the bounds of the queues pass.  A worker that ended is started again.
Fairness ==
  \A w \in Workers :
    /\ WF_vars(ThreadStep(w)) /\ WF_vars(Start(w)) /\ WF_vars(Exit(w))
    /\ SF_vars(CycleAt(w, FALSE, mem[w].hold \cup mem[w].window))

FairSpec == Spec /\ Fairness

\* Every firing ends, delivered or with the reason it was not, unless a process died with it.
FiringEnds ==
  \A f \in Firings : f[2] <= runs[f[1]] ~> f \in closed \/ f \in lost

=============================================================================
