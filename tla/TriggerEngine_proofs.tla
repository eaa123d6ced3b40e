------------------------ MODULE TriggerEngine_proofs ------------------------
(***************************************************************************)
(* Theorems about TriggerEngine.  What keeps a firing from being delivered *)
(* twice or lost is that it is in one place at a time: a queue, a batch    *)
(* under way, or the thread that routes it (Placed).  What keeps an      *)
(* instant from firing twice is that it is always marked, too old, or in   *)
(* fingerprints that are not emptied before it is one of the two           *)
(* (Spent).  Both need that one worker is at work at a time.            *)
(***************************************************************************)
EXTENDS TriggerEngine, WellFoundedInduction, TLAPS

USE EngineConstants

\* A loop and a memory, by the fields the invariants are about.
IsLoop(l, phase, at, rule, batch, event, settled, out) ==
  /\ l \in Loops /\ l.todo \subseteq l.awaited /\ (AtRule(l) => l.rule \notin l.todo)
  /\ l.phase = phase /\ l.at = at /\ l.rule = rule /\ l.batch = batch /\ l.event = event
  /\ l.settled = settled /\ l.out = out

IsMem(m, prints, marked, deferred, window, hold, since) ==
  /\ m \in Memories /\ m.ripe \subseteq m.hold \cup m.window
  /\ m.prints = prints /\ m.marked = marked /\ m.deferred = deferred /\ m.window = window
  /\ m.hold = hold /\ m.since = since

\* What a step makes of the loop and of the memory of one worker.
LoopTo(w, phase, at, rule, batch, event, settled, out) ==
  /\ loop' \in [Workers -> Loops]
  /\ IsLoop(loop'[w], phase, at, rule, batch, event, settled, out)
  /\ \A v \in Workers \ {w} : loop'[v] = loop[v]

MemTo(w, prints, marked, deferred, window, hold, since) ==
  /\ mem' \in [Workers -> Memories]
  /\ IsMem(mem'[w], prints, marked, deferred, window, hold, since)
  /\ \A v \in Workers \ {w} : mem'[v] = mem[v]

LEMMA LoopFrom ==
  ASSUME EngineTypeOK, NEW w \in Workers, NEW l, loop' = [loop EXCEPT ![w] = l],
         NEW phase, NEW at, NEW rule, NEW batch, NEW event, NEW settled, NEW out,
         IsLoop(l, phase, at, rule, batch, event, settled, out)
  PROVE  LoopTo(w, phase, at, rule, batch, event, settled, out)
BY DEF LoopTo, IsLoop, EngineTypeOK

LEMMA MemFrom ==
  ASSUME EngineTypeOK, NEW w \in Workers, NEW m, mem' = [mem EXCEPT ![w] = m],
         NEW prints, NEW marked, NEW deferred, NEW window, NEW hold, NEW since,
         IsMem(m, prints, marked, deferred, window, hold, since)
  PROVE  MemTo(w, prints, marked, deferred, window, hold, since)
BY DEF MemTo, IsMem, EngineTypeOK

\* A step that leaves the memory alone.
LEMMA MemSame ==
  ASSUME EngineTypeOK, NEW w \in Workers, mem' = mem
  PROVE  MemTo(w, mem[w].prints, mem[w].marked, mem[w].deferred, mem[w].window, mem[w].hold, mem[w].since)
BY DEF MemTo, IsMem, EngineTypeOK

\* The fields of a worker's loop and memory.
LEMMA LoopFields ==
  ASSUME EngineTypeOK, NEW w \in Workers
  PROVE  /\ loop[w] \in Loops /\ loop[w].todo \subseteq loop[w].awaited
         /\ AtRule(loop[w]) => loop[w].rule \notin loop[w].todo
         /\ loop[w].phase \in {"asleep", "evaluate", "release"}
         /\ loop[w].todo \subseteq Rules /\ loop[w].awaited \subseteq Rules
         /\ loop[w].rule \in Rules \cup {None}
         /\ loop[w].at \in {"free", "next", "turn", "ran", "route", "deferred", "held", "window"}
         /\ loop[w].batch \subseteq Events /\ loop[w].event \in Events \cup {None}
         /\ loop[w].settled \subseteq Events /\ loop[w].quiet \in BOOLEAN
         /\ loop[w].out \in Seq(Batches)
BY DEF EngineTypeOK, Loops

LEMMA MemFields ==
  ASSUME EngineTypeOK, NEW w \in Workers
  PROVE  /\ mem[w] \in Memories /\ mem[w].ripe \subseteq mem[w].hold \cup mem[w].window
         /\ mem[w].prints \in {None} \cup SUBSET Events /\ mem[w].marked \in {None} \cup SUBSET Instants
         /\ mem[w].deferred \subseteq Firings /\ mem[w].window \subseteq Firings
         /\ mem[w].hold \subseteq Firings /\ mem[w].ripe \subseteq Firings
         /\ mem[w].tries \in [Events -> 0 .. MaxAttempts - 1]
         /\ mem[w].since \in {None} \cup SUBSET Instants
         /\ mem[w].fails \in [Rules -> 0 .. BackoffAfter] /\ mem[w].muted \subseteq Rules
BY DEF EngineTypeOK, Memories

LEMMA DiskFields ==
  ASSUME EngineTypeOK
  PROVE  /\ disk.prints \subseteq Events /\ disk.marked \subseteq Instants
         /\ disk.deferred \subseteq Firings /\ disk.window \subseteq Firings
BY DEF EngineTypeOK

LEMMA AsleepIs == IsLoop(Asleep, "asleep", "free", None, {}, None, {}, <<>>)
<1>1. <<>> \in Seq(Batches)
  OBVIOUS
<1> QED BY <1>1 DEF IsLoop, AtRule, Loops, Asleep

LEMMA ForgottenIs == IsMem(Forgotten, None, None, {}, {}, {}, None)
<1>1. 0 \in 0 .. MaxAttempts - 1 /\ 0 \in 0 .. BackoffAfter
  OBVIOUS
<1> QED BY <1>1 DEF IsMem, Memories, Forgotten

LEMMA AsleepTo ==
  ASSUME EngineTypeOK, NEW w \in Workers, loop' = [loop EXCEPT ![w] = Asleep]
  PROVE  LoopTo(w, "asleep", "free", None, {}, None, {}, <<>>) /\ loop'[w] = Asleep
<1>1. LoopTo(w, "asleep", "free", None, {}, None, {}, <<>>)
  BY AsleepIs, LoopFrom
<1>2. loop'[w] = Asleep
  BY DEF EngineTypeOK
<1> QED BY <1>1, <1>2

LEMMA ForgottenTo ==
  ASSUME EngineTypeOK, NEW w \in Workers, mem' = [mem EXCEPT ![w] = Forgotten]
  PROVE  MemTo(w, None, None, {}, {}, {}, None) /\ mem'[w] = Forgotten
<1>1. MemTo(w, None, None, {}, {}, {}, None)
  BY ForgottenIs, MemFrom
<1>2. mem'[w] = Forgotten
  BY DEF EngineTypeOK
<1> QED BY <1>1, <1>2

LEMMA FiringOf ==
  ASSUME NEW e \in Events, NEW n \in 1 .. MaxFirings[e]
  PROVE  <<e, n>> \in Firings
BY DEF Firings

LEMMA FiringFields ==
  ASSUME NEW f \in Firings
  PROVE  f[1] \in Events /\ f[2] \in 1 .. MaxFirings[f[1]] /\ f = <<f[1], f[2]>>
BY DEF Firings

----------------------------------------------------------------------------
(* What each action does to the loop and the memory of its worker. *)

LEMMA StartDoes ==
  ASSUME EngineInv, NEW w \in Workers, Start(w)
  PROVE  /\ LoopTo(w, "asleep", "free", None, {}, None, {}, <<>>) /\ loop'[w] = Asleep
         /\ \/ /\ up' = [up EXCEPT ![w] = "serving"] /\ mem' = mem /\ leader' = leader /\ leader # None
            \/ /\ up' = [up EXCEPT ![w] = "leading"] /\ leader' = w
               /\ MemTo(w, None, None, disk.deferred, disk.window, {}, None)
<1> USE DEF EngineInv
<1>1. LoopTo(w, "asleep", "free", None, {}, None, {}, <<>>) /\ loop'[w] = Asleep
  <2>1. loop' = [loop EXCEPT ![w] = Asleep]
    BY DEF Start
  <2> QED BY <2>1, AsleepTo
<1>2. CASE leader # None
  BY <1>1, <1>2 DEF Start
<1>3. CASE leader = None
  <2> DEFINE m == [Forgotten EXCEPT !.deferred = disk.deferred, !.window = disk.window]
  <2>1. mem' = [mem EXCEPT ![w] = m] /\ up' = [up EXCEPT ![w] = "leading"] /\ leader' = w
    BY <1>3 DEF Start
  <2>2. IsMem(m, None, None, disk.deferred, disk.window, {}, None)
    BY ForgottenIs, DiskFields DEF IsMem, Memories, Forgotten
  <2>3. MemTo(w, None, None, disk.deferred, disk.window, {}, None)
    BY <2>1, <2>2, MemFrom
  <2> QED BY <1>1, <2>1, <2>3
<1> QED BY <1>2, <1>3

LEMMA EndedDoes ==
  ASSUME EngineInv, NEW w \in Workers, Ended(w)
  PROVE  /\ LoopTo(w, "asleep", "free", None, {}, None, {}, <<>>) /\ loop'[w] = Asleep
         /\ MemTo(w, None, None, {}, {}, {}, None) /\ mem'[w] = Forgotten
<1>1. loop' = [loop EXCEPT ![w] = Asleep] /\ mem' = [mem EXCEPT ![w] = Forgotten]
  BY DEF Ended
<1> QED BY <1>1, AsleepTo, ForgottenTo DEF EngineInv

LEMMA StopLateDoes ==
  ASSUME EngineInv, NEW w \in Workers, StopLate(w)
  PROVE  /\ MemTo(w, mem[w].prints, mem[w].marked, mem[w].deferred, mem[w].window, mem[w].hold, mem[w].since)
         /\ \/ /\ loop[w].at = "free" /\ loop'[w] = Asleep
               /\ LoopTo(w, "asleep", "free", None, {}, None, {}, <<>>)
            \/ /\ loop[w].at # "free"
               /\ LoopTo(w, loop[w].phase, loop[w].at, loop[w].rule, loop[w].batch, loop[w].event,
                         loop[w].settled, loop[w].out)
<1> USE DEF EngineInv
<1>1. MemTo(w, mem[w].prints, mem[w].marked, mem[w].deferred, mem[w].window, mem[w].hold, mem[w].since)
  BY MemSame DEF StopLate
<1>2. CASE loop[w].at = "free"
  <2>1. loop' = [loop EXCEPT ![w] = Asleep]
    BY <1>2 DEF StopLate
  <2>2. LoopTo(w, "asleep", "free", None, {}, None, {}, <<>>) /\ loop'[w] = Asleep
    BY <2>1, AsleepTo
  <2> QED BY <1>1, <1>2, <2>2
<1>3. CASE loop[w].at # "free"
  <2> DEFINE l == [loop[w] EXCEPT !.todo = {}, !.awaited = {}]
  <2>1. loop' = [loop EXCEPT ![w] = l]
    BY <1>3 DEF StopLate
  <2>2. IsLoop(l, loop[w].phase, loop[w].at, loop[w].rule, loop[w].batch, loop[w].event, loop[w].settled, loop[w].out)
    BY ZenonT(60), LoopFields DEF IsLoop, AtRule, Loops
  <2>3. LoopTo(w, loop[w].phase, loop[w].at, loop[w].rule, loop[w].batch, loop[w].event, loop[w].settled, loop[w].out)
    BY <2>1, <2>2, LoopFrom
  <2> QED BY <1>1, <1>3, <2>3
<1> QED BY <1>2, <1>3

LEMMA BeginCycleDoes ==
  ASSUME EngineInv, NEW w \in Workers, BeginCycle(w)
  PROVE  /\ up[w] = "leading" /\ loop[w] = Asleep /\ TimePasses
         /\ UNCHANGED <<faults, stores, up, history>>
         /\ LoopTo(w, "evaluate", "free", None, {}, None, {}, <<>>)
         /\ MemTo(w, disk.prints, disk.marked, mem[w].deferred, mem[w].window, mem[w].hold, mem[w].since)
<1> USE DEF EngineInv
<1>1. PICK quiet \in BOOLEAN, ripe \in SUBSET (mem[w].hold \cup mem[w].window) : CycleAt(w, quiet, ripe)
  BY DEF BeginCycle
<1>2. PICK muted \in SUBSET mem[w].muted :
        /\ up[w] = "leading" /\ loop[w].phase = "asleep" /\ TimePasses
        /\ loop' = [loop EXCEPT ![w] = [Asleep EXCEPT !.phase = "evaluate", !.todo = Rules \ muted,
                                                      !.awaited = Rules \ muted, !.quiet = quiet]]
        /\ mem' = [mem EXCEPT ![w].prints = IF @ = None THEN disk.prints ELSE @,
                              ![w].marked = IF @ = None THEN disk.marked ELSE @,
                              ![w].muted = muted, ![w].ripe = ripe]
        /\ UNCHANGED <<faults, stores, up, history>>
  BY <1>1 DEF CycleAt
<1>3. mem[w].prints \in {None, disk.prints} /\ mem[w].marked \in {None, disk.marked}
  BY <1>2 DEF WorkerInv, Stored, Steps
<1> DEFINE l == [Asleep EXCEPT !.phase = "evaluate", !.todo = Rules \ muted,
                               !.awaited = Rules \ muted, !.quiet = quiet]
           m == [mem[w] EXCEPT !.prints = disk.prints, !.marked = disk.marked, !.muted = muted, !.ripe = ripe]
<1>4. mem' = [mem EXCEPT ![w] = m]
  BY <1>2, <1>3, MemFields DEF EngineTypeOK, Memories
<1>5. IsLoop(l, "evaluate", "free", None, {}, None, {}, <<>>)
  BY AsleepIs DEF IsLoop, AtRule, Loops, Asleep
<1>6. IsMem(m, disk.prints, disk.marked, mem[w].deferred, mem[w].window, mem[w].hold, mem[w].since)
  <2>1. muted \in SUBSET Rules /\ ripe \in SUBSET Firings
    BY <1>2, MemFields
  <2> QED BY <2>1, MemFields, DiskFields DEF IsMem, Memories
<1>7. LoopTo(w, "evaluate", "free", None, {}, None, {}, <<>>)
  BY <1>2, <1>5, LoopFrom
<1>8. MemTo(w, disk.prints, disk.marked, mem[w].deferred, mem[w].window, mem[w].hold, mem[w].since)
  BY <1>4, <1>6, MemFrom
<1> QED BY <1>2, <1>7, <1>8 DEF WorkerInv, Phased

LEMMA StartRuleDoes ==
  ASSUME EngineInv, NEW w \in Workers, StartRule(w)
  PROVE  /\ loop[w].at = "free" /\ loop[w].phase = "evaluate" /\ Steps(w)
         /\ MemTo(w, mem[w].prints, mem[w].marked, mem[w].deferred, mem[w].window, mem[w].hold, mem[w].since)
         /\ \E r \in Rules, batch \in SUBSET Events :
              /\ batch \cap Instants \subseteq CatchUp(w, r) \ mem[w].prints
              /\ LoopTo(w, loop[w].phase, "next", r, batch, loop[w].event, {}, loop[w].out)
<1> USE DEF EngineInv
<1>1. PICK r \in loop[w].todo : loop[w].at = "free" /\ \E polled \in Polled(w, r) :
        loop' = [loop EXCEPT ![w].todo = @ \ {r}, ![w].rule = r, ![w].at = "next",
                             ![w].batch = polled \ mem[w].prints, ![w].settled = {}]
  BY DEF StartRule
<1>2. PICK polled \in Polled(w, r) :
        loop' = [loop EXCEPT ![w].todo = @ \ {r}, ![w].rule = r, ![w].at = "next",
                             ![w].batch = polled \ mem[w].prints, ![w].settled = {}]
  BY <1>1
<1> DEFINE batch == polled \ mem[w].prints
           l == [loop[w] EXCEPT !.todo = @ \ {r}, !.rule = r, !.at = "next", !.batch = batch, !.settled = {}]
<1>3. r \in Rules /\ batch \in SUBSET Events /\ batch \cap Instants \subseteq CatchUp(w, r) \ mem[w].prints
  BY <1>1, LoopFields DEF Polled, CatchUp, MaxOf, EngineTypeOK, Events
<1>4. loop' = [loop EXCEPT ![w] = l]
  BY <1>2 DEF EngineTypeOK, Loops
<1>5. IsLoop(l, loop[w].phase, "next", r, batch, loop[w].event, {}, loop[w].out)
  <2> HIDE DEF batch
  <2> QED BY ZenonT(60), <1>3, LoopFields DEF IsLoop, AtRule, Loops
<1>6. LoopTo(w, loop[w].phase, "next", r, batch, loop[w].event, {}, loop[w].out)
  <2> HIDE DEF batch
  <2> QED BY <1>4, <1>5, LoopFrom
<1>7. loop[w] # Asleep
  BY <1>1 DEF Asleep
<1>8. MemTo(w, mem[w].prints, mem[w].marked, mem[w].deferred, mem[w].window, mem[w].hold, mem[w].since)
  BY MemSame DEF StartRule
<1>9. loop[w].phase = "evaluate" /\ Steps(w)
  BY <1>1, <1>7, LoopFields DEF WorkerInv, Phased
<1> QED BY <1>1, <1>3, <1>6, <1>8, <1>9

\* A failure of a rule changes nothing the invariants are about.
LEMMA FailedKeeps ==
  ASSUME EngineTypeOK, NEW w \in Workers, NEW r \in Rules, Failed(w, r)
  PROVE  MemTo(w, mem[w].prints, mem[w].marked, mem[w].deferred, mem[w].window, mem[w].hold, mem[w].since)
<1> DEFINE fails(n) == [mem[w].fails EXCEPT ![r] = n]
           n == mem[w].fails[r] + 1
<1>1. mem[w].fails[r] \in 0 .. BackoffAfter
  BY MemFields
<1>2. CASE n >= BackoffAfter
  <2> DEFINE m == [mem[w] EXCEPT !.fails = fails(BackoffAfter), !.muted = @ \cup {r}]
  <2>1. mem' = [mem EXCEPT ![w] = m]
    <3>1. mem' = [mem EXCEPT ![w].fails[r] = BackoffAfter, ![w].muted = @ \cup {r}]
      BY <1>2 DEF Failed
    <3>2. mem \in [Workers -> Memories] /\ r \in Rules
      BY DEF EngineTypeOK
    <3> QED BY <3>1, <3>2 DEF Memories
  <2>2. fails(BackoffAfter) \in [Rules -> 0 .. BackoffAfter]
    BY MemFields
  <2>3. IsMem(m, mem[w].prints, mem[w].marked, mem[w].deferred, mem[w].window, mem[w].hold, mem[w].since)
    <3> HIDE DEF fails
    <3> QED BY <2>2, MemFields DEF IsMem, Memories
  <2> QED BY <2>1, <2>3, MemFrom
<1>3. CASE ~(n >= BackoffAfter)
  <2> DEFINE m == [mem[w] EXCEPT !.fails = fails(n)]
  <2>1. mem' = [mem EXCEPT ![w] = m]
    BY <1>3 DEF EngineTypeOK, Memories, Failed
  <2>2. fails(n) \in [Rules -> 0 .. BackoffAfter]
    <3>1. n \in 0 .. BackoffAfter
      BY <1>1, <1>3
    <3> QED BY <3>1, MemFields
  <2>3. IsMem(m, mem[w].prints, mem[w].marked, mem[w].deferred, mem[w].window, mem[w].hold, mem[w].since)
    <3> HIDE DEF fails, n
    <3> QED BY <2>2, MemFields DEF IsMem, Memories
  <2> QED BY <2>1, <2>3, MemFrom
<1> QED BY <1>2, <1>3

LEMMA RuleEndsDoes ==
  ASSUME EngineInv, NEW w \in Workers, RuleRaises(w) \/ Timeout(w)
  PROVE  /\ LoopTo(w, loop[w].phase, loop[w].at, loop[w].rule, loop[w].batch, loop[w].event,
                   loop[w].settled, loop[w].out)
         /\ MemTo(w, mem[w].prints, mem[w].marked, mem[w].deferred, mem[w].window, mem[w].hold, mem[w].since)
<1> USE DEF EngineInv
<1>1. PICK r \in Rules : Failed(w, r) /\ loop' = [loop EXCEPT ![w].todo = @ \ {r}, ![w].awaited = @ \ {r}]
  <2>1. CASE RuleRaises(w)
    BY <2>1, LoopFields DEF RuleRaises
  <2>2. CASE Timeout(w)
    <3>1. PICK r \in loop[w].awaited :
            Failed(w, r) /\ loop' = [loop EXCEPT ![w].awaited = @ \ {r}, ![w].todo = @ \ {r}]
      BY <2>2 DEF Timeout
    <3>2. loop' = [loop EXCEPT ![w].todo = @ \ {r}, ![w].awaited = @ \ {r}]
      BY ZenonT(60), <3>1 DEF EngineTypeOK, Loops
    <3> QED BY <3>1, <3>2, LoopFields
  <2> QED BY <2>1, <2>2
<1> DEFINE l == [loop[w] EXCEPT !.todo = @ \ {r}, !.awaited = @ \ {r}]
<1>2. loop' = [loop EXCEPT ![w] = l]
  BY <1>1 DEF EngineTypeOK, Loops
<1>3. IsLoop(l, loop[w].phase, loop[w].at, loop[w].rule, loop[w].batch, loop[w].event, loop[w].settled, loop[w].out)
  BY ZenonT(60), LoopFields DEF IsLoop, AtRule, Loops
<1> QED BY <1>1, <1>2, <1>3, LoopFrom, FailedKeeps

\* What a step makes of the disk.
DiskTo(prints, marked, deferred, window) ==
  /\ disk' \in [prints : SUBSET Events, marked : SUBSET Instants,
                deferred : SUBSET Firings, window : SUBSET Firings]
  /\ disk'.prints = prints /\ disk'.marked = marked /\ disk'.deferred = deferred /\ disk'.window = window

\* The thread of a worker at work: its memory is what the disk has.
LEMMA AtWork ==
  ASSUME EngineInv, NEW w \in Workers, loop[w].at \in {"next", "turn", "ran", "route"}
  PROVE  /\ Steps(w) /\ loop[w].phase = "evaluate" /\ loop[w].rule \in Rules /\ loop[w].out = <<>>
         /\ mem[w].deferred = disk.deferred /\ mem[w].window = disk.window
         /\ mem[w].prints = disk.prints /\ mem[w].marked = disk.marked
<1>1. loop[w] # Asleep
  BY DEF Asleep
<1> QED BY <1>1, LoopFields DEF EngineInv, WorkerInv, Phased, Stored, AtRule

LEMMA AtReleaseWork ==
  ASSUME EngineInv, NEW w \in Workers, loop[w].phase = "release"
  PROVE  /\ Steps(w) /\ loop[w].rule \in Rules
         /\ loop[w].at \in {"deferred", "held", "window"} /\ loop[w].batch = {} /\ loop[w].settled = {}
         /\ mem[w].deferred = disk.deferred /\ mem[w].window = disk.window
         /\ mem[w].prints = disk.prints /\ mem[w].marked = disk.marked
<1>1. loop[w] # Asleep
  BY DEF Asleep
<1> QED BY <1>1, LoopFields DEF EngineInv, WorkerInv, Phased, Stored, AtRule

\* The steps of a firing's turn change where the thread is, its batch and what it settled.
LEMMA ThreadTo ==
  ASSUME EngineInv, NEW w \in Workers, AtRule(loop[w]),
         NEW at \in {"next", "turn", "ran", "route"}, NEW batch \in SUBSET Events, NEW event \in Events \cup {None},
         NEW settled \in SUBSET Events,
         loop' = [loop EXCEPT ![w] = [loop[w] EXCEPT !.at = at, !.batch = batch, !.event = event, !.settled = settled]]
  PROVE  LoopTo(w, loop[w].phase, at, loop[w].rule, batch, event, settled, loop[w].out)
<1> DEFINE l == [loop[w] EXCEPT !.at = at, !.batch = batch, !.event = event, !.settled = settled]
<1>1. IsLoop(l, loop[w].phase, at, loop[w].rule, batch, event, settled, loop[w].out)
  BY ZenonT(60), LoopFields DEF IsLoop, AtRule, Loops, EngineInv
<1> QED BY <1>1, LoopFrom DEF EngineInv

LEMMA RememberDoes ==
  ASSUME EngineInv, NEW w \in Workers, NEW e \in Events,
         loop[w].at \in {"next", "turn", "ran", "route"}, Remember(w, e)
  PROVE  /\ MemTo(w, disk.prints \cup {e}, mem[w].marked, mem[w].deferred, mem[w].window, mem[w].hold, mem[w].since)
         /\ DiskTo(disk.prints \cup {e}, disk.marked, disk.deferred, disk.window)
         /\ runs' = [runs EXCEPT ![e] = @ + 1]
<1> DEFINE m == [mem[w] EXCEPT !.prints = disk.prints \cup {e}]
<1>1. mem' = [mem EXCEPT ![w] = m] /\ disk' = [disk EXCEPT !.prints = disk.prints \cup {e}]
  BY AtWork DEF EngineInv, EngineTypeOK, Memories, Remember
<1>2. IsMem(m, disk.prints \cup {e}, mem[w].marked, mem[w].deferred, mem[w].window, mem[w].hold, mem[w].since)
  BY MemFields, DiskFields DEF IsMem, Memories, EngineInv
<1>3. DiskTo(disk.prints \cup {e}, disk.marked, disk.deferred, disk.window)
  BY <1>1 DEF DiskTo, EngineInv, EngineTypeOK
<1> QED BY <1>1, <1>2, <1>3, MemFrom DEF Remember, EngineInv

LEMMA TakeTurnDoes ==
  ASSUME EngineInv, NEW w \in Workers, TakeTurn(w)
  PROVE  /\ loop[w].at = "next" /\ mem' = mem
         /\ \E e \in loop[w].batch :
              /\ runs[e] < MaxFirings[e]
              /\ LoopTo(w, loop[w].phase, "turn", loop[w].rule, loop[w].batch \ {e}, e, loop[w].settled, loop[w].out)
<1>1. PICK e \in loop[w].batch : loop[w].at = "next" /\ mem' = mem /\ runs[e] < MaxFirings[e]
        /\ loop' = [loop EXCEPT ![w].batch = @ \ {e}, ![w].event = e, ![w].at = "turn"]
  BY DEF TakeTurn, AtNext
<1> DEFINE batch == loop[w].batch \ {e}
<1>2. e \in Events /\ batch \in SUBSET Events /\ loop[w].settled \in SUBSET Events
  BY LoopFields DEF EngineInv
<1>3. loop' = [loop EXCEPT ![w] = [loop[w] EXCEPT !.at = "turn", !.batch = batch, !.event = e, !.settled = loop[w].settled]]
  BY ZenonT(60), <1>1 DEF EngineInv, EngineTypeOK, Loops
<1>4. LoopTo(w, loop[w].phase, "turn", loop[w].rule, batch, e, loop[w].settled, loop[w].out)
  <2> HIDE DEF batch
  <2> QED BY <1>1, <1>2, <1>3, ThreadTo DEF AtRule
<1> QED BY <1>1, <1>4

LEMMA AgentMissingDoes ==
  ASSUME EngineInv, NEW w \in Workers, AgentMissing(w)
  PROVE  /\ loop[w].at = "next"
         /\ \E e \in loop[w].batch :
              /\ runs[e] < MaxFirings[e] /\ runs' = [runs EXCEPT ![e] = @ + 1]
              /\ closed' = closed \cup {<<e, runs[e] + 1>>}
              /\ LoopTo(w, loop[w].phase, "next", loop[w].rule, loop[w].batch \ {e}, loop[w].event,
                        loop[w].settled \cup {e}, loop[w].out)
              /\ MemTo(w, disk.prints \cup {e}, mem[w].marked, mem[w].deferred, mem[w].window, mem[w].hold, mem[w].since)
              /\ DiskTo(disk.prints \cup {e}, disk.marked, disk.deferred, disk.window)
<1>1. PICK e \in loop[w].batch : loop[w].at = "next" /\ runs[e] < MaxFirings[e] /\ Remember(w, e)
        /\ closed' = closed \cup {<<e, runs[e] + 1>>}
        /\ loop' = [loop EXCEPT ![w].batch = @ \ {e}, ![w].settled = @ \cup {e}]
  BY DEF AgentMissing, AtNext, Audited
<1> DEFINE batch == loop[w].batch \ {e}
           settled == loop[w].settled \cup {e}
<1>2. /\ e \in Events /\ batch \in SUBSET Events /\ settled \in SUBSET Events
      /\ loop[w].event \in Events \cup {None}
  BY LoopFields DEF EngineInv
<1>3. loop' = [loop EXCEPT ![w] = [loop[w] EXCEPT !.at = "next", !.batch = batch, !.event = loop[w].event, !.settled = settled]]
  <2>1. loop' = [loop EXCEPT ![w] = [loop[w] EXCEPT !.batch = batch, !.settled = settled]]
    BY <1>1 DEF EngineInv, EngineTypeOK, Loops
  <2>2. loop[w] \in Loops /\ loop[w].at = "next"
    BY <1>1, LoopFields DEF EngineInv
  <2>3. [loop[w] EXCEPT !.batch = batch, !.settled = settled]
          = [loop[w] EXCEPT !.at = "next", !.batch = batch, !.event = loop[w].event, !.settled = settled]
    <3> HIDE DEF batch, settled
    <3> QED BY <2>2 DEF Loops
  <2> QED BY <2>1, <2>3
<1>4. LoopTo(w, loop[w].phase, "next", loop[w].rule, batch, loop[w].event, settled, loop[w].out)
  <2> HIDE DEF batch, settled
  <2> QED BY <1>1, <1>2, <1>3, ThreadTo DEF AtRule
<1> QED BY <1>1, <1>2, <1>4, RememberDoes

LEMMA GivenUp ==
  ASSUME NEW m \in [Workers -> Memories], NEW w \in Workers, NEW e \in Events
  PROVE  [m EXCEPT ![w].prints = @ \cup {e}, ![w].tries[e] = 0]
           = [m EXCEPT ![w] = [m[w] EXCEPT !.prints = m[w].prints \cup {e}, !.tries = [m[w].tries EXCEPT ![e] = 0]]]
BY DEF Memories

LEMMA TurnFailsDoes ==
  ASSUME EngineInv, NEW w \in Workers, TurnFails(w)
  PROVE  /\ loop[w].at = "turn"
         /\ \/ /\ runs' = [runs EXCEPT ![loop[w].event] = @ + 1]
               /\ closed' = closed \cup {<<loop[w].event, runs[loop[w].event] + 1>>}
               /\ LoopTo(w, loop[w].phase, "next", loop[w].rule, loop[w].batch, loop[w].event,
                         loop[w].settled \cup {loop[w].event}, loop[w].out)
               /\ MemTo(w, disk.prints \cup {loop[w].event}, mem[w].marked, mem[w].deferred, mem[w].window,
                        mem[w].hold, mem[w].since)
               /\ DiskTo(disk.prints \cup {loop[w].event}, disk.marked, disk.deferred, disk.window)
            \/ /\ UNCHANGED <<disk, closed, runs>>
               /\ LoopTo(w, loop[w].phase, "next", loop[w].rule, loop[w].batch, loop[w].event,
                         loop[w].settled, loop[w].out)
               /\ MemTo(w, mem[w].prints, mem[w].marked, mem[w].deferred, mem[w].window, mem[w].hold, mem[w].since)
<1> DEFINE e == loop[w].event
           n == mem[w].tries[e] + 1
           tries(k) == [mem[w].tries EXCEPT ![e] = k]
           settled == loop[w].settled \cup {e}
<1>1. /\ loop[w].at = "turn" /\ e \in Events /\ settled \in SUBSET Events /\ loop[w].batch \in SUBSET Events
      /\ loop[w].settled \in SUBSET Events /\ n \in Nat
  <2>1. loop[w].at = "turn" /\ e \in Events
    BY DEF TurnFails, EngineInv, WorkerInv, Phased
  <2>2. mem[w].tries[e] \in 0 .. MaxAttempts - 1
    BY <2>1, MemFields DEF EngineInv
  <2>3. mem[w].tries[e] \in Nat
    BY <2>2
  <2> QED BY <2>1, <2>3, LoopFields DEF EngineInv
<1>2. 0 \in 0 .. MaxAttempts - 1
  OBVIOUS
<1>3. CASE n >= MaxAttempts
  <2> DEFINE m == [mem[w] EXCEPT !.prints = disk.prints \cup {e}, !.tries = tries(0)]
  <2>1. /\ mem' = [mem EXCEPT ![w].prints = @ \cup {e}, ![w].tries[e] = 0]
        /\ disk' = [disk EXCEPT !.prints = mem[w].prints \cup {e}]
        /\ runs' = [runs EXCEPT ![e] = @ + 1] /\ closed' = closed \cup {<<e, runs[e] + 1>>}
        /\ loop' = [loop EXCEPT ![w].at = "next", ![w].settled = @ \cup {e}]
    BY <1>3 DEF TurnFails, Audited
  <2>2. mem' = [mem EXCEPT ![w] = m]
    <3>1. mem \in [Workers -> Memories] /\ mem[w].prints = disk.prints /\ e \in Events
      BY <1>1, AtWork DEF EngineInv, EngineTypeOK
    <3>2. mem' = [mem EXCEPT ![w] = [mem[w] EXCEPT !.prints = mem[w].prints \cup {e}, !.tries = tries(0)]]
      <4> HIDE DEF e
      <4> QED BY <2>1, <3>1, GivenUp
    <3> QED BY <3>1, <3>2
  <2>3. tries(0) \in [Events -> 0 .. MaxAttempts - 1]
    BY <1>2, MemFields DEF EngineInv
  <2>4. IsMem(m, disk.prints \cup {e}, mem[w].marked, mem[w].deferred, mem[w].window, mem[w].hold, mem[w].since)
    <3> HIDE DEF tries, e
    <3> QED BY ZenonT(60), <1>1, <2>3, MemFields, DiskFields DEF IsMem, Memories, EngineInv
  <2>5. MemTo(w, disk.prints \cup {e}, mem[w].marked, mem[w].deferred, mem[w].window, mem[w].hold, mem[w].since)
    <3> HIDE DEF m, e
    <3> QED BY <2>2, <2>4, MemFrom DEF EngineInv
  <2>6. DiskTo(disk.prints \cup {e}, disk.marked, disk.deferred, disk.window)
    BY <1>1, <2>1, AtWork DEF DiskTo, EngineInv, EngineTypeOK
  <2>7. loop' = [loop EXCEPT ![w] = [loop[w] EXCEPT !.at = "next", !.batch = loop[w].batch, !.event = e, !.settled = settled]]
    BY ZenonT(60), <2>1 DEF EngineInv, EngineTypeOK, Loops
  <2>8. LoopTo(w, loop[w].phase, "next", loop[w].rule, loop[w].batch, e, settled, loop[w].out)
    <3> HIDE DEF settled, e
    <3> QED BY <1>1, <2>7, ThreadTo DEF AtRule
  <2> QED BY <1>1, <2>1, <2>5, <2>6, <2>8
<1>4. CASE ~(n >= MaxAttempts)
  <2> DEFINE m == [mem[w] EXCEPT !.tries = tries(n)]
  <2>1. /\ mem' = [mem EXCEPT ![w].tries[e] = n] /\ UNCHANGED <<disk, closed, runs>>
        /\ loop' = [loop EXCEPT ![w].at = "next"]
    BY <1>4 DEF TurnFails
  <2>2. mem' = [mem EXCEPT ![w] = m]
    BY <1>1, <2>1 DEF EngineInv, EngineTypeOK, Memories
  <2>3. tries(n) \in [Events -> 0 .. MaxAttempts - 1]
    <3>1. n \in 0 .. MaxAttempts - 1
      BY <1>1, <1>4
    <3> QED BY <3>1, MemFields DEF EngineInv
  <2>4. IsMem(m, mem[w].prints, mem[w].marked, mem[w].deferred, mem[w].window, mem[w].hold, mem[w].since)
    <3> HIDE DEF tries, e, n
    <3> QED BY <2>3, MemFields DEF IsMem, Memories, EngineInv
  <2>5. MemTo(w, mem[w].prints, mem[w].marked, mem[w].deferred, mem[w].window, mem[w].hold, mem[w].since)
    <3> HIDE DEF m
    <3> QED BY <2>2, <2>4, MemFrom DEF EngineInv
  <2>7. loop' = [loop EXCEPT ![w] = [loop[w] EXCEPT !.at = "next", !.batch = loop[w].batch, !.event = e,
                                                    !.settled = loop[w].settled]]
    BY <2>1 DEF EngineInv, EngineTypeOK, Loops
  <2>8. LoopTo(w, loop[w].phase, "next", loop[w].rule, loop[w].batch, e, loop[w].settled, loop[w].out)
    <3> HIDE DEF e
    <3> QED BY <1>1, <2>7, ThreadTo DEF AtRule
  <2> QED BY <1>1, <2>1, <2>5, <2>8
<1> QED BY <1>3, <1>4

LEMMA TurnEndsDoes ==
  ASSUME EngineInv, NEW w \in Workers, TurnEnds(w)
  PROVE  /\ loop[w].at = "turn" /\ mem' = mem
         /\ LoopTo(w, loop[w].phase, "ran", loop[w].rule, loop[w].batch, loop[w].event, loop[w].settled, loop[w].out)
<1>1. loop[w].batch \in SUBSET Events /\ loop[w].settled \in SUBSET Events /\ loop[w].event \in Events \cup {None}
  BY LoopFields DEF EngineInv
<1>2. loop' = [loop EXCEPT ![w] = [loop[w] EXCEPT !.at = "ran", !.batch = loop[w].batch, !.event = loop[w].event,
                                                  !.settled = loop[w].settled]]
  BY DEF TurnEnds, EngineInv, EngineTypeOK, Loops
<1> QED BY <1>1, <1>2, ThreadTo DEF TurnEnds, AtRule

LEMMA FingerprintDoes ==
  ASSUME EngineInv, NEW w \in Workers, Fingerprint(w)
  PROVE  /\ loop[w].at = "ran" /\ loop[w].event \in Events
         /\ runs' = [runs EXCEPT ![loop[w].event] = @ + 1]
         /\ LoopTo(w, loop[w].phase, "route", loop[w].rule, loop[w].batch, loop[w].event, loop[w].settled, loop[w].out)
         /\ MemTo(w, disk.prints \cup {loop[w].event}, mem[w].marked, mem[w].deferred, mem[w].window, mem[w].hold,
                  mem[w].since)
         /\ DiskTo(disk.prints \cup {loop[w].event}, disk.marked, disk.deferred, disk.window)
<1>1. /\ loop[w].batch \in SUBSET Events /\ loop[w].settled \in SUBSET Events
      /\ loop[w].at = "ran" /\ loop[w].event \in Events
  BY LoopFields DEF EngineInv, WorkerInv, Phased, Fingerprint
<1>2. loop' = [loop EXCEPT ![w] = [loop[w] EXCEPT !.at = "route", !.batch = loop[w].batch, !.event = loop[w].event,
                                                  !.settled = loop[w].settled]]
  BY DEF Fingerprint, EngineInv, EngineTypeOK, Loops
<1>3. Remember(w, loop[w].event)
  BY DEF Fingerprint
<1> QED BY <1>1, <1>2, <1>3, ThreadTo, RememberDoes DEF AtRule

LEMMA RoutedDoes ==
  ASSUME EngineInv, NEW w \in Workers, Routed(w)
  PROVE  /\ loop[w].at = "route" /\ loop[w].event \in Events /\ Last(loop[w].event) \in Firings
         /\ UNCHANGED <<world, faults, leader, firing, up, history>>
         /\ LoopTo(w, loop[w].phase, "next", loop[w].rule, loop[w].batch, loop[w].event,
                   loop[w].settled \cup {loop[w].event}, loop[w].out)
<1> DEFINE settled == loop[w].settled \cup {loop[w].event}
<1>1. loop[w].at = "route" /\ loop[w].event \in Events /\ runs[loop[w].event] > 0
  BY DEF Routed, EngineInv, WorkerInv, Phased
<1>2. Last(loop[w].event) \in Firings
  <2>1. runs[loop[w].event] \in 1 .. MaxFirings[loop[w].event]
    BY <1>1 DEF EngineInv, EngineTypeOK
  <2> QED BY <1>1, <2>1, FiringOf DEF Last
<1>3. settled \in SUBSET Events /\ loop[w].batch \in SUBSET Events
  BY <1>1, LoopFields DEF EngineInv
<1>4. loop' = [loop EXCEPT ![w] = [loop[w] EXCEPT !.at = "next", !.batch = loop[w].batch, !.event = loop[w].event,
                                                  !.settled = settled]]
  <2>1. loop' = [loop EXCEPT ![w].at = "next", ![w].settled = @ \cup {loop[w].event}]
    BY DEF Routed
  <2> QED BY ZenonT(60), <2>1 DEF EngineInv, EngineTypeOK, Loops
<1>5. LoopTo(w, loop[w].phase, "next", loop[w].rule, loop[w].batch, loop[w].event, settled, loop[w].out)
  <2> HIDE DEF settled
  <2> QED BY <1>1, <1>3, <1>4, ThreadTo DEF AtRule
<1> QED BY <1>1, <1>2, <1>5 DEF Routed

LEMMA DeferDoes ==
  ASSUME EngineInv, NEW w \in Workers, Defer(w)
  PROVE  LET f == Last(loop[w].event) IN
         /\ MemTo(w, mem[w].prints, mem[w].marked, mem[w].deferred \cup {f}, mem[w].window, mem[w].hold, mem[w].since)
         /\ DiskTo(disk.prints, disk.marked, disk.deferred \cup {f}, disk.window) /\ closed' = closed
<1> DEFINE f == Last(loop[w].event)
           m == [mem[w] EXCEPT !.deferred = mem[w].deferred \cup {f}]
<1>1. f \in Firings /\ loop[w].at = "route"
  BY RoutedDoes DEF Defer
<1>2. mem' = [mem EXCEPT ![w] = m] /\ disk' = [disk EXCEPT !.deferred = mem[w].deferred \cup {f}, !.window = mem[w].window]
  BY DEF Defer, EngineInv, EngineTypeOK, Memories
<1>3. IsMem(m, mem[w].prints, mem[w].marked, mem[w].deferred \cup {f}, mem[w].window, mem[w].hold, mem[w].since)
  <2> HIDE DEF f
  <2> QED BY <1>1, MemFields DEF IsMem, Memories, EngineInv
<1>4. MemTo(w, mem[w].prints, mem[w].marked, mem[w].deferred \cup {f}, mem[w].window, mem[w].hold, mem[w].since)
  BY <1>2, <1>3, MemFrom DEF EngineInv
<1>5. DiskTo(disk.prints, disk.marked, disk.deferred \cup {f}, disk.window)
  <2> HIDE DEF f
  <2> QED BY <1>1, <1>2, AtWork DEF DiskTo, EngineInv, EngineTypeOK
<1> QED BY <1>4, <1>5 DEF Defer

LEMMA HoldDoes ==
  ASSUME EngineInv, NEW w \in Workers, Hold(w)
  PROVE  LET f == Last(loop[w].event) IN
         /\ MemTo(w, mem[w].prints, mem[w].marked, mem[w].deferred, mem[w].window, mem[w].hold \cup {f}, mem[w].since)
         /\ UNCHANGED <<disk, closed>>
<1> DEFINE f == Last(loop[w].event)
           m == [mem[w] EXCEPT !.hold = mem[w].hold \cup {f}]
<1>1. f \in Firings
  BY RoutedDoes DEF Hold
<1>2. mem' = [mem EXCEPT ![w] = m]
  BY DEF Hold, EngineInv, EngineTypeOK, Memories
<1>3. IsMem(m, mem[w].prints, mem[w].marked, mem[w].deferred, mem[w].window, mem[w].hold \cup {f}, mem[w].since)
  <2> HIDE DEF f
  <2> QED BY <1>1, MemFields DEF IsMem, Memories, EngineInv
<1>4. MemTo(w, mem[w].prints, mem[w].marked, mem[w].deferred, mem[w].window, mem[w].hold \cup {f}, mem[w].since)
  BY <1>2, <1>3, MemFrom DEF EngineInv
<1> QED BY <1>4 DEF Hold

LEMMA JoinDoes ==
  ASSUME EngineInv, NEW w \in Workers, Join(w)
  PROVE  LET f == Last(loop[w].event) IN
         /\ MemTo(w, mem[w].prints, mem[w].marked, mem[w].deferred, mem[w].window \cup {f}, mem[w].hold, mem[w].since)
         /\ DiskTo(disk.prints, disk.marked, disk.deferred, disk.window \cup {f}) /\ closed' = closed
<1> DEFINE f == Last(loop[w].event)
           m == [mem[w] EXCEPT !.window = mem[w].window \cup {f}]
<1>1. f \in Firings /\ loop[w].at = "route"
  BY RoutedDoes DEF Join
<1>2. mem' = [mem EXCEPT ![w] = m] /\ disk' = [disk EXCEPT !.window = mem[w].window \cup {f}, !.deferred = mem[w].deferred]
  BY DEF Join, EngineInv, EngineTypeOK, Memories
<1>3. IsMem(m, mem[w].prints, mem[w].marked, mem[w].deferred, mem[w].window \cup {f}, mem[w].hold, mem[w].since)
  <2> HIDE DEF f
  <2> QED BY <1>1, MemFields DEF IsMem, Memories, EngineInv
<1>4. MemTo(w, mem[w].prints, mem[w].marked, mem[w].deferred, mem[w].window \cup {f}, mem[w].hold, mem[w].since)
  BY <1>2, <1>3, MemFrom DEF EngineInv
<1>5. DiskTo(disk.prints, disk.marked, disk.deferred, disk.window \cup {f})
  <2> HIDE DEF f
  <2> QED BY <1>1, <1>2, AtWork DEF DiskTo, EngineInv, EngineTypeOK
<1> QED BY <1>4, <1>5 DEF Join

LEMMA EndRuleDoes ==
  ASSUME EngineInv, NEW w \in Workers, EndRule(w)
  PROVE  LET fired == loop[w].settled \cap Instants IN
         /\ loop[w].at = "next"
         /\ \/ LoopTo(w, "asleep", "free", None, {}, None, {}, <<>>) /\ loop'[w] = Asleep
            \/ LoopTo(w, loop[w].phase, "free", None, {}, None, {}, loop[w].out)
         /\ MemTo(w, mem[w].prints, disk.marked \cup fired, mem[w].deferred, mem[w].window, mem[w].hold, mem[w].since)
         /\ DiskTo(disk.prints, disk.marked \cup fired, disk.deferred, disk.window)
         /\ UNCHANGED <<world, faults, leader, firing, closed, up, history>>
<1> DEFINE fired == loop[w].settled \cap Instants
           r == loop[w].rule
           kept == IF r \in loop[w].awaited THEN 0 ELSE mem[w].fails[r]
           fails == [mem[w].fails EXCEPT ![r] = kept]
           muted == IF r \in loop[w].awaited THEN mem[w].muted \ {r} ELSE mem[w].muted
           m == [mem[w] EXCEPT !.marked = disk.marked \cup fired, !.fails = fails, !.muted = muted]
           l == [loop[w] EXCEPT !.at = "free", !.rule = None, !.event = None, !.batch = {}, !.settled = {},
                                !.awaited = loop[w].awaited \ {r}]
<1>1. loop[w].at = "next" /\ r \in Rules /\ mem[w].marked = disk.marked
  BY AtWork DEF EndRule, AtNext
<1>2. \/ LoopTo(w, "asleep", "free", None, {}, None, {}, <<>>) /\ loop'[w] = Asleep
      \/ LoopTo(w, loop[w].phase, "free", None, {}, None, {}, loop[w].out)
  <2>1. CASE up[w] = "leaving"
    <3>1. loop' = [loop EXCEPT ![w] = Asleep]
      BY <2>1 DEF EndRule
    <3> QED BY <3>1, AsleepTo DEF EngineInv
  <2>2. CASE up[w] # "leaving"
    <3>1. loop' = [loop EXCEPT ![w] = l]
      BY <2>2 DEF EndRule
    <3>2. loop[w].todo \subseteq loop[w].awaited \ {r}
      BY <1>1, LoopFields DEF EngineInv, AtRule
    <3>3. IsLoop(l, loop[w].phase, "free", None, {}, None, {}, loop[w].out)
      <4> HIDE DEF r
      <4> QED BY ZenonT(60), <3>2, LoopFields DEF IsLoop, AtRule, Loops, EngineInv
    <3>4. LoopTo(w, loop[w].phase, "free", None, {}, None, {}, loop[w].out)
      <4> HIDE DEF l
      <4> QED BY <3>1, <3>3, LoopFrom DEF EngineInv
    <3> QED BY <3>4
  <2> QED BY <2>1, <2>2
<1>3. MemTo(w, mem[w].prints, disk.marked \cup fired, mem[w].deferred, mem[w].window, mem[w].hold, mem[w].since)
  <2>1. mem' = [mem EXCEPT ![w].marked = mem[w].marked \cup fired,
                           ![w].fails[r] = IF r \in loop[w].awaited THEN 0 ELSE @,
                           ![w].muted = IF r \in loop[w].awaited THEN @ \ {r} ELSE @]
    BY DEF EndRule
  <2>2. mem' = [mem EXCEPT ![w] = m]
    <3>1. mem \in [Workers -> Memories]
      BY DEF EngineInv, EngineTypeOK
    <3>2. CASE r \in loop[w].awaited
      <4>1. mem' = [mem EXCEPT ![w].marked = mem[w].marked \cup fired, ![w].fails[r] = 0, ![w].muted = @ \ {r}]
        BY <2>1, <3>2
      <4>3. [mem EXCEPT ![w].marked = mem[w].marked \cup fired, ![w].fails[r] = 0, ![w].muted = @ \ {r}]
              = [mem EXCEPT ![w] = [mem[w] EXCEPT !.marked = mem[w].marked \cup fired,
                                                  !.fails = [mem[w].fails EXCEPT ![r] = 0], !.muted = mem[w].muted \ {r}]]
        <5> HIDE DEF fired, r
        <5> QED BY ZenonT(60), <1>1, <3>1 DEF Memories
      <4>2. kept = 0 /\ muted = mem[w].muted \ {r}
        BY <3>2
      <4> HIDE DEF kept, muted, fired, r
      <4> QED BY <1>1, <4>1, <4>2, <4>3
    <3>3. CASE r \notin loop[w].awaited
      <4>1. mem' = [mem EXCEPT ![w].marked = mem[w].marked \cup fired, ![w].fails[r] = @, ![w].muted = @]
        BY <2>1, <3>3
      <4>3. [mem EXCEPT ![w].marked = mem[w].marked \cup fired, ![w].fails[r] = @, ![w].muted = @]
              = [mem EXCEPT ![w] = [mem[w] EXCEPT !.marked = mem[w].marked \cup fired,
                                                  !.fails = [mem[w].fails EXCEPT ![r] = mem[w].fails[r]],
                                                  !.muted = mem[w].muted]]
        <5> HIDE DEF fired, r
        <5> QED BY ZenonT(60), <1>1, <3>1 DEF Memories
      <4>2. kept = mem[w].fails[r] /\ muted = mem[w].muted
        BY <3>3
      <4> HIDE DEF kept, muted, fired, r
      <4> QED BY <1>1, <4>1, <4>2, <4>3
    <3> QED BY <3>2, <3>3
  <2>3. fails \in [Rules -> 0 .. BackoffAfter] /\ muted \in SUBSET Rules /\ fired \in SUBSET Instants
    <3>1. 0 \in 0 .. BackoffAfter
      OBVIOUS
    <3> QED BY ZenonT(60), <1>1, <3>1, MemFields DEF EngineInv
  <2>4. IsMem(m, mem[w].prints, disk.marked \cup fired, mem[w].deferred, mem[w].window, mem[w].hold, mem[w].since)
    <3> HIDE DEF fails, muted, fired, r
    <3> QED BY ZenonT(60), <2>3, MemFields, DiskFields DEF IsMem, Memories, EngineInv
  <2> HIDE DEF m
  <2> QED BY <2>2, <2>4, MemFrom DEF EngineInv
<1>4. DiskTo(disk.prints, disk.marked \cup fired, disk.deferred, disk.window)
  BY <1>1 DEF DiskTo, EndRule, EngineInv, EngineTypeOK
<1> QED BY <1>1, <1>2, <1>3, <1>4 DEF EndRule

----------------------------------------------------------------------------
(* The releases. *)

LEMMA FirstRuleIs == FirstRule \in Rules
<1>1. IsWellFoundedOn(OpToRel(<,Nat), Nat)
  BY NatLessThanWellFounded
<1>2. PICK r \in Rules : \A s \in Rules : ~(<<s, r>> \in OpToRel(<,Nat))
  BY <1>1, WFMin
<1>3. ASSUME NEW s \in Rules, s < r PROVE FALSE
  <2>1. <<s, r>> \in Nat \X Nat /\ <<s, r>>[1] < <<s, r>>[2]
    BY <1>3
  <2> QED BY <1>2, <2>1 DEF OpToRel
<1>4. \A s \in Rules : r <= s
  BY <1>3
<1> QED BY <1>4 DEF FirstRule

\* A release changes where it is and what is on its way out.
LEMMA ReleaseTo ==
  ASSUME EngineInv, NEW w \in Workers, NEW at \in {"deferred", "held", "window"},
         NEW out \in Seq(Batches), loop' = [loop EXCEPT ![w] = [loop[w] EXCEPT !.at = at, !.out = out]]
  PROVE  LoopTo(w, loop[w].phase, at, loop[w].rule, loop[w].batch, loop[w].event, loop[w].settled, out)
<1> DEFINE l == [loop[w] EXCEPT !.at = at, !.out = out]
<1>1. IsLoop(l, loop[w].phase, at, loop[w].rule, loop[w].batch, loop[w].event, loop[w].settled, out)
  BY ZenonT(60), LoopFields DEF IsLoop, AtRule, Loops, EngineInv
<1> QED BY <1>1, LoopFrom DEF EngineInv

LEMMA BatchIs ==
  ASSUME NEW fs \in SUBSET Firings, NEW why \in {"quiet", "ended", "bound", "now"}
  PROVE  /\ Batch(fs, why) \in Seq(Batches)
         /\ \/ fs = {} /\ Batch(fs, why) = <<>>
            \/ /\ Len(Batch(fs, why)) = 1
               /\ Batch(fs, why)[1].firings = fs /\ Batch(fs, why)[1].at = "check" /\ Batch(fs, why)[1].why = why
<1>1. CASE fs = {}
  BY <1>1 DEF Batch
<1>2. CASE fs # {}
  <2>1. [firings |-> fs, why |-> why, at |-> "check"] \in Batches
    BY DEF Batches
  <2> QED BY <1>2, <2>1 DEF Batch
<1> QED BY <1>1, <1>2

LEMMA BeginReleaseDoes ==
  ASSUME EngineInv, NEW w \in Workers, BeginRelease(w)
  PROVE  /\ loop[w].phase = "evaluate" /\ loop[w].at = "free" /\ up[w] = "leading"
         /\ LoopTo(w, "release", "deferred", FirstRule, loop[w].batch, loop[w].event, loop[w].settled, loop[w].out)
         /\ mem' = mem
<1> DEFINE l == [loop[w] EXCEPT !.phase = "release", !.rule = FirstRule, !.at = "deferred"]
<1>1. loop' = [loop EXCEPT ![w] = l]
  BY DEF BeginRelease, EngineInv, EngineTypeOK, Loops
<1>2. IsLoop(l, "release", "deferred", FirstRule, loop[w].batch, loop[w].event, loop[w].settled, loop[w].out)
  BY LoopFields, FirstRuleIs DEF IsLoop, AtRule, Loops, EngineInv
<1> QED BY <1>1, <1>2, LoopFrom DEF BeginRelease, EngineInv

LEMMA NextRuleDoes ==
  ASSUME EngineInv, NEW w \in Workers, NextRule(w)
  PROVE  /\ loop[w].phase = "release" /\ mem' = mem
         /\ \E r \in Rules : LoopTo(w, loop[w].phase, "deferred", r, loop[w].batch, loop[w].event, loop[w].settled,
                                    loop[w].out)
<1>1. PICK r \in Rules : loop[w].phase = "release" /\ mem' = mem
                         /\ loop' = [loop EXCEPT ![w].rule = r, ![w].at = "deferred"]
  BY DEF NextRule, AtRelease
<1> DEFINE l == [loop[w] EXCEPT !.rule = r, !.at = "deferred"]
<1>2. loop' = [loop EXCEPT ![w] = l]
  BY <1>1 DEF EngineInv, EngineTypeOK, Loops
<1>3. IsLoop(l, loop[w].phase, "deferred", r, loop[w].batch, loop[w].event, loop[w].settled, loop[w].out)
  BY LoopFields DEF IsLoop, AtRule, Loops, EngineInv
<1>4. LoopTo(w, loop[w].phase, "deferred", r, loop[w].batch, loop[w].event, loop[w].settled, loop[w].out)
  BY <1>2, <1>3, LoopFrom DEF EngineInv
<1> QED BY <1>1, <1>4

LEMMA ReleaseDeferredDoes ==
  ASSUME EngineInv, NEW w \in Workers, ReleaseDeferred(w)
  PROVE  /\ loop[w].phase = "release" /\ loop[w].out = <<>>
         /\ LoopTo(w, loop[w].phase, "held", loop[w].rule, loop[w].batch, loop[w].event, loop[w].settled,
                   Batch(disk.deferred, "quiet"))
         /\ MemTo(w, mem[w].prints, mem[w].marked, {}, mem[w].window, mem[w].hold, mem[w].since)
         /\ DiskTo(disk.prints, disk.marked, {}, disk.window)
<1> DEFINE out == Batch(disk.deferred, "quiet")
           m == [mem[w] EXCEPT !.deferred = {}]
<1>1. loop[w].phase = "release" /\ loop[w].out = <<>>
  BY DEF ReleaseDeferred, AtRelease
<1>2. mem[w].deferred = disk.deferred /\ mem[w].window = disk.window
  BY <1>1, AtReleaseWork
<1>3. /\ loop' = [loop EXCEPT ![w] = [loop[w] EXCEPT !.at = "held", !.out = out]]
      /\ mem' = [mem EXCEPT ![w] = m]
      /\ disk' = [disk EXCEPT !.deferred = {}, !.window = mem[w].window]
  BY <1>2 DEF ReleaseDeferred, EngineInv, EngineTypeOK, Loops, Memories
<1>4. out \in Seq(Batches)
  BY BatchIs, DiskFields DEF EngineInv
<1>5. LoopTo(w, loop[w].phase, "held", loop[w].rule, loop[w].batch, loop[w].event, loop[w].settled, out)
  <2> HIDE DEF out
  <2> QED BY <1>3, <1>4, ReleaseTo
<1>6. IsMem(m, mem[w].prints, mem[w].marked, {}, mem[w].window, mem[w].hold, mem[w].since)
  BY MemFields DEF IsMem, Memories, EngineInv
<1>7. MemTo(w, mem[w].prints, mem[w].marked, {}, mem[w].window, mem[w].hold, mem[w].since)
  BY <1>3, <1>6, MemFrom DEF EngineInv
<1>8. DiskTo(disk.prints, disk.marked, {}, disk.window)
  BY <1>2, <1>3 DEF DiskTo, EngineInv, EngineTypeOK
<1> QED BY <1>1, <1>5, <1>7, <1>8

LEMMA ReleaseHeldDoes ==
  ASSUME EngineInv, NEW w \in Workers, ReleaseHeld(w)
  PROVE  /\ loop[w].phase = "release" /\ loop[w].out = <<>> /\ disk' = disk
         /\ \E free \in SUBSET mem[w].hold, late, expired \in SUBSET mem[w].hold :
              /\ free \cap late = {} /\ closed' = closed \cup expired
              /\ LoopTo(w, loop[w].phase, "window", loop[w].rule, loop[w].batch, loop[w].event, loop[w].settled,
                        Batch(free, "ended") \o Batch(late, "bound"))
              /\ MemTo(w, mem[w].prints, mem[w].marked, mem[w].deferred, mem[w].window,
                       mem[w].hold \ (free \cup late \cup expired), mem[w].since)
<1>1. PICK free \in SUBSET mem[w].hold :
        LET ripe == (mem[w].hold \cap mem[w].ripe) \ free
            late == {f \in ripe : f[1] \in Questions} IN
        /\ AtRelease(w, "held")
        /\ loop' = [loop EXCEPT ![w].at = "window", ![w].out = Batch(free, "ended") \o Batch(late, "bound")]
        /\ mem' = [mem EXCEPT ![w].hold = @ \ (free \cup ripe), ![w].ripe = @ \ (free \cup ripe)]
        /\ Audited(ripe \ late) /\ disk' = disk
  BY DEF ReleaseHeld
<1> DEFINE ripe == (mem[w].hold \cap mem[w].ripe) \ free
           late == {f \in ripe : f[1] \in Questions}
           expired == ripe \ late
           out == Batch(free, "ended") \o Batch(late, "bound")
           hold == mem[w].hold \ (free \cup late \cup expired)
           m == [mem[w] EXCEPT !.hold = hold, !.ripe = mem[w].ripe \ (free \cup ripe)]
<1>2. loop[w].phase = "release" /\ loop[w].out = <<>> /\ disk' = disk /\ closed' = closed \cup expired
  BY <1>1 DEF AtRelease, Audited
<1>3. late \in SUBSET mem[w].hold /\ expired \in SUBSET mem[w].hold /\ free \cap late = {}
  OBVIOUS
<1>4. out \in Seq(Batches)
  <2>1. free \in SUBSET Firings /\ late \in SUBSET Firings
    BY <1>3, MemFields DEF EngineInv
  <2>2. Batch(free, "ended") \in Seq(Batches) /\ Batch(late, "bound") \in Seq(Batches)
    <3> HIDE DEF late
    <3> QED BY <2>1, BatchIs
  <2> QED BY <2>2
<1>5. LoopTo(w, loop[w].phase, "window", loop[w].rule, loop[w].batch, loop[w].event, loop[w].settled, out)
  <2>1. loop' = [loop EXCEPT ![w].at = "window", ![w].out = out]
    BY <1>1
  <2> HIDE DEF out
  <2>2. loop' = [loop EXCEPT ![w] = [loop[w] EXCEPT !.at = "window", !.out = out]]
    BY <2>1 DEF EngineInv, EngineTypeOK, Loops
  <2> QED BY <1>4, <2>2, ReleaseTo
<1>6. MemTo(w, mem[w].prints, mem[w].marked, mem[w].deferred, mem[w].window, hold, mem[w].since)
  <2>1. hold = mem[w].hold \ (free \cup ripe)
    OBVIOUS
  <2>2. mem' = [mem EXCEPT ![w] = m]
    <3>1. mem' = [mem EXCEPT ![w].hold = @ \ (free \cup ripe), ![w].ripe = @ \ (free \cup ripe)]
      BY <1>1
    <3> HIDE DEF hold, ripe
    <3> QED BY <2>1, <3>1 DEF EngineInv, EngineTypeOK, Memories
  <2>3. mem[w].ripe \ (free \cup ripe) \subseteq hold \cup mem[w].window /\ hold \in SUBSET Firings
    BY <2>1, MemFields DEF EngineInv
  <2>4. IsMem(m, mem[w].prints, mem[w].marked, mem[w].deferred, mem[w].window, hold, mem[w].since)
    <3> HIDE DEF hold, ripe
    <3> QED BY <2>3, MemFields DEF IsMem, Memories, EngineInv
  <2> HIDE DEF hold, m
  <2> QED BY <2>2, <2>4, MemFrom DEF EngineInv
<1> HIDE DEF late, expired
<1> QED BY <1>2, <1>3, <1>5, <1>6

LEMMA FlushWindowDoes ==
  ASSUME EngineInv, NEW w \in Workers, FlushWindow(w)
  PROVE  /\ loop[w].phase = "release" /\ loop[w].out = <<>>
         /\ LoopTo(w, loop[w].phase, "window", loop[w].rule, loop[w].batch, loop[w].event, loop[w].settled,
                   Batch(disk.window, "now"))
         /\ MemTo(w, mem[w].prints, mem[w].marked, mem[w].deferred, {}, mem[w].hold, mem[w].since)
         /\ DiskTo(disk.prints, disk.marked, disk.deferred, {})
<1> DEFINE out == Batch(disk.window, "now")
           m == [mem[w] EXCEPT !.window = {}, !.ripe = mem[w].ripe \ mem[w].window]
<1>1. loop[w].phase = "release" /\ loop[w].out = <<>>
  BY DEF FlushWindow, AtRelease
<1>2. mem[w].deferred = disk.deferred /\ mem[w].window = disk.window
  BY <1>1, AtReleaseWork
<1>3. /\ loop' = [loop EXCEPT ![w] = [loop[w] EXCEPT !.at = "window", !.out = out]]
      /\ disk' = [disk EXCEPT !.window = {}, !.deferred = mem[w].deferred]
  BY <1>2 DEF FlushWindow, EngineInv, EngineTypeOK, Loops
<1>4. mem' = [mem EXCEPT ![w] = m]
  BY DEF FlushWindow, EngineInv, EngineTypeOK, Memories
<1>5. out \in Seq(Batches)
  BY BatchIs, DiskFields DEF EngineInv
<1>6. LoopTo(w, loop[w].phase, "window", loop[w].rule, loop[w].batch, loop[w].event, loop[w].settled, out)
  <2> HIDE DEF out
  <2> QED BY <1>3, <1>5, ReleaseTo
<1>7. IsMem(m, mem[w].prints, mem[w].marked, mem[w].deferred, {}, mem[w].hold, mem[w].since)
  BY MemFields DEF IsMem, Memories, EngineInv
<1>8. MemTo(w, mem[w].prints, mem[w].marked, mem[w].deferred, {}, mem[w].hold, mem[w].since)
  BY <1>4, <1>7, MemFrom DEF EngineInv
<1>9. DiskTo(disk.prints, disk.marked, disk.deferred, {})
  BY <1>2, <1>3 DEF DiskTo, EngineInv, EngineTypeOK
<1> QED BY <1>1, <1>6, <1>8, <1>9

\* The first batch on its way out.
LEMMA OutIs ==
  ASSUME EngineInv, NEW w \in Workers, loop[w].out # <<>>
  PROVE  /\ Out(w) \in Batches /\ Out(w).firings \subseteq Firings /\ Tail(loop[w].out) \in Seq(Batches)
         /\ 1 \in DOMAIN loop[w].out /\ loop[w].phase = "release"
<1>1. loop[w].out \in Seq(Batches)
  BY LoopFields DEF EngineInv
<1>2. Out(w) \in Batches /\ Tail(loop[w].out) \in Seq(Batches) /\ 1 \in DOMAIN loop[w].out
  BY <1>1 DEF Out
<1>3. loop[w].phase = "release"
  BY LoopFields DEF EngineInv, WorkerInv, Phased, Asleep
<1> QED BY <1>2, <1>3 DEF Batches

LEMMA OutTo ==
  ASSUME EngineInv, NEW w \in Workers, NEW out \in Seq(Batches), loop[w].out # <<>>,
         loop' = [loop EXCEPT ![w].out = out]
  PROVE  LoopTo(w, loop[w].phase, loop[w].at, loop[w].rule, loop[w].batch, loop[w].event, loop[w].settled, out)
<1>1. loop[w].at \in {"deferred", "held", "window"} /\ loop[w] \in Loops
  BY OutIs, AtReleaseWork, LoopFields DEF EngineInv
<1>2. loop' = [loop EXCEPT ![w] = [loop[w] EXCEPT !.at = loop[w].at, !.out = out]]
  <2>1. [loop[w] EXCEPT !.at = loop[w].at, !.out = out] = [loop[w] EXCEPT !.out = out]
    BY <1>1 DEF Loops
  <2> QED BY <2>1 DEF EngineInv, EngineTypeOK
<1> QED BY <1>1, <1>2, ReleaseTo

LEMMA RecheckDoes ==
  ASSUME EngineInv, NEW w \in Workers, Recheck(w)
  PROVE  /\ loop[w].out # <<>> /\ Out(w).at = "check" /\ mem' = mem /\ disk' = disk
         /\ \E left \in SUBSET Out(w).firings, out \in Seq(Batches) :
              /\ closed' = closed \cup (Out(w).firings \ left)
              /\ LoopTo(w, loop[w].phase, loop[w].at, loop[w].rule, loop[w].batch, loop[w].event, loop[w].settled, out)
              /\ \/ left = {} /\ out = Tail(loop[w].out)
                 \/ \E b \in Batches : b.firings = left /\ b.at = "deliver" /\ out = <<b>> \o Tail(loop[w].out)
<1> DEFINE asked == {f \in Out(w).firings : Rechecked(f, Out(w).why)}
<1>1. loop[w].out # <<>> /\ Out(w).at = "check" /\ mem' = mem /\ disk' = disk
  BY DEF Recheck
<1>2. PICK true \in SUBSET {f \in asked : f[1] \in Questions} :
        /\ Audited(asked \ true)
        /\ loop' = [loop EXCEPT ![w].out =
                      IF (Out(w).firings \ asked) \cup true = {} THEN Tail(@)
                      ELSE <<[Out(w) EXCEPT !.firings = (Out(w).firings \ asked) \cup true, !.at = "deliver"]>> \o Tail(@)]
  BY DEF Recheck
<1> DEFINE left == (Out(w).firings \ asked) \cup true
           b == [Out(w) EXCEPT !.firings = left, !.at = "deliver"]
           out == IF left = {} THEN Tail(loop[w].out) ELSE <<b>> \o Tail(loop[w].out)
<1>3. left \in SUBSET Out(w).firings /\ asked \ true = Out(w).firings \ left
  OBVIOUS
<1>4. loop' = [loop EXCEPT ![w].out = out] /\ closed' = closed \cup (Out(w).firings \ left)
  BY <1>2, <1>3 DEF Audited
<1>5. b \in Batches /\ b.firings = left /\ b.at = "deliver"
  <2>1. Out(w) \in Batches /\ left \in SUBSET Firings
    BY <1>1, <1>3, OutIs
  <2> HIDE DEF left
  <2> QED BY <2>1 DEF Batches
<1> HIDE DEF b, left, asked
<1>6. out \in Seq(Batches)
  <2>1. Tail(loop[w].out) \in Seq(Batches) /\ <<b>> \in Seq(Batches)
    BY <1>1, <1>5, OutIs
  <2> QED BY <2>1
<1>7. (out = Tail(loop[w].out) /\ left = {}) \/ out = <<b>> \o Tail(loop[w].out)
  OBVIOUS
<1> HIDE DEF out
<1>8. LoopTo(w, loop[w].phase, loop[w].at, loop[w].rule, loop[w].batch, loop[w].event, loop[w].settled, out)
  BY <1>1, <1>4, <1>6, OutTo
<1> QED BY <1>1, <1>3, <1>4, <1>5, <1>6, <1>7, <1>8

LEMMA DeliverDoes ==
  ASSUME EngineInv, NEW w \in Workers, Deliver(w)
  PROVE  /\ loop[w].out # <<>> /\ Out(w).at = "deliver" /\ SendOut(w) /\ mem' = mem /\ disk' = disk
         /\ \E b \in Batches :
              /\ b.firings = Out(w).firings /\ b.at = "note"
              /\ LoopTo(w, loop[w].phase, loop[w].at, loop[w].rule, loop[w].batch, loop[w].event, loop[w].settled,
                        [loop[w].out EXCEPT ![1] = b])
<1> DEFINE b == [Out(w) EXCEPT !.at = "note"]
           out == [loop[w].out EXCEPT ![1] = b]
<1>1. loop[w].out # <<>> /\ Out(w).at = "deliver" /\ SendOut(w) /\ mem' = mem /\ disk' = disk
  BY DEF Deliver, stores
<1>2. loop' = [loop EXCEPT ![w].out = out]
  BY DEF Deliver, EngineInv, EngineTypeOK, Loops, Out
<1>3. b \in Batches /\ b.firings = Out(w).firings /\ b.at = "note"
  BY <1>1, OutIs DEF Batches
<1>4. out \in Seq(Batches)
  <2> HIDE DEF b
  <2>1. loop[w].out \in Seq(Batches) /\ 1 \in DOMAIN loop[w].out
    BY <1>1, LoopFields, OutIs DEF EngineInv
  <2> QED BY <1>3, <2>1
<1> HIDE DEF b
<1>5. LoopTo(w, loop[w].phase, loop[w].at, loop[w].rule, loop[w].batch, loop[w].event, loop[w].settled, out)
  <2> HIDE DEF out
  <2> QED BY <1>1, <1>2, <1>4, OutTo
<1> QED BY <1>1, <1>3, <1>5

LEMMA DeliveredDoes ==
  ASSUME EngineInv, NEW w \in Workers, NoteDelivered(w) \/ NotDelivered(w)
  PROVE  /\ loop[w].out # <<>> /\ closed' = closed \cup Out(w).firings /\ mem' = mem /\ disk' = disk
         /\ \/ sent' = sent
            \/ Out(w).at = "deliver" /\ SendOut(w)
         /\ LoopTo(w, loop[w].phase, loop[w].at, loop[w].rule, loop[w].batch, loop[w].event, loop[w].settled,
                   Tail(loop[w].out))
<1>1. /\ loop[w].out # <<>> /\ closed' = closed \cup Out(w).firings /\ mem' = mem /\ disk' = disk
      /\ loop' = [loop EXCEPT ![w].out = Tail(loop[w].out)]
      /\ sent' = sent \/ (Out(w).at = "deliver" /\ SendOut(w))
  BY DEF NoteDelivered, NotDelivered, Audited, history
<1>2. Tail(loop[w].out) \in Seq(Batches)
  BY <1>1, OutIs
<1> QED BY <1>1, <1>2, OutTo

LEMMA SweepDoes ==
  ASSUME EngineInv, NEW w \in Workers, Sweep(w)
  PROVE  /\ loop[w].phase = "release" /\ loop[w].out = <<>>
         /\ LoopTo(w, "asleep", "free", None, {}, None, {}, <<>>) /\ loop'[w] = Asleep
         /\ \/ /\ disk' = disk
               /\ MemTo(w, mem[w].prints, mem[w].marked, mem[w].deferred, mem[w].window, mem[w].hold,
                        IF mem[w].since = None THEN due ELSE mem[w].since)
            \/ /\ mem[w].since # None /\ mem[w].since \subseteq old
               /\ DiskTo({}, disk.marked, disk.deferred, disk.window)
               /\ MemTo(w, {}, mem[w].marked, mem[w].deferred, mem[w].window, mem[w].hold, due)
<1>1. loop[w].phase = "release" /\ loop[w].out = <<>>
  BY DEF Sweep, AtRelease
<1>2. LoopTo(w, "asleep", "free", None, {}, None, {}, <<>>) /\ loop'[w] = Asleep
  BY AsleepTo DEF Sweep, EngineInv
<1>3. due \in SUBSET Instants
  BY DEF EngineInv, EngineTypeOK
<1>4. CASE disk' = disk /\ mem' = [mem EXCEPT ![w].since = IF @ = None THEN due ELSE @, ![w].ripe = {}]
  <2> DEFINE since == IF mem[w].since = None THEN due ELSE mem[w].since
             m == [mem[w] EXCEPT !.since = since, !.ripe = {}]
  <2>1. mem' = [mem EXCEPT ![w] = m]
    BY <1>4 DEF EngineInv, EngineTypeOK, Memories
  <2>2. since \in {None} \cup SUBSET Instants
    BY <1>3, MemFields DEF EngineInv
  <2>3. IsMem(m, mem[w].prints, mem[w].marked, mem[w].deferred, mem[w].window, mem[w].hold, since)
    <3> HIDE DEF since
    <3> QED BY <2>2, MemFields DEF IsMem, Memories, EngineInv
  <2>4. MemTo(w, mem[w].prints, mem[w].marked, mem[w].deferred, mem[w].window, mem[w].hold, since)
    <3> HIDE DEF since
    <3> QED BY <2>1, <2>3, MemFrom DEF EngineInv
  <2> QED BY <1>1, <1>2, <1>4, <2>4
<1>5. CASE /\ mem[w].since # None /\ mem[w].since \subseteq old
           /\ mem' = [mem EXCEPT ![w].prints = {}, ![w].since = due, ![w].ripe = {}]
           /\ disk' = [disk EXCEPT !.prints = {}]
  <2> DEFINE m == [mem[w] EXCEPT !.prints = {}, !.since = due, !.ripe = {}]
  <2>1. mem' = [mem EXCEPT ![w] = m]
    BY <1>5 DEF EngineInv, EngineTypeOK, Memories
  <2>2. IsMem(m, {}, mem[w].marked, mem[w].deferred, mem[w].window, mem[w].hold, due)
    BY <1>3, MemFields DEF IsMem, Memories, EngineInv
  <2>3. MemTo(w, {}, mem[w].marked, mem[w].deferred, mem[w].window, mem[w].hold, due)
    BY <2>1, <2>2, MemFrom DEF EngineInv
  <2>4. DiskTo({}, disk.marked, disk.deferred, disk.window)
    BY <1>5 DEF DiskTo, EngineInv, EngineTypeOK
  <2> QED BY <1>1, <1>2, <1>5, <2>3, <2>4
<1> QED BY <1>4, <1>5 DEF Sweep

----------------------------------------------------------------------------
(* Batches on their way out. *)

\* The batches of out hold the firings in S between them.
Holds(out, S) == Sending(out) = S /\ InOrder(out) /\ \A i \in DOMAIN out : out[i].firings \subseteq S

LEMMA NoneSending == Sending(<<>>) = {} /\ InOrder(<<>>)
BY DEF Sending, InOrder

LEMMA BatchSends ==
  ASSUME NEW fs \in SUBSET Firings, NEW why \in {"quiet", "ended", "bound", "now"},
         NEW b, b = Batch(fs, why)
  PROVE  Holds(b, fs)
<1> USE DEF Holds
<1>1. CASE fs = {} /\ b = <<>>
  BY <1>1 DEF Sending, InOrder
<1>2. CASE Len(b) = 1 /\ b[1].firings = fs /\ b \in Seq(Batches)
  <2>1. DOMAIN b = {1}
    BY <1>2
  <2> QED BY <1>2, <2>1 DEF Sending, InOrder
<1> QED BY <1>1, <1>2, BatchIs

LEMMA TwoBatches ==
  ASSUME NEW fs \in SUBSET Firings, NEW gs \in SUBSET Firings, fs \cap gs = {},
         NEW c, c = Batch(fs, "ended") \o Batch(gs, "bound")
  PROVE  Holds(c, fs \cup gs)
<1> USE DEF Holds
<1> SUFFICES ASSUME NEW a, a = Batch(fs, "ended"), NEW b, b = Batch(gs, "bound"), c = a \o b
             PROVE  Sending(c) = fs \cup gs /\ InOrder(c) /\ \A i \in DOMAIN c : c[i].firings \subseteq fs \cup gs
  OBVIOUS
<1>1. a \in Seq(Batches) /\ ((fs = {} /\ a = <<>>) \/ (Len(a) = 1 /\ a[1].firings = fs))
  BY BatchIs
<1>2. b \in Seq(Batches) /\ ((gs = {} /\ b = <<>>) \/ (Len(b) = 1 /\ b[1].firings = gs /\ b[1].at = "check"))
  BY BatchIs
<1>3. Sending(a) = fs /\ InOrder(a) /\ (\A i \in DOMAIN a : a[i].firings \subseteq fs)
      /\ Sending(b) = gs /\ InOrder(b) /\ (\A i \in DOMAIN b : b[i].firings \subseteq gs)
  BY BatchSends DEF Holds
<1>4. CASE a = <<>> /\ fs = {}
  <2>1. c = b
    BY <1>2, <1>4
  <2> QED BY <1>3, <1>4, <2>1
<1>5. CASE b = <<>> /\ gs = {}
  <2>1. c = a
    BY <1>1, <1>5
  <2> QED BY <1>3, <1>5, <2>1
<1>6. CASE Len(a) = 1 /\ a[1].firings = fs /\ Len(b) = 1 /\ b[1].firings = gs /\ b[1].at = "check"
  <2>1. c \in Seq(Batches) /\ Len(c) = 2
    BY <1>1, <1>2, <1>6
  <2>2. c[1] = a[1] /\ c[2] = b[1]
    BY <1>1, <1>2, <1>6
  <2>3. DOMAIN c = {1, 2}
    <3>1. DOMAIN c = 1 .. 2
      BY SMTT(30), <2>1
    <3> QED BY <3>1
  <2> QED BY <1>6, <2>2, <2>3 DEF Sending, InOrder
<1> QED BY <1>1, <1>2, <1>4, <1>5, <1>6

LEMMA RestSends ==
  ASSUME NEW out \in Seq(Batches), out # <<>>, InOrder(out)
  PROVE  /\ Sending(Tail(out)) = Sending(out) \ out[1].firings /\ InOrder(Tail(out))
         /\ \A i \in DOMAIN Tail(out) : Tail(out)[i].at = "check"
                                        /\ Tail(out)[i].firings \subseteq Sending(out) \ out[1].firings
         /\ \A f \in Sending(out) \ out[1].firings : \E i \in DOMAIN out : i # 1 /\ f \in out[i].firings
<1> DEFINE t == Tail(out)
<1>1. Len(out) \in Nat \ {0} /\ DOMAIN out = 1 .. Len(out) /\ DOMAIN t = 1 .. (Len(out) - 1)
      /\ \A i \in DOMAIN t : t[i] = out[i + 1]
  <2>1. Len(t) = Len(out) - 1 /\ t \in Seq(Batches) /\ \A i \in 1 .. Len(t) : t[i] = out[i + 1]
    OBVIOUS
  <2> QED BY <2>1
<1> HIDE DEF t
<1>2. \A i \in DOMAIN t : i + 1 \in DOMAIN out /\ i + 1 # 1 /\ t[i] = out[i + 1]
  BY <1>1
<1>3. \A i \in DOMAIN out : i # 1 => i - 1 \in DOMAIN t /\ t[i - 1] = out[i]
  <2> SUFFICES ASSUME NEW i \in DOMAIN out, i # 1 PROVE i - 1 \in DOMAIN t /\ t[i - 1] = out[i]
    OBVIOUS
  <2>1. i - 1 \in DOMAIN t
    BY <1>1
  <2>2. (i - 1) + 1 = i
    BY <1>1
  <2> QED BY <1>1, <2>1, <2>2
<1>4. 1 \in DOMAIN out
  BY <1>1
<1>5. \A i \in DOMAIN t : t[i].at = "check" /\ t[i].firings \cap out[1].firings = {}
                          /\ t[i].firings \subseteq Sending(out)
  BY <1>2, <1>4 DEF InOrder, Sending
<1>6. \A i, j \in DOMAIN t : i # j => t[i].firings \cap t[j].firings = {}
  <2> SUFFICES ASSUME NEW i \in DOMAIN t, NEW j \in DOMAIN t, i # j PROVE t[i].firings \cap t[j].firings = {}
    OBVIOUS
  <2>1. i + 1 # j + 1
    BY <1>1
  <2> QED BY <1>2, <2>1 DEF InOrder
<1>7. \A f \in Sending(out) \ out[1].firings : \E i \in DOMAIN out : i # 1 /\ f \in out[i].firings
  BY DEF Sending
<1>8. Sending(t) = Sending(out) \ out[1].firings
  <2>1. Sending(t) \subseteq Sending(out) \ out[1].firings
    BY <1>5 DEF Sending
  <2>2. Sending(out) \ out[1].firings \subseteq Sending(t)
    BY <1>3, <1>7 DEF Sending
  <2> QED BY <2>1, <2>2
<1>9. InOrder(t)
  BY <1>5, <1>6 DEF InOrder
<1> QED BY <1>5, <1>7, <1>8, <1>9 DEF t

\* The first of the batches becomes b.
FirstIs(out, b, new) == new = <<b>> \o Tail(out) \/ new = [out EXCEPT ![1] = b]

LEMMA FirstSends ==
  ASSUME NEW out \in Seq(Batches), out # <<>>, InOrder(out), NEW b \in Batches, b.firings \subseteq out[1].firings,
         NEW new \in Seq(Batches), FirstIs(out, b, new)
  PROVE  /\ Sending(new) = b.firings \cup (Sending(out) \ out[1].firings) /\ InOrder(new)
         /\ 1 \in DOMAIN new /\ new[1] = b
         /\ \A i \in DOMAIN new : i # 1 => i \in DOMAIN out /\ new[i] = out[i]
<1>1. DOMAIN new = DOMAIN out /\ 1 \in DOMAIN out /\ new[1] = b /\ \A i \in DOMAIN out : i # 1 => new[i] = out[i]
  <2>1. CASE new = <<b>> \o Tail(out)
    <3>1. Len(new) = Len(out) /\ new[1] = b
      BY <2>1
    <3>2. \A i \in 1 .. Len(out) : i # 1 => new[i] = out[i]
      BY <2>1
    <3> QED BY <3>1, <3>2
  <2>2. CASE new = [out EXCEPT ![1] = b]
    BY <2>2
  <2> QED BY <2>1, <2>2 DEF FirstIs
<1>2. InOrder(new)
  <2>1. ASSUME NEW i \in DOMAIN new, NEW j \in DOMAIN new, i # j
        PROVE  new[i].firings \cap new[j].firings = {}
    <3>1. new[i].firings \subseteq out[i].firings /\ new[j].firings \subseteq out[j].firings
      BY <1>1
    <3> QED BY <1>1, <2>1, <3>1 DEF InOrder
  <2>2. \A i \in DOMAIN new : i # 1 => new[i].at = "check"
    BY <1>1 DEF InOrder
  <2> QED BY <2>1, <2>2 DEF InOrder
<1>3. Sending(new) = b.firings \cup (Sending(out) \ out[1].firings)
  <2>1. Sending(new) \subseteq b.firings \cup (Sending(out) \ out[1].firings)
    BY <1>1 DEF Sending, InOrder
  <2>2. b.firings \cup (Sending(out) \ out[1].firings) \subseteq Sending(new)
    BY <1>1 DEF Sending
  <2> QED BY <2>1, <2>2
<1> QED BY <1>1, <1>2, <1>3

----------------------------------------------------------------------------
(* One worker works, the others are idle. *)

Idle(w) == ~Steps(w) /\ loop[w] = Asleep /\ mem[w] = Forgotten

\* A step of a worker at work, which it stays.
Work(w) == Steps(w) /\ Steps(w)' /\ \A v \in Workers \ {w} : Idle(v) /\ Idle(v)'

LEMMA Working ==
  ASSUME EngineInv, Alone, NEW w \in Workers, Steps(w), up' = up \/ up' = [up EXCEPT ![w] = "leaving"],
         \A v \in Workers \ {w} : loop'[v] = loop[v] /\ mem'[v] = mem[v]
  PROVE  Work(w)
<1>1. \A v \in Workers \ {w} : Idle(v)
  BY DEF EngineInv, WorkerInv, Phased, Idle, Alone
<1>2. \A v \in Workers \ {w} : Idle(v)'
  BY <1>1 DEF Idle, Steps, EngineInv, EngineTypeOK
<1>3. Steps(w)'
  BY DEF Steps, EngineInv, EngineTypeOK
<1> QED BY <1>1, <1>2, <1>3 DEF Work

LEMMA IdleHand ==
  ASSUME NEW v \in Workers, Idle(v)
  PROVE  InHand(v) = {} /\ \A i \in Instants : ~Fires(v, i)
<1>1. Sending(<<>>) = {}
  BY NoneSending
<1>2. loop[v].out = <<>> /\ loop[v].at = "free" /\ loop[v].batch = {} /\ mem[v].hold = {}
  BY DEF Idle, Asleep, Forgotten
<1> QED BY <1>1, <1>2 DEF InHand, Fires

LEMMA IdleFits ==
  ASSUME NEW v \in Workers, Idle(v)'
  PROVE  WorkerInv(v)' /\ InHand(v)' = {}
<1>1. Sending(<<>>) = {} /\ InOrder(<<>>)
  BY NoneSending
<1>2. loop'[v].out = <<>> /\ loop'[v].at = "free" /\ loop'[v].batch = {} /\ mem'[v].hold = {} /\ ~Steps(v)'
      /\ loop'[v].phase = "asleep" /\ loop'[v].settled = {} /\ loop'[v] = Asleep /\ mem'[v] = Forgotten
  BY DEF Idle, Asleep, Forgotten
<1>3. InHand(v)' = {} /\ \A i \in Instants : ~Fires(v, i)'
  BY <1>1, <1>2 DEF InHand, Fires
<1>4. Phased(v)' /\ Stored(v)'
  BY <1>2 DEF Phased, Stored, AtRule
<1>5. Placed(v)'
  BY <1>1, <1>2, <1>3 DEF Placed
<1> QED BY <1>3, <1>4, <1>5 DEF WorkerInv

\* The types of what is not a worker's own.
Rest ==
  /\ due \subseteq Instants /\ old \subseteq due /\ faults \in 0 .. MaxFaults
  /\ leader \in Workers \cup {None} /\ firing \in Workers \cup {None}
  /\ disk \in [prints : SUBSET Events, marked : SUBSET Instants,
               deferred : SUBSET Firings, window : SUBSET Firings]
  /\ closed \subseteq Firings
  /\ up \in [Workers -> {"down", "serving", "leading", "leaving"}]
  /\ runs \in [Events -> Nat] /\ \A e \in Events : runs[e] <= MaxFirings[e]
  /\ sent \in [Firings -> Seq({Dest[r] : r \in Rules})] /\ lost \subseteq Firings

LEMMA TypesFrom ==
  ASSUME EngineTypeOK, Rest', NEW w \in Workers,
         NEW phase, NEW at, NEW rule, NEW batch, NEW event, NEW settled, NEW out,
         LoopTo(w, phase, at, rule, batch, event, settled, out),
         NEW prints, NEW marked, NEW deferred, NEW window, NEW hold, NEW since,
         MemTo(w, prints, marked, deferred, window, hold, since)
  PROVE  EngineTypeOK'
<1>1. \A v \in Workers : /\ loop'[v].todo \subseteq loop'[v].awaited
                         /\ AtRule(loop'[v]) => loop'[v].rule \notin loop'[v].todo
                         /\ mem'[v].ripe \subseteq mem'[v].hold \cup mem'[v].window
  BY DEF LoopTo, MemTo, IsLoop, IsMem, EngineTypeOK
<1>2. loop' \in [Workers -> Loops] /\ mem' \in [Workers -> Memories]
  BY DEF LoopTo, MemTo
<1> QED BY <1>1, <1>2 DEF EngineTypeOK, Rest

LEMMA InvFrom ==
  ASSUME NEW w \in Workers, Work(w), EngineTypeOK', QueuedOnce', FiredOnce', SentOnce', NothingVanishes', WorkerInv(w)'
  PROVE  EngineInv'
<1>1. \A v \in Workers : WorkerInv(v)'
  BY IdleFits DEF Work
<1> QED BY <1>1 DEF EngineInv

\* A step that moves no firing.
LEMMA PlacesSame ==
  ASSUME EngineInv, NEW w \in Workers, Work(w), UNCHANGED <<runs, sent, lost>>, closed \subseteq closed',
         disk'.deferred = disk.deferred, disk'.window = disk.window,
         mem'[w].hold = mem[w].hold, loop'[w].out = loop[w].out,
         loop'[w].at = "route" <=> loop[w].at = "route",
         loop[w].at = "route" => loop'[w].event = loop[w].event
  PROVE  QueuedOnce' /\ Placed(w)' /\ SentOnce' /\ NothingVanishes'
<1>1. InHand(w)' = InHand(w) /\ \A f \in Firings : Unsent(f)' <=> Unsent(f)
  BY DEF InHand, Last, Unsent
<1>2. \A v \in Workers : InHand(v)' = InHand(v)
  BY <1>1, IdleFits, IdleHand DEF Work
<1>3. QueuedOnce'
  BY DEF EngineInv, QueuedOnce, Unsent
<1>4. Placed(w)'
  <2>1. Placed(w)
    BY DEF EngineInv, WorkerInv
  <2> QED BY <1>1, <2>1 DEF Placed, Unsent, Last
<1>5. SentOnce'
  BY DEF EngineInv, SentOnce
<1>6. NothingVanishes'
  BY <1>2 DEF EngineInv, NothingVanishes
<1> QED BY <1>3, <1>4, <1>5, <1>6

\* A step that fires nothing and forgets nothing.
LEMMA FiredSame ==
  ASSUME EngineInv, NEW w \in Workers, Work(w), runs' = runs, due \subseteq due', old \subseteq old',
         disk'.prints = disk.prints, disk'.marked = disk.marked,
         \A i \in Instants : Remembers(w, i) => Remembers(w, i)',
         \A i \in Instants : Fires(w, i)' => Fresh(i)
  PROVE  FiredOnce' /\ \A i \in Instants : Fires(w, i)' => Fresh(i)'
<1>1. \A i \in Instants : Fresh(i) => Fresh(i)'
  BY DEF Fresh
<1>2. \A i \in Instants : Spent(i) => Spent(i)'
  BY DEF Spent, Work, Idle
<1>3. FiredOnce'
  BY <1>2 DEF EngineInv, FiredOnce
<1> QED BY <1>1, <1>3

LEMMA ControlStep ==
  ASSUME EngineInv, NEW w \in Workers, Work(w), EngineTypeOK', Phased(w)', Stored(w)',
         UNCHANGED <<runs, sent, lost>>, closed' = closed, due \subseteq due', old \subseteq old', disk' = disk,
         mem'[w].hold = mem[w].hold, mem'[w].since = mem[w].since, loop'[w].out = loop[w].out,
         loop'[w].at = "route" <=> loop[w].at = "route",
         loop[w].at = "route" => loop'[w].event = loop[w].event,
         loop[w].settled \subseteq loop'[w].settled,
         \A i \in Instants : Fires(w, i)' => Fires(w, i) \/ Fresh(i)
  PROVE  EngineInv'
<1>1. QueuedOnce' /\ Placed(w)' /\ SentOnce' /\ NothingVanishes'
  BY PlacesSame
<1>2. \A i \in Instants : Fires(w, i) => Fresh(i)
  BY DEF EngineInv, WorkerInv
<1>3. \A i \in Instants : Remembers(w, i) => Remembers(w, i)'
  BY DEF Remembers
<1>4. FiredOnce' /\ \A i \in Instants : Fires(w, i)' => Fresh(i)'
  BY <1>2, <1>3, FiredSame
<1>5. WorkerInv(w)'
  BY <1>1, <1>4 DEF WorkerInv
<1> QED BY <1>1, <1>4, <1>5, InvFrom

----------------------------------------------------------------------------
(* The steps that move no firing. *)

LEMMA KeepStopLate ==
  ASSUME EngineInv, Alone, NEW w \in Workers, StopLate(w)
  PROVE  EngineInv'
<1>1. /\ Steps(w) /\ up' = [up EXCEPT ![w] = "leaving"] /\ loop[w].phase # "asleep"
      /\ UNCHANGED <<world, firing, disk, closed, mem, history>> /\ leader' = None /\ faults' \in 0 .. MaxFaults
  BY DEF StopLate, Steps, Fault, EngineInv, EngineTypeOK
<1>2. Work(w)
  BY <1>1, Working, StopLateDoes DEF LoopTo, MemTo
<1>3. Rest'
  BY <1>1 DEF Rest, EngineInv, EngineTypeOK, world, history
<1>4. EngineTypeOK'
  BY <1>3, StopLateDoes, TypesFrom DEF EngineInv
<1>5. Phased(w) /\ Stored(w)
  BY DEF EngineInv, WorkerInv
<1>6. Phased(w)' /\ Stored(w)'
  <2>1. CASE loop'[w] = Asleep
    BY <1>1, <1>2, <1>5, <2>1, StopLateDoes DEF Phased, Stored, Work, AtRule, MemTo, IsMem, Asleep
  <2>2. CASE LoopTo(w, loop[w].phase, loop[w].at, loop[w].rule, loop[w].batch, loop[w].event, loop[w].settled, loop[w].out)
    BY <1>1, <1>2, <1>5, <2>2, StopLateDoes DEF Phased, Stored, Work, AtRule, MemTo, IsMem, LoopTo, IsLoop, history
  <2> QED BY <2>1, <2>2, StopLateDoes
<1>7. loop[w].at = "free" => loop[w].settled = {} /\ loop[w].out = <<>>
  BY <1>5, LoopFields DEF Phased, AtRule, EngineInv, Asleep
<1> QED BY <1>1, <1>2, <1>4, <1>6, <1>7, StopLateDoes, ControlStep
        DEF LoopTo, MemTo, IsLoop, IsMem, history, world, Fires, Asleep

LEMMA KeepBeginCycle ==
  ASSUME EngineInv, Alone, NEW w \in Workers, BeginCycle(w)
  PROVE  EngineInv'
<1>1. /\ Steps(w) /\ up[w] = "leading" /\ loop[w] = Asleep
      /\ UNCHANGED <<faults, stores, up, history>>
  BY BeginCycleDoes DEF Steps
<1>2. due \subseteq due' /\ due' \subseteq Instants /\ old \subseteq old' /\ old' \subseteq due'
  BY BeginCycleDoes DEF TimePasses
<1>3. Work(w)
  BY <1>1, Working, BeginCycleDoes DEF LoopTo, MemTo
<1>4. Rest'
  BY <1>1, <1>2 DEF Rest, EngineInv, EngineTypeOK, stores, history
<1>5. EngineTypeOK'
  BY <1>4, BeginCycleDoes, TypesFrom DEF EngineInv
<1>6. Stored(w)
  BY DEF EngineInv, WorkerInv
<1>7. Phased(w)' /\ Stored(w)'
  BY <1>1, <1>3, <1>6, BeginCycleDoes DEF Phased, Stored, Work, AtRule, LoopTo, MemTo, IsLoop, IsMem, stores
<1> QED BY <1>1, <1>2, <1>3, <1>5, <1>7, BeginCycleDoes, ControlStep
        DEF LoopTo, MemTo, IsLoop, IsMem, history, stores, Fires, Asleep

LEMMA KeepRuleEnds ==
  ASSUME EngineInv, Alone, NEW w \in Workers, RuleRaises(w) \/ Timeout(w)
  PROVE  EngineInv'
<1>1. loop[w].todo # {} \/ loop[w].awaited # {}
  BY DEF RuleRaises, Timeout
<1>2. /\ Steps(w) /\ UNCHANGED <<world, stores, up, history>> /\ faults' \in 0 .. MaxFaults
  <2>1. loop[w] # Asleep
    BY <1>1 DEF Asleep
  <2>2. Steps(w)
    BY <2>1 DEF EngineInv, WorkerInv, Phased
  <2>3. Fault /\ UNCHANGED <<world, stores, up, history>>
    BY DEF RuleRaises, Timeout
  <2>4. faults' \in 0 .. MaxFaults
    BY <2>3 DEF Fault, EngineInv, EngineTypeOK
  <2> QED BY <2>2, <2>3, <2>4
<1>3. Work(w)
  BY <1>2, Working, RuleEndsDoes DEF LoopTo, MemTo
<1>4. Rest'
  BY <1>2 DEF Rest, EngineInv, EngineTypeOK, stores, history, world
<1>5. EngineTypeOK'
  BY <1>4, RuleEndsDoes, TypesFrom DEF EngineInv
<1>6. Phased(w) /\ Stored(w) /\ loop[w].phase # "asleep"
  BY <1>1 DEF EngineInv, WorkerInv, Phased, Asleep
<1>7. Phased(w)' /\ Stored(w)'
  BY <1>2, <1>3, <1>6, RuleEndsDoes DEF Phased, Stored, Work, AtRule, LoopTo, MemTo, IsLoop, IsMem, stores, history
<1> QED BY <1>2, <1>3, <1>5, <1>7, RuleEndsDoes, ControlStep
        DEF LoopTo, MemTo, IsLoop, IsMem, history, stores, world, Fires

\* The newest instant the engine may catch up on has not fired.
LEMMA CatchUpFresh ==
  ASSUME EngineInv, NEW w \in Workers, Steps(w), loop[w].phase # "asleep", ~AtRule(loop[w]), NEW r \in Rules,
         NEW i \in CatchUp(w, r) \ mem[w].prints
  PROVE  Fresh(i)
<1>1. /\ i \in due \ old /\ i \in Instants /\ RuleOf[i] = r /\ i \notin mem[w].prints
      /\ \A m \in mem[w].marked : RuleOf[m] = r => i > m
  BY DEF CatchUp, MaxOf, EngineInv, EngineTypeOK
<1>2. mem[w].prints = disk.prints /\ mem[w].marked = disk.marked
  BY DEF EngineInv, WorkerInv, Stored
<1>3. i \notin disk.marked
  <2>1. i \in Nat
    BY <1>1
  <2> QED BY <1>1, <1>2, <2>1
<1>4. ~Spent(i)
  BY <1>1, <1>2, <1>3 DEF Spent
<1>5. runs[i] = 0
  <2>1. runs[i] \in Nat
    BY <1>1 DEF EngineInv, EngineTypeOK, Events
  <2> QED BY <1>1, <1>4, <2>1 DEF EngineInv, FiredOnce
<1> QED BY <1>1, <1>2, <1>5 DEF Fresh

LEMMA KeepStartRule ==
  ASSUME EngineInv, Alone, NEW w \in Workers, StartRule(w)
  PROVE  EngineInv'
<1>1. /\ Steps(w) /\ UNCHANGED <<world, faults, stores, up, mem, history>>
      /\ loop[w].at = "free" /\ loop[w].phase = "evaluate"
  BY StartRuleDoes DEF StartRule
<1>2. PICK r \in Rules, batch \in SUBSET Events :
        /\ batch \cap Instants \subseteq CatchUp(w, r) \ mem[w].prints
        /\ LoopTo(w, loop[w].phase, "next", r, batch, loop[w].event, {}, loop[w].out)
  BY StartRuleDoes
<1>3. Work(w)
  BY <1>1, <1>2, Working DEF LoopTo
<1>4. Rest'
  BY <1>1 DEF Rest, EngineInv, EngineTypeOK, stores, history, world
<1>5. EngineTypeOK'
  BY <1>2, <1>4, StartRuleDoes, TypesFrom DEF EngineInv
<1>6. Phased(w) /\ Stored(w) /\ loop[w].settled = {}
  BY <1>1 DEF EngineInv, WorkerInv, Phased, AtRule
<1>7. Phased(w)' /\ Stored(w)'
  BY <1>1, <1>2, <1>3, <1>6 DEF Phased, Stored, Work, AtRule, LoopTo, IsLoop, stores, history
<1>8. \A i \in Instants : Fires(w, i)' => Fresh(i)
  <2> SUFFICES ASSUME NEW i \in Instants, Fires(w, i)' PROVE Fresh(i)
    OBVIOUS
  <2>1. i \in batch
    BY <1>2 DEF Fires, LoopTo, IsLoop
  <2>2. i \in CatchUp(w, r) \ mem[w].prints
    BY <1>2, <2>1
  <2> QED BY <1>1, <2>2, CatchUpFresh DEF AtRule
<1> QED BY <1>1, <1>2, <1>3, <1>5, <1>6, <1>7, <1>8, ControlStep
        DEF LoopTo, IsLoop, history, stores, world

LEMMA KeepTakeTurn ==
  ASSUME EngineInv, Alone, NEW w \in Workers, TakeTurn(w)
  PROVE  EngineInv'
<1>1. /\ Steps(w) /\ UNCHANGED <<world, faults, leader, disk, closed, up, mem, history>> /\ firing' = w
      /\ loop[w].at = "next"
  BY DEF TakeTurn, AtNext
<1>2. PICK e \in loop[w].batch :
        /\ runs[e] < MaxFirings[e]
        /\ LoopTo(w, loop[w].phase, "turn", loop[w].rule, loop[w].batch \ {e}, e, loop[w].settled, loop[w].out)
  BY TakeTurnDoes
<1>3. Work(w)
  BY <1>1, <1>2, Working DEF LoopTo
<1>4. Rest'
  BY <1>1 DEF Rest, EngineInv, EngineTypeOK, history, world
<1>5. MemTo(w, mem[w].prints, mem[w].marked, mem[w].deferred, mem[w].window, mem[w].hold, mem[w].since)
  BY <1>1, MemSame DEF EngineInv
<1>6. EngineTypeOK'
  BY <1>2, <1>4, <1>5, TypesFrom DEF EngineInv
<1>7. Phased(w) /\ Stored(w) /\ e \in Events
  BY LoopFields DEF EngineInv, WorkerInv
<1>8. Phased(w)' /\ Stored(w)'
  <2>1. loop[w].phase = "evaluate" /\ loop[w].rule \in Rules /\ loop[w].out = <<>>
    BY <1>1, AtWork
  <2>2. Phased(w)'
    BY <1>1, <1>2, <1>3, <1>7, <2>1 DEF Phased, Work, AtRule, LoopTo, IsLoop, history
  <2>3. Stored(w)'
    BY <1>1, <1>2, <1>3, <1>7, <2>1 DEF Stored, LoopTo, IsLoop, Work
  <2> QED BY <2>2, <2>3
<1> QED BY <1>1, <1>2, <1>3, <1>6, <1>8, ControlStep
        DEF LoopTo, IsLoop, history, world, Fires

LEMMA KeepTurnEnds ==
  ASSUME EngineInv, Alone, NEW w \in Workers, TurnEnds(w)
  PROVE  EngineInv'
<1>1. /\ Steps(w) /\ UNCHANGED <<world, faults, leader, disk, closed, up, mem, history>> /\ firing' = None
      /\ loop[w].at = "turn"
  BY DEF TurnEnds
<1>3. Work(w)
  BY <1>1, TurnEndsDoes, Working DEF LoopTo
<1>4. Rest'
  BY <1>1 DEF Rest, EngineInv, EngineTypeOK, history, world
<1>5. MemTo(w, mem[w].prints, mem[w].marked, mem[w].deferred, mem[w].window, mem[w].hold, mem[w].since)
  BY <1>1, MemSame DEF EngineInv
<1>6. EngineTypeOK'
  BY <1>4, <1>5, TurnEndsDoes, TypesFrom DEF EngineInv
<1>7. Phased(w) /\ Stored(w)
  BY DEF EngineInv, WorkerInv
<1>8. Phased(w)' /\ Stored(w)'
  <2>1. loop[w].phase = "evaluate" /\ loop[w].rule \in Rules /\ loop[w].out = <<>>
    BY <1>1, AtWork
  <2>2. Phased(w)'
    BY <1>1, <1>3, <1>7, <2>1, TurnEndsDoes DEF Phased, Work, AtRule, LoopTo, IsLoop, history
  <2>3. Stored(w)'
    BY <1>1, <1>3, <1>7, <2>1, TurnEndsDoes DEF Stored, LoopTo, IsLoop, Work
  <2> QED BY <2>2, <2>3
<1> QED BY <1>1, <1>3, <1>6, <1>8, TurnEndsDoes, ControlStep
        DEF LoopTo, IsLoop, history, world, Fires

LEMMA KeepBeginRelease ==
  ASSUME EngineInv, Alone, NEW w \in Workers, BeginRelease(w)
  PROVE  EngineInv'
<1>1. /\ Steps(w) /\ UNCHANGED <<world, faults, stores, up, mem, history>>
      /\ loop[w].phase = "evaluate" /\ loop[w].at = "free"
  BY DEF BeginRelease, Steps
<1>3. Work(w)
  BY <1>1, BeginReleaseDoes, Working DEF LoopTo
<1>4. Rest'
  BY <1>1 DEF Rest, EngineInv, EngineTypeOK, history, world, stores
<1>5. MemTo(w, mem[w].prints, mem[w].marked, mem[w].deferred, mem[w].window, mem[w].hold, mem[w].since)
  BY <1>1, MemSame DEF EngineInv
<1>6. EngineTypeOK'
  BY <1>4, <1>5, BeginReleaseDoes, TypesFrom DEF EngineInv
<1>7. Phased(w) /\ Stored(w)
  BY DEF EngineInv, WorkerInv
<1>8. Phased(w)' /\ Stored(w)'
  BY <1>1, <1>3, <1>7, BeginReleaseDoes, FirstRuleIs DEF Phased, Stored, Work, AtRule, LoopTo, IsLoop, history, stores
<1> QED BY <1>1, <1>3, <1>6, <1>8, BeginReleaseDoes, ControlStep
        DEF LoopTo, IsLoop, history, world, stores, Fires

LEMMA KeepNextRule ==
  ASSUME EngineInv, Alone, NEW w \in Workers, NextRule(w)
  PROVE  EngineInv'
<1>1. /\ Steps(w) /\ UNCHANGED <<world, faults, stores, up, mem, history>>
      /\ loop[w].phase = "release"
  BY DEF NextRule, AtRelease
<1>2. PICK r \in Rules : LoopTo(w, loop[w].phase, "deferred", r, loop[w].batch, loop[w].event, loop[w].settled,
                                loop[w].out)
  BY NextRuleDoes
<1>3. Work(w)
  BY <1>1, <1>2, Working DEF LoopTo
<1>4. Rest'
  BY <1>1 DEF Rest, EngineInv, EngineTypeOK, history, world, stores
<1>5. MemTo(w, mem[w].prints, mem[w].marked, mem[w].deferred, mem[w].window, mem[w].hold, mem[w].since)
  BY <1>1, MemSame DEF EngineInv
<1>6. EngineTypeOK'
  BY <1>2, <1>4, <1>5, TypesFrom DEF EngineInv
<1>7. Phased(w) /\ Stored(w) /\ loop[w].at # "route"
  BY <1>1, AtReleaseWork DEF EngineInv, WorkerInv
<1>8. Phased(w)' /\ Stored(w)'
  BY <1>1, <1>2, <1>3, <1>7 DEF Phased, Stored, Work, AtRule, LoopTo, IsLoop, history, stores
<1> QED BY <1>1, <1>2, <1>3, <1>6, <1>7, <1>8, ControlStep
        DEF LoopTo, IsLoop, history, world, stores, Fires

----------------------------------------------------------------------------
(* The steps that fingerprint an event. *)

\* The new firing is routed next, or closed at once.
LEMMA RunPlaced ==
  ASSUME EngineInv, NEW w \in Workers, Work(w), NEW e \in Events, runs[e] < MaxFirings[e],
         runs' = [runs EXCEPT ![e] = @ + 1], UNCHANGED <<sent, lost>>,
         disk'.deferred = disk.deferred, disk'.window = disk.window, mem'[w].hold = mem[w].hold,
         loop[w].out = <<>>, loop'[w].out = <<>>, loop[w].at # "route",
         \/ loop'[w].at # "route" /\ closed' = closed \cup {<<e, runs[e] + 1>>}
         \/ loop'[w].at = "route" /\ loop'[w].event = e /\ closed' = closed
  PROVE  QueuedOnce' /\ Placed(w)' /\ SentOnce' /\ NothingVanishes'
<1> SUFFICES ASSUME NEW g, g = <<e, runs[e] + 1>>
             PROVE  QueuedOnce' /\ Placed(w)' /\ SentOnce' /\ NothingVanishes'
  OBVIOUS
<1>1. runs \in [Events -> Nat] /\ g \in Firings /\ g[1] = e /\ g[2] = runs[e] + 1
  <2>1. runs \in [Events -> Nat]
    BY DEF EngineInv, EngineTypeOK
  <2>2. runs[e] + 1 \in 1 .. MaxFirings[e]
    BY <2>1
  <2> QED BY <2>1, <2>2, FiringOf
<1>2. \A f \in Firings : f[2] <= runs'[f[1]] <=> f[2] <= runs[f[1]] \/ f = g
  <2> SUFFICES ASSUME NEW f \in Firings PROVE f[2] <= runs'[f[1]] <=> f[2] <= runs[f[1]] \/ f = g
    OBVIOUS
  <2>1. f[1] \in Events /\ f[2] \in Nat /\ f = <<f[1], f[2]>>
    BY FiringFields
  <2>2. CASE f[1] = e
    <3>1. runs'[f[1]] = runs[e] + 1 /\ runs[e] \in Nat
      BY <1>1, <2>2
    <3>2. f[2] <= runs[e] + 1 <=> f[2] <= runs[e] \/ f[2] = runs[e] + 1
      BY <2>1, <3>1
    <3>3. f = g <=> f[2] = runs[e] + 1
      BY <2>1, <2>2
    <3> QED BY <2>2, <3>1, <3>2, <3>3
  <2>3. CASE f[1] # e
    BY <1>1, <2>1, <2>3
  <2> QED BY <2>2, <2>3
<1>3. g[2] > runs[g[1]] /\ sent[g] = <<>> /\ ~Unsent(g)
  <2>1. g[2] > runs[g[1]] /\ ~(g[2] <= runs[g[1]])
    BY <1>1
  <2>2. \A f \in Firings : f[2] > runs[f[1]] => sent[f] = <<>>
    BY DEF EngineInv, QueuedOnce
  <2>3. sent[g] = <<>>
    BY <1>1, <2>1, <2>2
  <2> QED BY <2>1, <2>3 DEF Unsent
<1>4. \A f \in Firings : Unsent(f) => Unsent(f)'
  BY <1>2 DEF Unsent
<1>5. Sending(<<>>) = {} /\ InOrder(<<>>)
  BY NoneSending
<1>6. InHand(w) = mem[w].hold
  BY <1>5 DEF InHand
<1>7. /\ loop'[w].at # "route" => InHand(w)' = mem[w].hold
      /\ loop'[w].at = "route" => InHand(w)' = mem[w].hold \cup {g} /\ Last(loop[w].event)' = g
  <2>1. runs'[e] = runs[e] + 1
    BY <1>1
  <2>2. loop'[w].at = "route" => Last(loop[w].event)' = g
    BY <2>1 DEF Last
  <2> QED BY <1>5, <2>2 DEF InHand
<1>8. QueuedOnce /\ Placed(w) /\ disk.deferred \subseteq Firings /\ disk.window \subseteq Firings /\ mem[w].hold \subseteq Firings
  BY DiskFields, MemFields DEF EngineInv, WorkerInv
<1>9. g \notin mem[w].hold \cup disk.deferred \cup disk.window
  BY <1>3, <1>8 DEF QueuedOnce, Placed
<1>10. Unsent(g)'
  <2>1. sent'[g] = <<>> /\ g[2] <= runs'[g[1]]
    BY <1>1, <1>2, <1>3
  <2> QED BY <2>1 DEF Unsent
<1>11. QueuedOnce'
  <2>1. \A f \in disk'.deferred \cup disk'.window : Unsent(f)'
    BY <1>4, <1>8 DEF QueuedOnce
  <2>2. ASSUME NEW f \in Firings, f[2] > runs'[f[1]] PROVE sent'[f] = <<>>
    <3>1. f[2] \in Nat /\ runs[f[1]] \in Nat /\ runs'[f[1]] \in Nat
      BY <1>1, FiringFields
    <3>2. f[2] > runs[f[1]]
      BY <1>2, <2>2, <3>1
    <3> QED BY <1>8, <3>2 DEF QueuedOnce
  <2>3. disk'.deferred \cap disk'.window = {}
    BY <1>8 DEF QueuedOnce
  <2> QED BY <2>1, <2>2, <2>3 DEF QueuedOnce
<1>12. Placed(w)'
  <2>1. InHand(w)' \cap (disk'.deferred \cup disk'.window) = {}
    BY <1>6, <1>7, <1>8, <1>9 DEF Placed
  <2>2. \A f \in mem'[w].hold : Unsent(f)'
    BY <1>4, <1>8 DEF Placed
  <2>3. loop'[w].at = "route" => Unsent(Last(loop[w].event))' /\ Last(loop[w].event)' \notin mem'[w].hold
    BY <1>7, <1>9, <1>10 DEF Unsent
  <2> QED BY <1>5, <2>1, <2>2, <2>3 DEF Placed
<1>13. SentOnce'
  BY DEF EngineInv, SentOnce
<1>14. NothingVanishes'
  <2> SUFFICES ASSUME NEW f \in Firings, f[2] <= runs'[f[1]]
               PROVE  \/ f \in closed' \/ f \in lost' \/ f \in disk'.deferred \cup disk'.window
                      \/ \E v \in Workers : f \in InHand(v)'
    BY DEF NothingVanishes
  <2>1. CASE f = g
    BY <1>7, <2>1
  <2>2. CASE f[2] <= runs[f[1]]
    <3>1. \A v \in Workers : InHand(v) \subseteq InHand(v)'
      BY <1>6, <1>7, IdleHand DEF Work
    <3> QED BY <2>2, <3>1 DEF EngineInv, NothingVanishes
  <2> QED BY <1>2, <2>1, <2>2
<1> QED BY <1>11, <1>12, <1>13, <1>14

\* An instant that fires was fresh, and is remembered.
LEMMA RunFired ==
  ASSUME EngineInv, NEW w \in Workers, Work(w), NEW e \in Events, Fires(w, e),
         runs' = [runs EXCEPT ![e] = @ + 1], UNCHANGED world,
         disk'.prints = disk.prints \cup {e}, disk'.marked = disk.marked, mem'[w].since = mem[w].since,
         loop[w].at # "route", loop[w].settled \subseteq loop'[w].settled,
         e \in loop'[w].settled \/ (loop'[w].at = "route" /\ loop'[w].event = e),
         \A i \in Instants : Fires(w, i)' => Fires(w, i) /\ i # e
  PROVE  FiredOnce' /\ \A i \in Instants : Fires(w, i)' => Fresh(i)'
<1>1. runs \in [Events -> Nat] /\ Instants \subseteq Events
  BY DEF EngineInv, EngineTypeOK, Events
<1>2. \A i \in Instants : Fires(w, i) => Fresh(i)
  BY DEF EngineInv, WorkerInv
<1>3. \A i \in Instants : Fires(w, i)' => Fresh(i)'
  BY <1>1, <1>2 DEF Fresh, world
<1>4. \A i \in Instants : Remembers(w, i) \/ i = e => Remembers(w, i)'
  BY DEF Remembers
<1>5. ASSUME NEW i \in Instants PROVE runs'[i] <= 1 /\ (runs'[i] = 1 => Spent(i)')
  <2>1. CASE i = e
    <3>1. i \in due /\ runs[i] = 0
      BY <1>2, <2>1 DEF Fresh
    <3>2. runs'[i] = 1
      BY <1>1, <2>1, <3>1
    <3>3. Spent(i)'
      BY <1>4, <2>1, <3>1 DEF Spent, Work, Idle, world
    <3> QED BY <3>2, <3>3
  <2>2. CASE i # e
    <3>1. runs'[i] = runs[i]
      BY <1>1, <2>2
    <3>2. Spent(i) => Spent(i)'
      BY <1>4 DEF Spent, Work, Idle, world
    <3> QED BY <3>1, <3>2 DEF EngineInv, FiredOnce
  <2> QED BY <2>1, <2>2
<1> QED BY <1>3, <1>5 DEF FiredOnce

\* An event that has been fingerprinted, in memory and on disk.
LEMMA RunTypes ==
  ASSUME EngineInv, NEW e \in Events, runs[e] < MaxFirings[e], runs' = [runs EXCEPT ![e] = @ + 1],
         DiskTo(disk.prints \cup {e}, disk.marked, disk.deferred, disk.window),
         closed' = closed \/ closed' = closed \cup {<<e, runs[e] + 1>>},
         UNCHANGED <<world, faults, leader, up, sent, lost>>, firing' \in Workers \cup {None}
  PROVE  Rest'
<1>1. runs \in [Events -> Nat] /\ \A d \in Events : runs[d] <= MaxFirings[d]
  BY DEF EngineInv, EngineTypeOK
<1>2. runs' \in [Events -> Nat] /\ \A d \in Events : runs'[d] <= MaxFirings[d]
  BY <1>1
<1>3. closed' \subseteq Firings
  <2>1. runs[e] + 1 \in 1 .. MaxFirings[e]
    BY <1>1
  <2> QED BY <2>1, FiringOf DEF EngineInv, EngineTypeOK
<1>4. /\ due' \subseteq Instants /\ old' \subseteq due' /\ faults' \in 0 .. MaxFaults
      /\ leader' \in Workers \cup {None}
      /\ up' \in [Workers -> {"down", "serving", "leading", "leaving"}]
      /\ sent' \in [Firings -> Seq({Dest[r] : r \in Rules})] /\ lost' \subseteq Firings
  BY DEF EngineInv, EngineTypeOK, world
<1> QED BY <1>2, <1>3, <1>4 DEF Rest, DiskTo

LEMMA KeepAgentMissing ==
  ASSUME EngineInv, Alone, NEW w \in Workers, AgentMissing(w)
  PROVE  EngineInv'
<1>1. PICK e \in loop[w].batch :
        /\ runs[e] < MaxFirings[e] /\ runs' = [runs EXCEPT ![e] = @ + 1]
        /\ closed' = closed \cup {<<e, runs[e] + 1>>}
        /\ LoopTo(w, loop[w].phase, "next", loop[w].rule, loop[w].batch \ {e}, loop[w].event,
                  loop[w].settled \cup {e}, loop[w].out)
        /\ MemTo(w, disk.prints \cup {e}, mem[w].marked, mem[w].deferred, mem[w].window, mem[w].hold, mem[w].since)
        /\ DiskTo(disk.prints \cup {e}, disk.marked, disk.deferred, disk.window)
  BY AgentMissingDoes
<1>2. loop[w].at = "next" /\ UNCHANGED <<world, faults, leader, firing, up, sent, lost>>
  BY DEF AgentMissing, AtNext
<1>3. /\ Steps(w) /\ loop[w].phase = "evaluate" /\ loop[w].rule \in Rules /\ loop[w].out = <<>>
      /\ mem[w].deferred = disk.deferred /\ mem[w].window = disk.window
      /\ mem[w].prints = disk.prints /\ mem[w].marked = disk.marked /\ e \in Events
  BY <1>2, AtWork, LoopFields DEF EngineInv
<1>4. Work(w)
  BY <1>1, <1>2, <1>3, Working DEF LoopTo, MemTo
<1>5. EngineTypeOK'
  <2>1. firing' \in Workers \cup {None}
    BY <1>2 DEF EngineInv, EngineTypeOK
  <2>2. Rest'
    BY <1>1, <1>2, <1>3, <2>1, RunTypes
  <2> QED BY <1>1, <2>2, TypesFrom DEF EngineInv
<1>6. Phased(w)'
  BY <1>1, <1>3, <1>4 DEF Phased, LoopTo, IsLoop, AtRule, Work
<1>7. Stored(w)'
  BY <1>1, <1>3, <1>4 DEF Stored, MemTo, IsMem, DiskTo
<1>8. QueuedOnce' /\ Placed(w)' /\ SentOnce' /\ NothingVanishes'
  BY <1>1, <1>2, <1>3, <1>4, RunPlaced DEF LoopTo, IsLoop, MemTo, IsMem, DiskTo
<1>9. FiredOnce' /\ \A i \in Instants : Fires(w, i)' => Fresh(i)'
  <2>1. Fires(w, e)
    BY DEF Fires
  <2>2. \A i \in Instants : Fires(w, i)' => Fires(w, i) /\ i # e
    BY <1>1, <1>2 DEF Fires, LoopTo, IsLoop
  <2> QED BY <1>1, <1>2, <1>3, <1>4, <2>1, <2>2, RunFired DEF LoopTo, IsLoop, MemTo, IsMem, DiskTo
<1> QED BY <1>4, <1>5, <1>6, <1>7, <1>8, <1>9, InvFrom DEF WorkerInv

LEMMA KeepTurnFails ==
  ASSUME EngineInv, Alone, NEW w \in Workers, TurnFails(w)
  PROVE  EngineInv'
<1>1. PICK e \in Events : e = loop[w].event /\ e \notin loop[w].batch /\ runs[e] < MaxFirings[e]
  BY DEF TurnFails, EngineInv, WorkerInv, Phased
<1>2. loop[w].at = "turn" /\ UNCHANGED <<world, faults, leader, up, sent, lost>> /\ firing' = None
  BY DEF TurnFails
<1>3. /\ Steps(w) /\ loop[w].phase = "evaluate" /\ loop[w].rule \in Rules /\ loop[w].out = <<>>
      /\ mem[w].deferred = disk.deferred /\ mem[w].window = disk.window
      /\ mem[w].prints = disk.prints /\ mem[w].marked = disk.marked
  BY <1>2, AtWork
<1>4. CASE /\ runs' = [runs EXCEPT ![e] = @ + 1]
           /\ closed' = closed \cup {<<e, runs[e] + 1>>}
           /\ LoopTo(w, loop[w].phase, "next", loop[w].rule, loop[w].batch, e, loop[w].settled \cup {e}, loop[w].out)
           /\ MemTo(w, disk.prints \cup {e}, mem[w].marked, mem[w].deferred, mem[w].window, mem[w].hold, mem[w].since)
           /\ DiskTo(disk.prints \cup {e}, disk.marked, disk.deferred, disk.window)
  <2>1. Work(w)
    BY <1>2, <1>3, <1>4, Working DEF LoopTo, MemTo
  <2>2. EngineTypeOK'
    <3>1. Rest'
      BY <1>1, <1>2, <1>4, RunTypes
    <3> QED BY <1>4, <3>1, TypesFrom DEF EngineInv
  <2>3. Phased(w)'
    BY <1>3, <1>4, <2>1 DEF Phased, LoopTo, IsLoop, AtRule, Work
  <2>4. Stored(w)'
    BY <1>3, <1>4 DEF Stored, MemTo, IsMem, DiskTo
  <2>5. QueuedOnce' /\ Placed(w)' /\ SentOnce' /\ NothingVanishes'
    BY <1>1, <1>2, <1>3, <1>4, <2>1, RunPlaced DEF LoopTo, IsLoop, MemTo, IsMem, DiskTo
  <2>6. FiredOnce' /\ \A i \in Instants : Fires(w, i)' => Fresh(i)'
    <3>1. Fires(w, e)
      BY <1>1, <1>2 DEF Fires
    <3>2. \A i \in Instants : Fires(w, i)' => Fires(w, i) /\ i # e
      BY <1>1, <1>4 DEF Fires, LoopTo, IsLoop
    <3> QED BY <1>2, <1>4, <2>1, <3>1, <3>2, RunFired DEF LoopTo, IsLoop, MemTo, IsMem, DiskTo
  <2> QED BY <2>1, <2>2, <2>3, <2>4, <2>5, <2>6, InvFrom DEF WorkerInv
<1>5. CASE /\ UNCHANGED <<disk, closed, runs>>
           /\ LoopTo(w, loop[w].phase, "next", loop[w].rule, loop[w].batch, e, loop[w].settled, loop[w].out)
           /\ MemTo(w, mem[w].prints, mem[w].marked, mem[w].deferred, mem[w].window, mem[w].hold, mem[w].since)
  <2>1. Work(w)
    BY <1>2, <1>3, <1>5, Working DEF LoopTo, MemTo
  <2>2. EngineTypeOK'
    <3>1. Rest'
      BY <1>2, <1>5 DEF Rest, EngineInv, EngineTypeOK, world
    <3> QED BY <1>5, <3>1, TypesFrom DEF EngineInv
  <2>3. Phased(w)'
    BY <1>3, <1>5, <2>1 DEF Phased, LoopTo, IsLoop, AtRule, Work
  <2>4. Stored(w)'
    BY <1>3, <1>5 DEF Stored, MemTo, IsMem
  <2>5. \A i \in Instants : Fires(w, i)' => Fires(w, i)
    BY <1>5 DEF Fires, LoopTo, IsLoop
  <2> QED BY <1>2, <1>5, <2>1, <2>2, <2>3, <2>4, <2>5, ControlStep DEF LoopTo, IsLoop, MemTo, IsMem, world
<1> QED BY <1>1, <1>4, <1>5, TurnFailsDoes

LEMMA KeepFingerprint ==
  ASSUME EngineInv, Alone, NEW w \in Workers, Fingerprint(w)
  PROVE  EngineInv'
<1>1. PICK e \in Events : e = loop[w].event /\ e \notin loop[w].batch /\ runs[e] < MaxFirings[e]
  BY DEF Fingerprint, EngineInv, WorkerInv, Phased
<1>2. loop[w].at = "ran" /\ UNCHANGED <<world, faults, leader, firing, closed, up, sent, lost>>
  BY DEF Fingerprint
<1>3. /\ Steps(w) /\ loop[w].phase = "evaluate" /\ loop[w].rule \in Rules /\ loop[w].out = <<>>
      /\ mem[w].deferred = disk.deferred /\ mem[w].window = disk.window
      /\ mem[w].prints = disk.prints /\ mem[w].marked = disk.marked
  BY <1>2, AtWork
<1>4. /\ runs' = [runs EXCEPT ![e] = @ + 1]
      /\ LoopTo(w, loop[w].phase, "route", loop[w].rule, loop[w].batch, e, loop[w].settled, loop[w].out)
      /\ MemTo(w, disk.prints \cup {e}, mem[w].marked, mem[w].deferred, mem[w].window, mem[w].hold, mem[w].since)
      /\ DiskTo(disk.prints \cup {e}, disk.marked, disk.deferred, disk.window)
  BY <1>1, FingerprintDoes
<1>5. Work(w)
  BY <1>2, <1>3, <1>4, Working DEF LoopTo, MemTo
<1>6. EngineTypeOK'
  <2>1. firing' \in Workers \cup {None}
    BY <1>2 DEF EngineInv, EngineTypeOK
  <2>2. Rest'
    BY <1>1, <1>2, <1>4, <2>1, RunTypes
  <2> QED BY <1>4, <2>2, TypesFrom DEF EngineInv
<1>7. Phased(w)'
  <2>1. runs'[e] > 0
    BY <1>1, <1>4 DEF EngineInv, EngineTypeOK
  <2> QED BY <1>1, <1>3, <1>4, <1>5, <2>1 DEF Phased, LoopTo, IsLoop, AtRule, Work
<1>8. Stored(w)'
  BY <1>3, <1>4 DEF Stored, MemTo, IsMem, DiskTo
<1>9. QueuedOnce' /\ Placed(w)' /\ SentOnce' /\ NothingVanishes'
  BY <1>1, <1>2, <1>3, <1>4, <1>5, RunPlaced DEF LoopTo, IsLoop, MemTo, IsMem, DiskTo
<1>10. FiredOnce' /\ \A i \in Instants : Fires(w, i)' => Fresh(i)'
  <2>1. Fires(w, e)
    BY <1>1, <1>2 DEF Fires
  <2>2. \A i \in Instants : Fires(w, i)' => Fires(w, i) /\ i # e
    BY <1>1, <1>4 DEF Fires, LoopTo, IsLoop
  <2> QED BY <1>2, <1>4, <1>5, <2>1, <2>2, RunFired DEF LoopTo, IsLoop, MemTo, IsMem, DiskTo
<1> QED BY <1>5, <1>6, <1>7, <1>8, <1>9, <1>10, InvFrom DEF WorkerInv

----------------------------------------------------------------------------
(* The routed firing goes to one of the queues. *)

LEMMA RoutedPlaced ==
  ASSUME EngineInv, NEW w \in Workers, Work(w), UNCHANGED <<runs, sent, lost, closed>>,
         loop[w].at = "route", loop'[w].at = "next", loop[w].out = <<>>, loop'[w].out = <<>>,
         NEW f \in Firings, f = Last(loop[w].event),
         NEW deferred, deferred = disk'.deferred, NEW window, window = disk'.window, NEW hold, hold = mem'[w].hold,
         \/ deferred = disk.deferred \cup {f} /\ window = disk.window /\ hold = mem[w].hold
         \/ deferred = disk.deferred /\ window = disk.window \cup {f} /\ hold = mem[w].hold
         \/ deferred = disk.deferred /\ window = disk.window /\ hold = mem[w].hold \cup {f}
  PROVE  QueuedOnce' /\ Placed(w)' /\ SentOnce' /\ NothingVanishes'
<1>1. QueuedOnce /\ Placed(w) /\ Sending(<<>>) = {} /\ InOrder(<<>>)
  BY NoneSending DEF EngineInv, WorkerInv
<1>2. InHand(w) = mem[w].hold \cup {f} /\ InHand(w)' = hold
  BY <1>1 DEF InHand
<1>3. Unsent(f) /\ f \notin mem[w].hold \cup disk.deferred \cup disk.window
  BY <1>1, <1>2 DEF Placed
<1>4. \A g \in Firings : Unsent(g)' <=> Unsent(g)
  BY DEF Unsent
<1>5. disk.deferred \subseteq Firings /\ disk.window \subseteq Firings /\ mem[w].hold \subseteq Firings
  BY DiskFields, MemFields DEF EngineInv
<1>6. QueuedOnce'
  <2>1. deferred \cap window = {}
    BY <1>1, <1>3 DEF QueuedOnce
  <2>2. \A g \in deferred \cup window : Unsent(g)'
    BY <1>1, <1>3, <1>4, <1>5 DEF QueuedOnce
  <2> QED BY <1>1, <2>1, <2>2 DEF QueuedOnce
<1>7. Placed(w)'
  <2>1. hold \cap (deferred \cup window) = {}
    BY <1>1, <1>2, <1>3 DEF Placed
  <2>2. \A g \in hold : Unsent(g)'
    BY <1>1, <1>3, <1>4, <1>5 DEF Placed
  <2> QED BY <1>1, <1>2, <2>1, <2>2 DEF Placed
<1>8. SentOnce'
  BY DEF EngineInv, SentOnce
<1>9. NothingVanishes'
  <2>1. \A v \in Workers : InHand(v) \subseteq InHand(v)' \cup deferred \cup window
    BY <1>2, IdleHand DEF Work
  <2> QED BY <2>1 DEF EngineInv, NothingVanishes
<1> QED BY <1>6, <1>7, <1>8, <1>9

LEMMA KeepRouted ==
  ASSUME EngineInv, Alone, NEW w \in Workers, Defer(w) \/ Hold(w) \/ Join(w)
  PROVE  EngineInv'
<1>1. Routed(w) /\ closed' = closed
  BY DEF Defer, Hold, Join
<1>2. /\ loop[w].at = "route" /\ loop[w].event \in Events /\ UNCHANGED <<world, faults, leader, firing, up, history>>
      /\ LoopTo(w, loop[w].phase, "next", loop[w].rule, loop[w].batch, loop[w].event,
                loop[w].settled \cup {loop[w].event}, loop[w].out)
  BY <1>1, RoutedDoes
<1>3. PICK f \in Firings : f = Last(loop[w].event)
  BY <1>1, RoutedDoes
<1>4. /\ Steps(w) /\ loop[w].phase = "evaluate" /\ loop[w].rule \in Rules /\ loop[w].out = <<>>
      /\ mem[w].deferred = disk.deferred /\ mem[w].window = disk.window
      /\ mem[w].prints = disk.prints /\ mem[w].marked = disk.marked
  BY <1>2, AtWork
<1>5. PICK deferred \in SUBSET Firings, window \in SUBSET Firings, hold \in SUBSET Firings :
        /\ \/ deferred = disk.deferred \cup {f} /\ window = disk.window /\ hold = mem[w].hold
           \/ deferred = disk.deferred /\ window = disk.window \cup {f} /\ hold = mem[w].hold
           \/ deferred = disk.deferred /\ window = disk.window /\ hold = mem[w].hold \cup {f}
        /\ MemTo(w, mem[w].prints, mem[w].marked, deferred, window, hold, mem[w].since)
        /\ DiskTo(disk.prints, disk.marked, deferred, window)
  <2>1. /\ disk.deferred \in SUBSET Firings /\ disk.window \in SUBSET Firings /\ mem[w].hold \in SUBSET Firings
        /\ disk.deferred \cup {f} \in SUBSET Firings /\ disk.window \cup {f} \in SUBSET Firings
        /\ mem[w].hold \cup {f} \in SUBSET Firings
    BY DiskFields, MemFields DEF EngineInv
  <2>2. CASE Defer(w)
    <3>1. /\ MemTo(w, mem[w].prints, mem[w].marked, disk.deferred \cup {f}, disk.window, mem[w].hold, mem[w].since)
          /\ DiskTo(disk.prints, disk.marked, disk.deferred \cup {f}, disk.window)
      BY <1>3, <1>4, <2>2, DeferDoes
    <3> QED BY <2>1, <3>1
  <2>3. CASE Hold(w)
    <3>1. MemTo(w, mem[w].prints, mem[w].marked, disk.deferred, disk.window, mem[w].hold \cup {f}, mem[w].since)
      BY <1>3, <1>4, <2>3, HoldDoes
    <3>2. DiskTo(disk.prints, disk.marked, disk.deferred, disk.window)
      BY <2>3, HoldDoes DEF DiskTo, EngineInv, EngineTypeOK
    <3> QED BY <2>1, <3>1, <3>2
  <2>4. CASE Join(w)
    <3>1. /\ MemTo(w, mem[w].prints, mem[w].marked, disk.deferred, disk.window \cup {f}, mem[w].hold, mem[w].since)
          /\ DiskTo(disk.prints, disk.marked, disk.deferred, disk.window \cup {f})
      BY <1>3, <1>4, <2>4, JoinDoes
    <3> QED BY <2>1, <3>1
  <2> QED BY <2>2, <2>3, <2>4
<1>6. Work(w)
  BY <1>2, <1>4, <1>5, Working DEF LoopTo, MemTo
<1>7. EngineTypeOK'
  <2>1. Rest'
    BY <1>1, <1>2, <1>5 DEF Rest, EngineInv, EngineTypeOK, world, history, DiskTo
  <2> QED BY <1>2, <1>5, <2>1, TypesFrom DEF EngineInv
<1>8. Phased(w)'
  BY <1>2, <1>4, <1>6 DEF Phased, LoopTo, IsLoop, AtRule, Work
<1>9. Stored(w)'
  BY <1>4, <1>5 DEF Stored, MemTo, IsMem, DiskTo
<1>10. QueuedOnce' /\ Placed(w)' /\ SentOnce' /\ NothingVanishes'
  <2>1. /\ deferred = disk'.deferred /\ window = disk'.window /\ hold = mem'[w].hold
        /\ loop'[w].at = "next" /\ loop'[w].out = <<>> /\ UNCHANGED <<runs, sent, lost, closed>>
    BY <1>1, <1>2, <1>4, <1>5 DEF LoopTo, IsLoop, MemTo, IsMem, DiskTo, history
  <2> QED BY <1>2, <1>3, <1>4, <1>5, <1>6, <2>1, RoutedPlaced
<1>11. FiredOnce' /\ \A i \in Instants : Fires(w, i)' => Fresh(i)'
  <2>1. \A i \in Instants : Fires(w, i)' => Fresh(i)
    <3>1. \A i \in Instants : Fires(w, i)' => Fires(w, i)
      BY <1>2 DEF Fires, LoopTo, IsLoop
    <3> QED BY <3>1 DEF EngineInv, WorkerInv
  <2>2. \A i \in Instants : Remembers(w, i) => Remembers(w, i)'
    BY <1>2, <1>5 DEF Remembers, LoopTo, IsLoop, MemTo, IsMem
  <2> QED BY <1>2, <1>5, <1>6, <2>1, <2>2, FiredSame DEF DiskTo, history, world
<1> QED BY <1>6, <1>7, <1>8, <1>9, <1>10, <1>11, InvFrom DEF WorkerInv

----------------------------------------------------------------------------
(* What fired is marked, and the fingerprints are emptied. *)

LEMMA KeepEndRule ==
  ASSUME EngineInv, Alone, NEW w \in Workers, EndRule(w)
  PROVE  EngineInv'
<1>1. PICK fired \in SUBSET Instants :
        /\ fired = loop[w].settled \cap Instants /\ loop[w].at = "next"
        /\ \/ LoopTo(w, "asleep", "free", None, {}, None, {}, <<>>) /\ loop'[w] = Asleep
           \/ LoopTo(w, loop[w].phase, "free", None, {}, None, {}, loop[w].out)
        /\ MemTo(w, mem[w].prints, disk.marked \cup fired, mem[w].deferred, mem[w].window, mem[w].hold, mem[w].since)
        /\ DiskTo(disk.prints, disk.marked \cup fired, disk.deferred, disk.window)
        /\ UNCHANGED <<world, faults, leader, firing, closed, up, history>>
  BY EndRuleDoes
<1>2. /\ Steps(w) /\ loop[w].phase = "evaluate" /\ loop[w].rule \in Rules /\ loop[w].out = <<>>
      /\ mem[w].deferred = disk.deferred /\ mem[w].window = disk.window
      /\ mem[w].prints = disk.prints /\ mem[w].marked = disk.marked
  BY <1>1, AtWork
<1>3. loop'[w].at = "free" /\ loop'[w].batch = {} /\ loop'[w].out = <<>> /\ loop'[w].settled = {}
      /\ \A v \in Workers \ {w} : loop'[v] = loop[v]
  BY <1>1, <1>2 DEF LoopTo, IsLoop
<1>4. Work(w)
  BY <1>1, <1>2, <1>3, Working DEF MemTo
<1>5. EngineTypeOK'
  <2>1. Rest'
    BY <1>1 DEF Rest, EngineInv, EngineTypeOK, world, history, DiskTo
  <2> QED BY <1>1, <2>1, TypesFrom DEF EngineInv
<1>6. Phased(w)'
  BY <1>1, <1>2, <1>4 DEF Phased, LoopTo, IsLoop, AtRule, Work
<1>7. Stored(w)'
  BY <1>1, <1>2 DEF Stored, MemTo, IsMem, DiskTo
<1>8. QueuedOnce' /\ Placed(w)' /\ SentOnce' /\ NothingVanishes'
  BY <1>1, <1>2, <1>3, <1>4, PlacesSame DEF MemTo, IsMem, DiskTo, history
<1>9. ASSUME NEW i \in Instants, Spent(i) PROVE Spent(i)'
  <2>1. disk'.marked = disk.marked \cup fired /\ disk'.prints = disk.prints /\ mem'[w].since = mem[w].since
    BY <1>1 DEF DiskTo, MemTo, IsMem
  <2>2. CASE i \in disk.marked \cup fired \cup old
    BY <1>1, <1>9, <2>1, <2>2 DEF Spent, world
  <2>3. CASE i \notin disk.marked \cup fired \cup old
    <3>1. i \in disk.prints /\ Remembers(w, i)
      BY <1>2, <1>9, <2>3 DEF Spent
    <3>2. Remembers(w, i)'
      BY <1>1, <2>1, <2>3, <3>1 DEF Remembers
    <3> QED BY <1>1, <1>4, <1>9, <2>1, <3>1, <3>2 DEF Spent, Work, Idle, world
  <2> QED BY <2>2, <2>3
<1>10. FiredOnce' /\ \A i \in Instants : ~Fires(w, i)'
  BY <1>1, <1>3, <1>9 DEF EngineInv, FiredOnce, Fires, history
<1> QED BY <1>4, <1>5, <1>6, <1>7, <1>8, <1>10, InvFrom DEF WorkerInv

LEMMA KeepSweep ==
  ASSUME EngineInv, Alone, NEW w \in Workers, Sweep(w)
  PROVE  EngineInv'
<1>1. /\ Steps(w) /\ UNCHANGED <<world, faults, leader, firing, closed, up, history>>
      /\ loop[w].phase = "release" /\ loop[w].out = <<>>
      /\ LoopTo(w, "asleep", "free", None, {}, None, {}, <<>>) /\ loop'[w] = Asleep
  BY SweepDoes DEF Sweep, AtRelease
<1>2. PICK prints \in SUBSET Events, since \in {None} \cup SUBSET Instants :
        /\ \/ prints = disk.prints /\ since = (IF mem[w].since = None THEN due ELSE mem[w].since)
           \/ mem[w].since # None /\ mem[w].since \subseteq old /\ prints = {} /\ since = due
        /\ DiskTo(prints, disk.marked, disk.deferred, disk.window)
        /\ MemTo(w, prints, mem[w].marked, mem[w].deferred, mem[w].window, mem[w].hold, since)
  <2>1. due \in SUBSET Instants /\ mem[w].since \in {None} \cup SUBSET Instants /\ disk.prints \in SUBSET Events
    BY MemFields, DiskFields DEF EngineInv, EngineTypeOK
  <2>2. CASE /\ disk' = disk
             /\ MemTo(w, mem[w].prints, mem[w].marked, mem[w].deferred, mem[w].window, mem[w].hold,
                      IF mem[w].since = None THEN due ELSE mem[w].since)
    <3>1. DiskTo(disk.prints, disk.marked, disk.deferred, disk.window)
      BY <2>2 DEF DiskTo, EngineInv, EngineTypeOK
    <3>2. MemTo(w, disk.prints, mem[w].marked, mem[w].deferred, mem[w].window, mem[w].hold,
                IF mem[w].since = None THEN due ELSE mem[w].since)
      BY <1>1, <2>2, AtReleaseWork
    <3>3. (IF mem[w].since = None THEN due ELSE mem[w].since) \in {None} \cup SUBSET Instants
      BY <2>1
    <3> QED BY <2>1, <3>1, <3>2, <3>3
  <2>3. CASE /\ mem[w].since # None /\ mem[w].since \subseteq old
             /\ DiskTo({}, disk.marked, disk.deferred, disk.window)
             /\ MemTo(w, {}, mem[w].marked, mem[w].deferred, mem[w].window, mem[w].hold, due)
    BY <2>1, <2>3
  <2> QED BY <2>2, <2>3, SweepDoes
<1>3. /\ loop[w].at \in {"deferred", "held", "window"} /\ loop[w].batch = {} /\ loop[w].settled = {}
      /\ mem[w].deferred = disk.deferred /\ mem[w].window = disk.window
      /\ mem[w].prints = disk.prints /\ mem[w].marked = disk.marked
  BY <1>1, AtReleaseWork
<1>4. Work(w)
  BY <1>1, <1>2, Working DEF LoopTo, MemTo
<1>5. EngineTypeOK'
  <2>1. Rest'
    BY <1>1, <1>2 DEF Rest, EngineInv, EngineTypeOK, world, history, DiskTo
  <2> QED BY <1>1, <1>2, <2>1, TypesFrom DEF EngineInv
<1>6. Phased(w)'
  BY <1>1, <1>4 DEF Phased, LoopTo, IsLoop, AtRule, Work
<1>7. Stored(w)'
  BY <1>1, <1>2, <1>3 DEF Stored, MemTo, IsMem, DiskTo, LoopTo, IsLoop
<1>8. QueuedOnce' /\ Placed(w)' /\ SentOnce' /\ NothingVanishes'
  BY <1>1, <1>2, <1>3, <1>4, PlacesSame DEF MemTo, IsMem, DiskTo, LoopTo, IsLoop, history
<1>9. ASSUME NEW i \in Instants, Spent(i) PROVE Spent(i)'
  <2>1. disk'.marked = disk.marked /\ disk'.prints = prints /\ mem'[w].since = since
    BY <1>2 DEF DiskTo, MemTo, IsMem
  <2>2. CASE i \in disk.marked \cup old
    BY <1>1, <1>9, <2>1, <2>2 DEF Spent, world
  <2>3. CASE i \notin disk.marked \cup old
    <3>1. i \in due /\ i \in disk.prints /\ Remembers(w, i)
      BY <1>1, <1>9, <2>3 DEF Spent
    <3>2. mem[w].since = None \/ i \in mem[w].since
      BY <1>3, <3>1 DEF Remembers
    <3>3. prints = disk.prints /\ since = IF mem[w].since = None THEN due ELSE mem[w].since
      BY <1>2, <2>3, <3>2
    <3>4. Remembers(w, i)'
      BY <2>1, <3>1, <3>2, <3>3 DEF Remembers
    <3> QED BY <1>1, <1>4, <2>1, <3>1, <3>3, <3>4 DEF Spent, Work, Idle, world
  <2> QED BY <2>2, <2>3
<1>10. FiredOnce' /\ \A i \in Instants : ~Fires(w, i)'
  BY <1>1, <1>9 DEF EngineInv, FiredOnce, Fires, history, LoopTo, IsLoop
<1> QED BY <1>4, <1>5, <1>6, <1>7, <1>8, <1>10, InvFrom DEF WorkerInv

----------------------------------------------------------------------------
(* The releases, and what is on its way out. *)

\* A release puts firings S of the queues into batches, ends those in X, and leaves the rest.
Releases(w, out, S, deferred, window, hold, X) ==
  /\ Holds(out, S)
  /\ deferred \subseteq disk.deferred /\ window \subseteq disk.window /\ hold \subseteq mem[w].hold
  /\ S \subseteq disk.deferred \cup disk.window \cup mem[w].hold /\ S \cap (deferred \cup window \cup hold) = {}
  /\ closed' = closed \cup X
  /\ disk.deferred \cup disk.window \cup mem[w].hold \subseteq deferred \cup window \cup hold \cup S \cup X

ReleasesTo(w, at, out, deferred, window, hold) ==
  /\ LoopTo(w, loop[w].phase, at, loop[w].rule, loop[w].batch, loop[w].event, loop[w].settled, out)
  /\ MemTo(w, mem[w].prints, mem[w].marked, deferred, window, hold, mem[w].since)
  /\ DiskTo(disk.prints, disk.marked, deferred, window)

LEMMA ReleasePlaced ==
  ASSUME EngineInv, NEW w \in Workers, Work(w), UNCHANGED <<runs, sent, lost>>,
         loop[w].phase = "release", loop[w].out = <<>>,
         NEW at \in {"held", "window"}, NEW out, NEW S, NEW deferred, NEW window, NEW hold, NEW X,
         Releases(w, out, S, deferred, window, hold, X), ReleasesTo(w, at, out, deferred, window, hold)
  PROVE  QueuedOnce' /\ Placed(w)' /\ SentOnce' /\ NothingVanishes'
<1>a. /\ deferred = disk'.deferred /\ window = disk'.window /\ hold = mem'[w].hold /\ out = loop'[w].out
      /\ loop[w].at # "route" /\ loop'[w].at # "route"
  BY AtReleaseWork DEF ReleasesTo, LoopTo, IsLoop, MemTo, IsMem, DiskTo
<1> USE <1>a DEF Releases, Holds
<1>1. QueuedOnce /\ Placed(w) /\ Sending(<<>>) = {}
  BY NoneSending DEF EngineInv, WorkerInv
<1>2. InHand(w) = mem[w].hold /\ InHand(w)' = hold \cup S
  BY <1>1 DEF InHand
<1>3. disk.deferred \subseteq Firings /\ disk.window \subseteq Firings /\ mem[w].hold \subseteq Firings
  BY DiskFields, MemFields DEF EngineInv
<1>4. \A f \in disk.deferred \cup disk.window \cup mem[w].hold : Unsent(f)'
  BY <1>1 DEF QueuedOnce, Placed, Unsent
<1>5. QueuedOnce'
  BY <1>1, <1>4 DEF QueuedOnce
<1>6. Placed(w)'
  <2>1. hold \cap (disk.deferred \cup disk.window) = {}
    BY <1>1, <1>2 DEF Placed
  <2>2. (hold \cup S) \cap (deferred \cup window) = {}
    BY <2>1
  <2>3. \A i \in DOMAIN out : \A f \in out[i].firings : Unsent(f)'
    BY <1>4
  <2> QED BY <1>2, <1>4, <2>2, <2>3 DEF Placed
<1>7. SentOnce'
  BY DEF EngineInv, SentOnce
<1>8. NothingVanishes'
  <2>1. \A v \in Workers : InHand(v) \cup disk.deferred \cup disk.window
                             \subseteq InHand(w)' \cup deferred \cup window \cup closed'
    BY <1>2, IdleHand DEF Work
  <2> QED BY <2>1 DEF EngineInv, NothingVanishes
<1> QED BY <1>5, <1>6, <1>7, <1>8

\* A step on the first batch that is on its way out.
LEMMA OutPlaced ==
  ASSUME EngineInv, NEW w \in Workers, Work(w), UNCHANGED <<runs, lost, disk>>, mem' = mem,
         loop'[w].at = loop[w].at, loop[w].out # <<>>,
         NEW new, new = loop'[w].out, InOrder(new), Sending(new) \subseteq Sending(loop[w].out),
         NEW X, closed' = closed \cup X, Sending(loop[w].out) \subseteq Sending(new) \cup X,
         sent' = sent \/ (Out(w).at = "deliver" /\ SendOut(w)),
         \A i \in DOMAIN new : new[i].at # "note" =>
            \/ new[i].firings \subseteq Sending(loop[w].out) \ Out(w).firings
            \/ sent' = sent /\ Out(w).at = "check" /\ new[i].firings \subseteq Out(w).firings
  PROVE  QueuedOnce' /\ Placed(w)' /\ SentOnce' /\ NothingVanishes'
<1>1. QueuedOnce /\ Placed(w) /\ SentOnce
  BY DEF EngineInv, WorkerInv
<1>2. /\ 1 \in DOMAIN loop[w].out /\ Out(w) = loop[w].out[1] /\ loop[w].phase = "release"
      /\ Out(w).firings \subseteq Firings /\ Out(w).firings \subseteq Sending(loop[w].out)
  BY OutIs DEF Out, Sending
<1>3. loop[w].at # "route"
  BY <1>2, AtReleaseWork
<1>4. InHand(w) = mem[w].hold \cup Sending(loop[w].out) /\ InHand(w)' = mem[w].hold \cup Sending(new)
  BY <1>3 DEF InHand
<1>5. disk.deferred \subseteq Firings /\ disk.window \subseteq Firings /\ mem[w].hold \subseteq Firings
      /\ Sending(loop[w].out) \subseteq Firings
  <2>1. Sending(loop[w].out) \subseteq Firings
    <3>1. loop[w].out \in Seq(Batches)
      BY LoopFields DEF EngineInv
    <3>2. \A i \in DOMAIN loop[w].out : loop[w].out[i] \in Batches
      BY <3>1
    <3> QED BY <3>2 DEF Sending, Batches
  <2> QED BY <2>1, DiskFields, MemFields DEF EngineInv
<1>6. \A f \in Firings : f \notin Out(w).firings => sent'[f] = sent[f]
  BY DEF SendOut
<1>7. Out(w).at # "note" => \A f \in Out(w).firings : Unsent(f)
  BY <1>1, <1>2 DEF Placed
<1>8. \A f \in Sending(loop[w].out) \ Out(w).firings : Unsent(f)
  <2> SUFFICES ASSUME NEW f \in Sending(loop[w].out), f \notin Out(w).firings PROVE Unsent(f)
    OBVIOUS
  <2>1. PICK i \in DOMAIN loop[w].out : i # 1 /\ f \in loop[w].out[i].firings
    BY <1>2 DEF Sending
  <2>2. loop[w].out[i].at = "check"
    BY <1>1, <2>1 DEF Placed, InOrder
  <2> QED BY <1>1, <2>1, <2>2 DEF Placed
<1>9. \A f \in Firings : Unsent(f) /\ f \notin Out(w).firings => Unsent(f)'
  BY <1>6 DEF Unsent
<1>10. QueuedOnce'
  <2>1. \A f \in disk.deferred \cup disk.window : Unsent(f)'
    BY <1>1, <1>2, <1>4, <1>5, <1>9 DEF QueuedOnce, Placed
  <2>2. ASSUME NEW f \in Firings, f[2] > runs[f[1]] PROVE sent'[f] = <<>>
    <3>1. f[2] \in Nat /\ runs[f[1]] \in Nat
      BY FiringFields DEF EngineInv, EngineTypeOK
    <3>2. ~Unsent(f)
      BY <2>2, <3>1 DEF Unsent
    <3>3. sent' = sent \/ f \notin Out(w).firings
      BY <1>7, <3>2
    <3>4. sent'[f] = sent[f]
      BY <1>6, <3>3
    <3> QED BY <1>1, <2>2, <3>4 DEF QueuedOnce
  <2> QED BY <1>1, <2>1, <2>2 DEF QueuedOnce
<1>11. Placed(w)'
  <2>1. InHand(w)' \cap (disk.deferred \cup disk.window) = {} /\ mem[w].hold \cap Sending(new) = {}
    BY <1>1, <1>4 DEF Placed
  <2>2. \A f \in mem[w].hold : Unsent(f)'
    BY <1>1, <1>2, <1>5, <1>9 DEF Placed
  <2>3. ASSUME NEW i \in DOMAIN new, new[i].at # "note", NEW f \in new[i].firings PROVE Unsent(f)'
    <3>1. CASE new[i].firings \subseteq Sending(loop[w].out) \ Out(w).firings
      BY <1>5, <1>8, <1>9, <3>1
    <3>2. CASE sent' = sent /\ Out(w).at = "check" /\ new[i].firings \subseteq Out(w).firings
      BY <1>7, <3>2 DEF Unsent
    <3> QED BY <2>3, <3>1, <3>2
  <2> QED BY <1>3, <2>1, <2>2, <2>3 DEF Placed
<1>12. SentOnce'
  <2> SUFFICES ASSUME NEW f \in Firings PROVE Len(sent'[f]) <= 1
    BY DEF SentOnce
  <2>1. CASE sent'[f] = sent[f]
    BY <1>1, <2>1 DEF SentOnce
  <2>2. CASE sent'[f] # sent[f]
    <3>1. f \in Out(w).firings /\ Out(w).at = "deliver" /\ SendOut(w)
      BY <1>6, <2>2
    <3>2. sent[f] = <<>>
      BY <1>7, <3>1 DEF Unsent
    <3>3. sent'[f] = Append(sent[f], Dest[loop[w].rule])
      BY <3>1 DEF SendOut
    <3> QED BY <3>2, <3>3
  <2> QED BY <2>1, <2>2
<1>13. NothingVanishes'
  <2>1. \A v \in Workers : InHand(v) \subseteq InHand(w)' \cup closed'
    BY <1>4, IdleHand DEF Work
  <2> QED BY <2>1 DEF EngineInv, NothingVanishes
<1> QED BY <1>10, <1>11, <1>12, <1>13

\* A release step fires nothing and forgets nothing.
LEMMA ReleaseFired ==
  ASSUME EngineInv, NEW w \in Workers, Work(w), UNCHANGED <<runs, world>>,
         loop[w].phase = "release", loop'[w].at \in {"deferred", "held", "window"},
         loop'[w].batch = loop[w].batch, loop'[w].settled = loop[w].settled,
         disk'.prints = disk.prints, disk'.marked = disk.marked, mem'[w].since = mem[w].since
  PROVE  FiredOnce' /\ \A i \in Instants : Fires(w, i)' => Fresh(i)'
<1>1. \A i \in Instants : ~Fires(w, i)'
  BY AtReleaseWork DEF Fires
<1>2. \A i \in Instants : Remembers(w, i) => Remembers(w, i)'
  BY AtReleaseWork DEF Remembers
<1> QED BY <1>1, <1>2, FiredSame DEF world

LEMMA KeepRelease ==
  ASSUME EngineInv, Alone, NEW w \in Workers, ReleaseDeferred(w) \/ ReleaseHeld(w) \/ FlushWindow(w)
  PROVE  EngineInv'
<1>1. /\ Steps(w) /\ loop[w].phase = "release" /\ loop[w].out = <<>>
      /\ UNCHANGED <<world, faults, leader, firing, up, history>>
  BY DEF ReleaseDeferred, ReleaseHeld, FlushWindow, AtRelease
<1>2. /\ loop[w].rule \in Rules /\ loop[w].at # "route" /\ loop[w].batch = {} /\ loop[w].settled = {}
      /\ mem[w].deferred = disk.deferred /\ mem[w].window = disk.window
      /\ mem[w].prints = disk.prints /\ mem[w].marked = disk.marked
  BY <1>1, AtReleaseWork
<1>3. /\ disk.deferred \in SUBSET Firings /\ disk.window \in SUBSET Firings /\ mem[w].hold \in SUBSET Firings
      /\ disk.deferred \cap disk.window = {} /\ mem[w].hold \cap (disk.deferred \cup disk.window) = {}
  BY DiskFields, MemFields DEF EngineInv, QueuedOnce, WorkerInv, Placed, InHand
<1>4. PICK at \in {"held", "window"}, out \in Seq(Batches), S \in SUBSET Firings, deferred \in SUBSET Firings,
           window \in SUBSET Firings, hold \in SUBSET Firings, X \in SUBSET Firings :
        Releases(w, out, S, deferred, window, hold, X) /\ ReleasesTo(w, at, out, deferred, window, hold)
  <2>1. CASE ReleaseDeferred(w)
    <3>1. PICK out \in Seq(Batches) : out = Batch(disk.deferred, "quiet")
      BY <1>3, BatchIs
    <3>2. Holds(out, disk.deferred)
      BY <1>3, <3>1, BatchSends
    <3>3. /\ LoopTo(w, loop[w].phase, "held", loop[w].rule, loop[w].batch, loop[w].event, loop[w].settled, out)
          /\ MemTo(w, mem[w].prints, mem[w].marked, {}, disk.window, mem[w].hold, mem[w].since)
          /\ DiskTo(disk.prints, disk.marked, {}, disk.window)
      BY <1>2, <2>1, <3>1, ReleaseDeferredDoes
    <3>4. closed' = closed \cup {}
      BY <2>1 DEF ReleaseDeferred
    <3>5. Releases(w, out, disk.deferred, {}, disk.window, mem[w].hold, {})
      BY <1>3, <3>2, <3>4 DEF Releases
    <3>6. ReleasesTo(w, "held", out, {}, disk.window, mem[w].hold)
      BY <3>3 DEF ReleasesTo
    <3> QED BY <1>3, <3>5, <3>6
  <2>2. CASE FlushWindow(w)
    <3>1. PICK out \in Seq(Batches) : out = Batch(disk.window, "now")
      BY <1>3, BatchIs
    <3>2. Holds(out, disk.window)
      BY <1>3, <3>1, BatchSends
    <3>3. /\ LoopTo(w, loop[w].phase, "window", loop[w].rule, loop[w].batch, loop[w].event, loop[w].settled, out)
          /\ MemTo(w, mem[w].prints, mem[w].marked, disk.deferred, {}, mem[w].hold, mem[w].since)
          /\ DiskTo(disk.prints, disk.marked, disk.deferred, {})
      BY <1>2, <2>2, <3>1, FlushWindowDoes
    <3>4. closed' = closed \cup {}
      BY <2>2 DEF FlushWindow
    <3>5. Releases(w, out, disk.window, disk.deferred, {}, mem[w].hold, {})
      BY <1>3, <3>2, <3>4 DEF Releases
    <3>6. ReleasesTo(w, "window", out, disk.deferred, {}, mem[w].hold)
      BY <3>3 DEF ReleasesTo
    <3> QED BY <1>3, <3>5, <3>6
  <2>3. CASE ReleaseHeld(w)
    <3>1. PICK free \in SUBSET mem[w].hold, late \in SUBSET mem[w].hold, expired \in SUBSET mem[w].hold :
            /\ free \cap late = {} /\ closed' = closed \cup expired /\ disk' = disk
            /\ LoopTo(w, loop[w].phase, "window", loop[w].rule, loop[w].batch, loop[w].event, loop[w].settled,
                      Batch(free, "ended") \o Batch(late, "bound"))
            /\ MemTo(w, mem[w].prints, mem[w].marked, mem[w].deferred, mem[w].window,
                     mem[w].hold \ (free \cup late \cup expired), mem[w].since)
      BY <2>3, ReleaseHeldDoes
    <3>2. free \in SUBSET Firings /\ late \in SUBSET Firings /\ expired \in SUBSET Firings
      BY <1>3
    <3>3. Batch(free, "ended") \in Seq(Batches) /\ Batch(late, "bound") \in Seq(Batches)
      BY <3>2, BatchIs
    <3>4. PICK out \in Seq(Batches) : out = Batch(free, "ended") \o Batch(late, "bound")
      <4>1. \A a, b \in Seq(Batches) : a \o b \in Seq(Batches)
        OBVIOUS
      <4> QED BY <3>3, <4>1
    <3>5. Holds(out, free \cup late)
      BY <3>1, <3>2, <3>4, TwoBatches
    <3>6. DiskTo(disk.prints, disk.marked, disk.deferred, disk.window)
      BY <3>1 DEF DiskTo, EngineInv, EngineTypeOK
    <3>7. /\ LoopTo(w, loop[w].phase, "window", loop[w].rule, loop[w].batch, loop[w].event, loop[w].settled, out)
          /\ MemTo(w, mem[w].prints, mem[w].marked, disk.deferred, disk.window,
                   mem[w].hold \ (free \cup late \cup expired), mem[w].since)
      BY <1>2, <3>1, <3>4
    <3> DEFINE hold == mem[w].hold \ (free \cup late \cup expired)
    <3>8. /\ free \cup late \in SUBSET Firings /\ hold \in SUBSET Firings /\ hold \subseteq mem[w].hold
          /\ free \cup late \subseteq mem[w].hold /\ (free \cup late) \cap (disk.deferred \cup disk.window \cup hold) = {}
          /\ mem[w].hold \subseteq hold \cup (free \cup late) \cup expired
      BY <1>3, <3>2
    <3> HIDE DEF hold
    <3>9. MemTo(w, mem[w].prints, mem[w].marked, disk.deferred, disk.window, hold, mem[w].since)
      BY <3>7 DEF hold
    <3>10. Releases(w, out, free \cup late, disk.deferred, disk.window, hold, expired)
      BY <3>1, <3>5, <3>8 DEF Releases
    <3>11. ReleasesTo(w, "window", out, disk.deferred, disk.window, hold)
      BY <3>6, <3>7, <3>9 DEF ReleasesTo
    <3> QED BY <1>3, <3>2, <3>8, <3>10, <3>11
  <2> QED BY <2>1, <2>2, <2>3
<1>5. Work(w)
  BY <1>1, <1>4, Working DEF ReleasesTo, LoopTo, MemTo
<1>6. EngineTypeOK'
  <2>1. Rest'
    BY <1>1, <1>4 DEF Rest, EngineInv, EngineTypeOK, world, history, DiskTo, ReleasesTo, Releases
  <2> QED BY <1>4, <2>1, TypesFrom DEF EngineInv, ReleasesTo
<1>7. Phased(w)'
  BY <1>1, <1>2, <1>4, <1>5 DEF Phased, ReleasesTo, LoopTo, IsLoop, AtRule, Work
<1>8. Stored(w)'
  BY <1>2, <1>4 DEF Stored, ReleasesTo, MemTo, IsMem, DiskTo
<1>9. QueuedOnce' /\ Placed(w)' /\ SentOnce' /\ NothingVanishes'
  <2>1. UNCHANGED <<runs, sent, lost>>
    BY <1>1 DEF history
  <2> QED BY <1>1, <1>4, <1>5, <2>1, ReleasePlaced
<1>10. FiredOnce' /\ \A i \in Instants : Fires(w, i)' => Fresh(i)'
  BY <1>1, <1>4, <1>5, ReleaseFired DEF ReleasesTo, LoopTo, IsLoop, MemTo, IsMem, DiskTo, history
<1> QED BY <1>5, <1>6, <1>7, <1>8, <1>9, <1>10, InvFrom DEF WorkerInv

LEMMA KeepOut ==
  ASSUME EngineInv, Alone, NEW w \in Workers, Recheck(w) \/ Deliver(w) \/ NoteDelivered(w) \/ NotDelivered(w)
  PROVE  EngineInv'
<1>1. /\ Steps(w) /\ loop[w].out # <<>> /\ UNCHANGED <<world, faults, leader, firing, disk, up, mem, runs, lost>>
  BY DEF Recheck, Deliver, NoteDelivered, NotDelivered, history, stores
<1>2. /\ loop[w].phase = "release" /\ Out(w) \in Batches /\ Out(w).firings \subseteq Firings /\ Out(w) = loop[w].out[1]
      /\ Tail(loop[w].out) \in Seq(Batches)
  BY <1>1, OutIs DEF Out
<1>3. /\ loop[w].rule \in Rules /\ loop[w].at \in {"deferred", "held", "window"}
      /\ loop[w].batch = {} /\ loop[w].settled = {}
      /\ mem[w].deferred = disk.deferred /\ mem[w].window = disk.window
      /\ mem[w].prints = disk.prints /\ mem[w].marked = disk.marked
  BY <1>2, AtReleaseWork
<1>4. loop[w].out \in Seq(Batches) /\ InOrder(loop[w].out)
  BY LoopFields DEF EngineInv, WorkerInv, Placed
<1>5. PICK new \in Seq(Batches), X \in SUBSET Firings :
        /\ LoopTo(w, loop[w].phase, loop[w].at, loop[w].rule, loop[w].batch, loop[w].event, loop[w].settled, new)
        /\ InOrder(new) /\ Sending(new) \subseteq Sending(loop[w].out)
        /\ closed' = closed \cup X /\ Sending(loop[w].out) \subseteq Sending(new) \cup X
        /\ sent' = sent \/ (Out(w).at = "deliver" /\ SendOut(w))
        /\ \A i \in DOMAIN new : new[i].at # "note" =>
              \/ new[i].firings \subseteq Sending(loop[w].out) \ Out(w).firings
              \/ sent' = sent /\ Out(w).at = "check" /\ new[i].firings \subseteq Out(w).firings
  <2>1. /\ Sending(Tail(loop[w].out)) = Sending(loop[w].out) \ Out(w).firings /\ InOrder(Tail(loop[w].out))
        /\ \A i \in DOMAIN Tail(loop[w].out) :
             Tail(loop[w].out)[i].firings \subseteq Sending(loop[w].out) \ Out(w).firings
    BY <1>1, <1>2, <1>4, RestSends
  <2>2. CASE Recheck(w)
    <3>1. PICK left \in SUBSET Out(w).firings, new \in Seq(Batches) :
            /\ closed' = closed \cup (Out(w).firings \ left)
            /\ LoopTo(w, loop[w].phase, loop[w].at, loop[w].rule, loop[w].batch, loop[w].event, loop[w].settled, new)
            /\ \/ left = {} /\ new = Tail(loop[w].out)
               \/ \E b \in Batches : b.firings = left /\ b.at = "deliver" /\ new = <<b>> \o Tail(loop[w].out)
      BY <2>2, RecheckDoes
    <3>2. Out(w).at = "check" /\ sent' = sent /\ Out(w).firings \ left \in SUBSET Firings
      BY <1>2, <2>2 DEF Recheck, history
    <3>3. CASE left = {} /\ new = Tail(loop[w].out)
      <4>1. Sending(loop[w].out) \subseteq Sending(new) \cup (Out(w).firings \ left)
        BY <2>1, <3>3
      <4> QED BY <2>1, <3>1, <3>2, <3>3, <4>1
    <3>4. ASSUME NEW b \in Batches, b.firings = left, b.at = "deliver", new = <<b>> \o Tail(loop[w].out)
          PROVE  /\ InOrder(new) /\ Sending(new) \subseteq Sending(loop[w].out)
                 /\ Sending(loop[w].out) \subseteq Sending(new) \cup (Out(w).firings \ left)
                 /\ \A i \in DOMAIN new : \/ new[i].firings \subseteq Sending(loop[w].out) \ Out(w).firings
                                         \/ new[i].firings \subseteq Out(w).firings
      <4>1. /\ Sending(new) = left \cup (Sending(loop[w].out) \ Out(w).firings) /\ InOrder(new)
            /\ 1 \in DOMAIN new /\ new[1] = b
            /\ \A i \in DOMAIN new : i # 1 => i \in DOMAIN loop[w].out /\ new[i] = loop[w].out[i]
        <5>1. b.firings \subseteq loop[w].out[1].firings
          BY <1>2, <3>4
        <5>2. FirstIs(loop[w].out, b, new)
          BY <3>4 DEF FirstIs
        <5>3. Sending(new) = b.firings \cup (Sending(loop[w].out) \ loop[w].out[1].firings)
          BY <1>1, <1>4, <5>1, <5>2, FirstSends
        <5>4. InOrder(new) /\ 1 \in DOMAIN new /\ new[1] = b
          BY SMTT(30), <1>1, <1>4, <5>1, <5>2, FirstSends
        <5>5. \A i \in DOMAIN new : i # 1 => i \in DOMAIN loop[w].out /\ new[i] = loop[w].out[i]
          BY <1>1, <1>4, <5>1, <5>2, FirstSends, SMTT(60)
        <5> QED BY <1>2, <3>4, <5>3, <5>4, <5>5
      <4>2. 1 \in DOMAIN loop[w].out /\ Out(w).firings \subseteq Sending(loop[w].out)
        BY <1>1, <1>2, OutIs DEF Sending
      <4>3. ASSUME NEW i \in DOMAIN new, i # 1 PROVE new[i].firings \subseteq Sending(loop[w].out) \ Out(w).firings
        BY <1>2, <1>4, <4>1, <4>2, <4>3 DEF InOrder, Sending
      <4> QED BY <3>4, <4>1, <4>2, <4>3
    <3> QED BY <3>1, <3>2, <3>3, <3>4
  <2>3. CASE Deliver(w)
    <3>1. PICK b \in Batches : b.firings = Out(w).firings /\ b.at = "note"
            /\ LoopTo(w, loop[w].phase, loop[w].at, loop[w].rule, loop[w].batch, loop[w].event, loop[w].settled,
                      [loop[w].out EXCEPT ![1] = b])
      BY <2>3, DeliverDoes
    <3>2. PICK new \in Seq(Batches) : new = [loop[w].out EXCEPT ![1] = b]
      <4>1. [loop[w].out EXCEPT ![1] = b] \in Seq(Batches)
        BY <1>1, <1>4, OutIs
      <4> QED BY <4>1
    <3>3. Out(w).at = "deliver" /\ SendOut(w) /\ closed' = closed \cup {} /\ {} \in SUBSET Firings
      BY <2>3 DEF Deliver, stores
    <3>4. /\ Sending(new) = Out(w).firings \cup (Sending(loop[w].out) \ Out(w).firings) /\ InOrder(new)
          /\ 1 \in DOMAIN new /\ new[1] = b
          /\ \A i \in DOMAIN new : i # 1 => i \in DOMAIN loop[w].out /\ new[i] = loop[w].out[i]
      <4>1. b.firings \subseteq loop[w].out[1].firings
        BY <1>2, <3>1
      <4>2. FirstIs(loop[w].out, b, new)
        BY <3>2 DEF FirstIs
      <4>3. /\ Sending(new) = b.firings \cup (Sending(loop[w].out) \ loop[w].out[1].firings) /\ InOrder(new)
            /\ 1 \in DOMAIN new /\ new[1] = b
            /\ \A i \in DOMAIN new : i # 1 => i \in DOMAIN loop[w].out /\ new[i] = loop[w].out[i]
        BY <1>1, <1>4, <4>1, <4>2, FirstSends
      <4> QED BY <1>2, <3>1, <4>3
    <3>5. 1 \in DOMAIN loop[w].out /\ Out(w).firings \subseteq Sending(loop[w].out)
      BY <1>1, <1>2, OutIs DEF Sending
    <3>6. ASSUME NEW i \in DOMAIN new, new[i].at # "note" PROVE new[i].firings \subseteq Sending(loop[w].out) \ Out(w).firings
      <4>1. i # 1
        BY <3>1, <3>4, <3>6
      <4> QED BY <1>2, <1>4, <3>4, <3>5, <4>1 DEF InOrder, Sending
    <3>7. Sending(new) = Sending(loop[w].out)
      BY <3>4, <3>5
    <3> QED BY <3>1, <3>2, <3>3, <3>4, <3>6, <3>7
  <2>4. CASE NoteDelivered(w) \/ NotDelivered(w)
    <3>1. /\ closed' = closed \cup Out(w).firings /\ Out(w).firings \in SUBSET Firings
          /\ sent' = sent \/ (Out(w).at = "deliver" /\ SendOut(w))
          /\ LoopTo(w, loop[w].phase, loop[w].at, loop[w].rule, loop[w].batch, loop[w].event, loop[w].settled,
                    Tail(loop[w].out))
      BY <1>2, <2>4, DeliveredDoes
    <3>2. PICK new \in Seq(Batches) : new = Tail(loop[w].out)
      BY <1>2
    <3>3. Sending(loop[w].out) \subseteq Sending(new) \cup Out(w).firings /\ Sending(new) \subseteq Sending(loop[w].out)
      BY <2>1, <3>2
    <3> QED BY <2>1, <3>1, <3>2, <3>3
  <2> QED BY <1>1, <2>2, <2>3, <2>4 DEF Recheck, Deliver, NoteDelivered, NotDelivered
<1>6. Work(w)
  BY <1>1, <1>5, Working DEF LoopTo
<1>7. MemTo(w, mem[w].prints, mem[w].marked, mem[w].deferred, mem[w].window, mem[w].hold, mem[w].since)
  BY <1>1, MemSame DEF EngineInv
<1>8. EngineTypeOK'
  <2>1. sent' \in [Firings -> Seq({Dest[r] : r \in Rules})]
    <3>1. sent \in [Firings -> Seq({Dest[r] : r \in Rules})]
      BY DEF EngineInv, EngineTypeOK
    <3>2. CASE sent' = sent
      BY <3>1, <3>2
    <3>3. CASE SendOut(w)
      <4>1. Dest[loop[w].rule] \in {Dest[r] : r \in Rules}
        BY <1>3
      <4>2. \A f \in Firings : Append(sent[f], Dest[loop[w].rule]) \in Seq({Dest[r] : r \in Rules})
        BY <3>1, <4>1
      <4> QED BY <3>1, <3>3, <4>2 DEF SendOut
    <3> QED BY <1>5, <3>2, <3>3
  <2>2. Rest'
    BY <1>1, <1>5, <2>1 DEF Rest, EngineInv, EngineTypeOK, world
  <2> QED BY <1>5, <1>7, <2>2, TypesFrom DEF EngineInv
<1>9. Phased(w)'
  BY <1>2, <1>3, <1>5, <1>6 DEF Phased, LoopTo, IsLoop, AtRule, Work
<1>10. Stored(w)'
  BY <1>1, <1>3 DEF Stored
<1>11. QueuedOnce' /\ Placed(w)' /\ SentOnce' /\ NothingVanishes'
  <2>1. new = loop'[w].out /\ loop'[w].at = loop[w].at /\ UNCHANGED <<runs, lost, disk>> /\ mem' = mem
    BY <1>1, <1>5 DEF LoopTo, IsLoop
  <2> QED BY <1>1, <1>5, <1>6, <2>1, OutPlaced
<1>12. FiredOnce' /\ \A i \in Instants : Fires(w, i)' => Fresh(i)'
  BY <1>1, <1>2, <1>3, <1>5, <1>6, ReleaseFired DEF LoopTo, IsLoop
<1> QED BY <1>6, <1>8, <1>9, <1>10, <1>11, <1>12, InvFrom DEF WorkerInv

----------------------------------------------------------------------------
(* A process starts or ends. *)

LEMMA KeepStart ==
  ASSUME EngineInv, Alone', NEW w \in Workers, Start(w)
  PROVE  EngineInv'
<1>1. /\ up[w] = "down" /\ ~Steps(w) /\ loop[w] = Asleep /\ mem[w] = Forgotten
      /\ UNCHANGED <<world, faults, firing, disk, closed, history>>
  BY DEF Start, Steps, EngineInv, WorkerInv, Phased
<1>2. /\ LoopTo(w, "asleep", "free", None, {}, None, {}, <<>>) /\ loop'[w] = Asleep
      /\ leader' \in Workers \cup {None} /\ up' \in [Workers -> {"down", "serving", "leading", "leaving"}]
      /\ \A v \in Workers \ {w} : up'[v] = up[v] /\ loop'[v] = loop[v]
  <2>1. /\ LoopTo(w, "asleep", "free", None, {}, None, {}, <<>>) /\ loop'[w] = Asleep
        /\ leader' \in {leader, w}
        /\ up' = [up EXCEPT ![w] = "serving"] \/ up' = [up EXCEPT ![w] = "leading"]
    BY StartDoes
  <2>2. leader \in Workers \cup {None} /\ up \in [Workers -> {"down", "serving", "leading", "leaving"}]
    BY DEF EngineInv, EngineTypeOK
  <2> QED BY <2>1, <2>2 DEF LoopTo
<1>3. PICK deferred \in SUBSET Firings, window \in SUBSET Firings :
        /\ MemTo(w, None, None, deferred, window, {}, None)
        /\ \/ up'[w] = "serving" /\ mem'[w] = Forgotten
           \/ up'[w] = "leading" /\ deferred = disk.deferred /\ window = disk.window
  <2>1. CASE up' = [up EXCEPT ![w] = "serving"] /\ mem' = mem
    <3>1. MemTo(w, mem[w].prints, mem[w].marked, mem[w].deferred, mem[w].window, mem[w].hold, mem[w].since)
      BY <2>1, MemSame DEF EngineInv
    <3>2. MemTo(w, None, None, {}, {}, {}, None)
      BY <1>1, <3>1 DEF Forgotten
    <3>3. {} \in SUBSET Firings /\ up'[w] = "serving" /\ mem'[w] = Forgotten
      BY <1>1, <2>1 DEF EngineInv, EngineTypeOK
    <3> QED BY <3>2, <3>3
  <2>2. CASE /\ up' = [up EXCEPT ![w] = "leading"]
             /\ MemTo(w, None, None, disk.deferred, disk.window, {}, None)
    <3>1. disk.deferred \in SUBSET Firings /\ disk.window \in SUBSET Firings /\ up'[w] = "leading"
      BY <2>2, DiskFields DEF EngineInv, EngineTypeOK
    <3> QED BY <2>2, <3>1
  <2> QED BY <2>1, <2>2, StartDoes
<1>4. EngineTypeOK'
  <2>1. Rest'
    BY <1>1, <1>2 DEF Rest, EngineInv, EngineTypeOK, world, history
  <2> QED BY <1>2, <1>3, <2>1, TypesFrom DEF EngineInv
<1>5. Sending(<<>>) = {} /\ InOrder(<<>>)
  BY NoneSending
<1>6. InHand(w) = {} /\ InHand(w)' = {} /\ \A i \in Instants : ~Fires(w, i)'
  BY <1>1, <1>2, <1>3, <1>5 DEF InHand, Fires, LoopTo, IsLoop, MemTo, IsMem, Asleep, Forgotten
<1>7. ASSUME NEW v \in Workers, v # w
      PROVE  /\ InHand(v)' = InHand(v) /\ mem'[v] = mem[v] /\ loop'[v] = loop[v] /\ up'[v] = up[v]
             /\ Steps(v)' = Steps(v)
  BY <1>1, <1>2, <1>3, <1>7 DEF InHand, Last, MemTo, Steps, history
<1>8. ASSUME NEW f \in Firings PROVE Unsent(f)' <=> Unsent(f)
  BY <1>1 DEF Unsent, history
<1>9. QueuedOnce' /\ SentOnce' /\ NothingVanishes'
  <2>1. QueuedOnce' /\ SentOnce'
    BY <1>1 DEF EngineInv, QueuedOnce, SentOnce, Unsent, history
  <2>2. \A v \in Workers : InHand(v)' = InHand(v)
    BY <1>6, <1>7
  <2>3. NothingVanishes
    BY DEF EngineInv
  <2>4. NothingVanishes'
    BY <1>1, <2>2, <2>3 DEF NothingVanishes, history
  <2> QED BY <2>1, <2>4
<1>10. \A i \in Instants : Spent(i) => Spent(i)'
  <2>1. mem'[w].since = None
    BY <1>3 DEF MemTo, IsMem
  <2>2. \A i \in Instants : Remembers(w, i)'
    BY <2>1 DEF Remembers
  <2>3. ASSUME NEW i \in Instants, NEW v \in Workers, v # w, Steps(v) => Remembers(v, i)
        PROVE  Steps(v)' => Remembers(v, i)'
    BY <1>7, <2>3 DEF Remembers
  <2> QED BY <1>1, <2>2, <2>3 DEF Spent, world
<1>11. FiredOnce'
  BY <1>1, <1>10 DEF EngineInv, FiredOnce, history
<1>12. WorkerInv(w)'
  <2>1. Phased(w)'
    BY <1>2, <1>3 DEF Phased, AtRule, LoopTo, IsLoop, Steps
  <2>2. Stored(w)'
    BY <1>1, <1>2, <1>3 DEF Stored, LoopTo, IsLoop, MemTo, IsMem, Steps
  <2>3. Placed(w)'
    BY <1>2, <1>3, <1>5, <1>6 DEF Placed, LoopTo, IsLoop, MemTo, IsMem
  <2> QED BY <1>6, <2>1, <2>2, <2>3 DEF WorkerInv
<1>13. ASSUME NEW v \in Workers, v # w PROVE WorkerInv(v)'
  <2>1. WorkerInv(v)
    BY DEF EngineInv
  <2>2. Phased(v)' /\ Stored(v)'
    BY <1>1, <1>7, <1>13, <2>1 DEF WorkerInv, Phased, Stored, history
  <2>3. Placed(v)'
    BY <1>1, <1>7, <1>13, <2>1 DEF WorkerInv, Placed, Unsent, Last, history
  <2>4. \A i \in Instants : Fires(v, i)' => Fresh(i)'
    BY <1>1, <1>7, <1>13, <2>1 DEF WorkerInv, Fires, Fresh, world, history
  <2> QED BY <2>2, <2>3, <2>4 DEF WorkerInv
<1> QED BY <1>4, <1>9, <1>11, <1>12, <1>13 DEF EngineInv

LEMMA KeepEnded ==
  ASSUME EngineInv, NEW w \in Workers, Ended(w), faults' \in 0 .. MaxFaults
  PROVE  EngineInv'
<1>1. /\ lost' = lost \cup (InHand(w) \ closed) /\ UNCHANGED <<world, disk, closed, runs, sent>>
      /\ loop' = [loop EXCEPT ![w] = Asleep] /\ mem' = [mem EXCEPT ![w] = Forgotten]
      /\ up' = [up EXCEPT ![w] = "down"]
  BY DEF Ended
<1>2. loop'[w] = Asleep /\ mem'[w] = Forgotten /\ up'[w] = "down"
      /\ \A v \in Workers \ {w} : loop'[v] = loop[v] /\ mem'[v] = mem[v] /\ up'[v] = up[v]
  BY <1>1 DEF EngineInv, EngineTypeOK
<1>3. Idle(w)'
  BY <1>2 DEF Idle, Steps
<1>4. ASSUME NEW v \in Workers, v # w
      PROVE  InHand(v)' = InHand(v) /\ Steps(v)' = Steps(v)
  BY <1>1, <1>2, <1>4 DEF InHand, Last, Steps
<1>5. InHand(w) \subseteq Firings
  <2>1. mem[w].hold \subseteq Firings /\ loop[w].out \in Seq(Batches)
    BY LoopFields, MemFields DEF EngineInv
  <2>2. \A i \in DOMAIN loop[w].out : loop[w].out[i] \in Batches
    BY <2>1
  <2>3. Sending(loop[w].out) \subseteq Firings
    BY <2>2 DEF Sending, Batches
  <2>4. loop[w].at = "route" => Last(loop[w].event) \in Firings
    <3> SUFFICES ASSUME loop[w].at = "route" PROVE Last(loop[w].event) \in Firings
      OBVIOUS
    <3>1. loop[w].event \in Events /\ runs[loop[w].event] > 0
      BY DEF EngineInv, WorkerInv, Phased
    <3>2. runs[loop[w].event] \in 1 .. MaxFirings[loop[w].event]
      BY <3>1 DEF EngineInv, EngineTypeOK
    <3> QED BY <3>1, <3>2, FiringOf DEF Last
  <2> QED BY <2>1, <2>3, <2>4 DEF InHand
<1>6. EngineTypeOK'
  <2>1. Rest'
    BY <1>1, <1>5 DEF Rest, EngineInv, EngineTypeOK, world, Ended
  <2> QED BY <2>1, EndedDoes, TypesFrom DEF EngineInv
<1>7. QueuedOnce' /\ SentOnce'
  BY <1>1 DEF EngineInv, QueuedOnce, SentOnce, Unsent
<1>8. NothingVanishes'
  <2> SUFFICES ASSUME NEW f \in Firings, f[2] <= runs[f[1]]
               PROVE  \/ f \in closed \/ f \in lost' \/ f \in disk.deferred \cup disk.window
                      \/ \E v \in Workers : f \in InHand(v)'
    BY <1>1 DEF NothingVanishes
  <2>1. CASE f \in InHand(w)
    BY <1>1, <2>1
  <2>2. CASE f \notin InHand(w)
    BY <1>1, <1>4, <2>2 DEF EngineInv, NothingVanishes
  <2> QED BY <2>1, <2>2
<1>9. FiredOnce'
  <2>1. \A i \in Instants : Spent(i) => Spent(i)'
    <3>1. ASSUME NEW i \in Instants, NEW v \in Workers, Steps(v) => Remembers(v, i)
          PROVE  Steps(v)' => Remembers(v, i)'
      BY <1>2, <1>3, <1>4, <3>1 DEF Remembers, Idle
    <3> QED BY <1>1, <3>1 DEF Spent, world
  <2> QED BY <1>1, <2>1 DEF EngineInv, FiredOnce
<1>10. WorkerInv(w)'
  BY <1>3, IdleFits
<1>11. ASSUME NEW v \in Workers, v # w PROVE WorkerInv(v)'
  <2>1. WorkerInv(v)
    BY DEF EngineInv
  <2>2. Phased(v)' /\ Stored(v)'
    BY <1>1, <1>2, <1>4, <1>11, <2>1 DEF WorkerInv, Phased, Stored
  <2>3. Placed(v)'
    BY <1>1, <1>2, <1>4, <1>11, <2>1 DEF WorkerInv, Placed, Unsent, Last
  <2>4. \A i \in Instants : Fires(v, i)' => Fresh(i)'
    BY <1>1, <1>2, <1>4, <1>11, <2>1 DEF WorkerInv, Fires, Fresh, world
  <2> QED BY <2>2, <2>3, <2>4 DEF WorkerInv
<1> QED BY <1>6, <1>7, <1>8, <1>9, <1>10, <1>11 DEF EngineInv

----------------------------------------------------------------------------
(* The invariant, for as long as one worker is at work. *)

LEMMA EngineStart == Init => EngineInv /\ Alone
<1> SUFFICES ASSUME Init PROVE EngineInv /\ Alone
  OBVIOUS
<1> USE DEF Init
<1>1. \A w \in Workers : loop[w] = Asleep /\ mem[w] = Forgotten /\ up[w] = "down"
  OBVIOUS
<1>2. \A w \in Workers : IsLoop(loop[w], "asleep", "free", None, {}, None, {}, <<>>)
                         /\ IsMem(mem[w], None, None, {}, {}, {}, None)
  BY <1>1, AsleepIs, ForgottenIs
<1>3. EngineTypeOK
  <2>1. loop \in [Workers -> Loops] /\ mem \in [Workers -> Memories]
    BY <1>1, AsleepIs, ForgottenIs DEF IsLoop, IsMem
  <2>2. \A w \in Workers : /\ loop[w].todo \subseteq loop[w].awaited
                           /\ AtRule(loop[w]) => loop[w].rule \notin loop[w].todo
                           /\ mem[w].ripe \subseteq mem[w].hold \cup mem[w].window
    BY <1>2 DEF IsLoop, IsMem
  <2>3. runs \in [Events -> Nat] /\ \A e \in Events : runs[e] <= MaxFirings[e]
    OBVIOUS
  <2>4. sent \in [Firings -> Seq({Dest[r] : r \in Rules})]
    OBVIOUS
  <2>5. /\ due \subseteq Instants /\ old \subseteq due /\ faults \in 0 .. MaxFaults
        /\ leader \in Workers \cup {None} /\ firing \in Workers \cup {None}
        /\ disk \in [prints : SUBSET Events, marked : SUBSET Instants,
                     deferred : SUBSET Firings, window : SUBSET Firings]
        /\ closed \subseteq Firings /\ up \in [Workers -> {"down", "serving", "leading", "leaving"}]
        /\ lost \subseteq Firings
    BY DEF Blank
  <2> QED BY <2>1, <2>2, <2>3, <2>4, <2>5 DEF EngineTypeOK
<1>4. \A f \in Firings : f[1] \in Events /\ f[2] > 0 /\ ~(f[2] <= runs[f[1]]) /\ sent[f] = <<>>
  <2> SUFFICES ASSUME NEW f \in Firings
               PROVE  f[1] \in Events /\ f[2] > 0 /\ ~(f[2] <= runs[f[1]]) /\ sent[f] = <<>>
    OBVIOUS
  <2>1. f[1] \in Events /\ f[2] \in 1 .. MaxFirings[f[1]]
    BY FiringFields
  <2>2. f[2] \in Nat /\ f[2] > 0
    BY <2>1
  <2>3. runs[f[1]] = 0 /\ sent[f] = <<>>
    BY <2>1
  <2> QED BY <2>1, <2>2, <2>3
<1>5. QueuedOnce /\ SentOnce /\ NothingVanishes
  BY <1>4 DEF QueuedOnce, SentOnce, NothingVanishes, Blank
<1>6. FiredOnce
  <2>1. \A i \in Instants : runs[i] = 0
    BY DEF Events
  <2> QED BY <2>1 DEF FiredOnce
<1>7. ASSUME NEW w \in Workers PROVE WorkerInv(w) /\ ~Steps(w)
  <2>1. ~Steps(w)
    BY <1>1 DEF Steps
  <2>2. /\ loop[w].out = <<>> /\ loop[w].at = "free" /\ loop[w].batch = {} /\ mem[w].hold = {}
        /\ loop[w].phase = "asleep" /\ loop[w].settled = {}
    BY <1>1 DEF Asleep, Forgotten
  <2>3. InHand(w) = {} /\ \A i \in Instants : ~Fires(w, i)
    BY <2>2, NoneSending DEF InHand, Fires
  <2>4. Phased(w) /\ Stored(w)
    BY <1>1, <2>1, <2>2 DEF Phased, Stored, AtRule
  <2>5. Placed(w)
    BY <2>2, <2>3, NoneSending DEF Placed
  <2> QED BY <2>1, <2>3, <2>4, <2>5 DEF WorkerInv
<1> QED BY <1>3, <1>5, <1>6, <1>7 DEF EngineInv, Alone

LEMMA EngineStays == EngineInv /\ UNCHANGED vars => EngineInv'
<1> SUFFICES ASSUME EngineInv, UNCHANGED vars PROVE EngineInv'
  OBVIOUS
<1> USE DEF vars, world, stores, history
<1>1. /\ due' = due /\ old' = old /\ faults' = faults /\ leader' = leader /\ firing' = firing /\ disk' = disk
      /\ closed' = closed /\ up' = up /\ loop' = loop /\ mem' = mem /\ runs' = runs /\ sent' = sent /\ lost' = lost
  OBVIOUS
<1>2. EngineTypeOK'
  BY <1>1 DEF EngineInv, EngineTypeOK
<1>3. QueuedOnce' /\ SentOnce'
  BY <1>1 DEF EngineInv, QueuedOnce, SentOnce, Unsent
<1>4. NothingVanishes'
  BY <1>1 DEF EngineInv, NothingVanishes, InHand, Last
<1>5. FiredOnce'
  BY <1>1 DEF EngineInv, FiredOnce, Spent, Remembers, Steps
<1>6. ASSUME NEW w \in Workers PROVE WorkerInv(w)'
  <2>1. WorkerInv(w)
    BY DEF EngineInv
  <2> QED BY <1>1, <2>1 DEF WorkerInv, Phased, Stored, Placed, Fires, Fresh, Unsent, InHand, Last, Steps
<1> QED BY <1>2, <1>3, <1>4, <1>5, <1>6 DEF EngineInv

LEMMA EngineStep == EngineInv /\ Alone /\ Alone' /\ [Next]_vars => EngineInv'
<1> SUFFICES ASSUME EngineInv, Alone, Alone', [Next]_vars PROVE EngineInv'
  OBVIOUS
<1>1. CASE UNCHANGED vars
  BY <1>1, EngineStays
<1>2. ASSUME NEW w \in Workers, Crash(w) \/ StopClean(w) \/ Exit(w) PROVE EngineInv'
  <2>1. Ended(w) /\ faults' \in 0 .. MaxFaults
    BY <1>2 DEF Crash, StopClean, Exit, Fault, EngineInv, EngineTypeOK
  <2> QED BY <2>1, KeepEnded
<1>3. ASSUME NEW w \in Workers, ThreadStep(w) PROVE EngineInv'
  BY <1>3, KeepStartRule, KeepTakeTurn, KeepAgentMissing, KeepTurnFails, KeepTurnEnds, KeepFingerprint, KeepRouted,
     KeepEndRule, KeepBeginRelease, KeepRelease, KeepNextRule, KeepOut, KeepSweep DEF ThreadStep
<1>4. ASSUME NEW w \in Workers, Start(w) \/ StopLate(w) \/ BeginCycle(w) \/ RuleRaises(w) \/ Timeout(w) PROVE EngineInv'
  BY <1>4, KeepStart, KeepStopLate, KeepBeginCycle, KeepRuleEnds
<1> QED BY <1>1, <1>2, <1>3, <1>4 DEF Next

LEMMA EngineInvariance == Spec /\ []Alone => []EngineInv
BY EngineStart, EngineStep, PTL DEF Spec

\* While one worker works at a time, every variable keeps its type: what a step stores is always
\* something the next step knows how to read.
THEOREM EngineTyped == Spec /\ []Alone => []EngineTypeOK
<1>1. EngineInv => EngineTypeOK
  BY DEF EngineInv
<1> QED BY <1>1, EngineInvariance, PTL

\* While one worker works at a time, no firing is delivered twice and no instant of the schedule
\* fires twice (FR-017, FR-018), over failures, retries, restarts and the daily emptying of the
\* fingerprints.
THEOREM DeliversOnce == Spec /\ []Alone => []DeliveredOnce
<1>1. EngineInv => DeliveredOnce
  BY DEF EngineInv, DeliveredOnce, FiredOnce
<1> QED BY <1>1, EngineInvariance, PTL

\* While one worker works at a time, a fingerprinted firing is in a queue, in a live process or
\* at its end: only the end of a process loses one, and then it is counted lost.
THEOREM KeepsTrack == Spec /\ []Alone => []NothingVanishes
<1>1. EngineInv => NothingVanishes
  BY DEF EngineInv
<1> QED BY <1>1, EngineInvariance, PTL

\* The step is of worker w, and begins no turn.
BeginsNone(w) ==
  /\ \A v \in Workers \ {w} : loop'[v] = loop[v]
  /\ loop'[w].at = "turn" => loop[w].at = "turn"

LEMMA OthersBeginNone ==
  ASSUME EngineInv, NEW w \in Workers,
         \/ Start(w) \/ Crash(w) \/ StopClean(w) \/ StopLate(w) \/ Exit(w)
         \/ BeginCycle(w) \/ RuleRaises(w) \/ Timeout(w) \/ ThreadStep(w)
  PROVE  BeginsNone(w) \/ TakeTurn(w)
<1> USE DEF BeginsNone, LoopTo, IsLoop
<1>1. CASE Start(w)
  BY <1>1, StartDoes
<1>2. CASE Crash(w) \/ StopClean(w) \/ Exit(w)
  BY <1>2, EndedDoes DEF Crash, StopClean, Exit
<1>3. CASE StopLate(w)
  BY <1>3, StopLateDoes
<1>4. CASE BeginCycle(w)
  BY <1>4, BeginCycleDoes
<1>5. CASE RuleRaises(w) \/ Timeout(w)
  BY <1>5, RuleEndsDoes
<1>6. CASE StartRule(w)
  BY <1>6, StartRuleDoes
<1>7. CASE AgentMissing(w)
  BY <1>7, AgentMissingDoes
<1>8. CASE TurnFails(w)
  BY <1>8, TurnFailsDoes
<1>9. CASE TurnEnds(w)
  BY <1>9, TurnEndsDoes
<1>10. CASE Fingerprint(w)
  BY <1>10, FingerprintDoes
<1>11. CASE Defer(w) \/ Hold(w) \/ Join(w)
  BY <1>11, RoutedDoes DEF Defer, Hold, Join
<1>12. CASE EndRule(w)
  BY <1>12, EndRuleDoes
<1>13. CASE BeginRelease(w)
  BY <1>13, BeginReleaseDoes
<1>14. CASE ReleaseDeferred(w)
  BY <1>14, ReleaseDeferredDoes
<1>15. CASE ReleaseHeld(w)
  BY <1>15, ReleaseHeldDoes
<1>16. CASE FlushWindow(w)
  BY <1>16, FlushWindowDoes
<1>17. CASE NextRule(w)
  BY <1>17, NextRuleDoes
<1>18. CASE Recheck(w)
  BY <1>18, RecheckDoes
<1>19. CASE Deliver(w)
  BY <1>19, DeliverDoes
<1>20. CASE NoteDelivered(w) \/ NotDelivered(w)
  BY <1>20, DeliveredDoes
<1>21. CASE Sweep(w)
  BY <1>21, SweepDoes
<1> HIDE DEF BeginsNone, LoopTo, IsLoop
<1> QED BY <1>1, <1>2, <1>3, <1>4, <1>5, <1>6, <1>7, <1>8, <1>9, <1>10, <1>11, <1>12, <1>13, <1>14, <1>15, <1>16,
           <1>17, <1>18, <1>19, <1>20, <1>21 DEF ThreadStep

\* A turn is taken for an event that its source had just named.
LEMMA TurnsBegin ==
  ASSUME EngineInv, [Next]_vars, NEW w \in Workers, loop[w].at # "turn", loop'[w].at = "turn"
  PROVE  loop'[w].event \in loop[w].batch
<1>1. PICK v \in Workers : \/ Start(v) \/ Crash(v) \/ StopClean(v) \/ StopLate(v) \/ Exit(v)
                           \/ BeginCycle(v) \/ RuleRaises(v) \/ Timeout(v) \/ ThreadStep(v)
  BY DEF Next, vars
<1>2. CASE BeginsNone(v)
  BY <1>2 DEF BeginsNone
<1>3. CASE TakeTurn(v)
  <2>1. PICK e \in loop[v].batch : LoopTo(v, loop[v].phase, "turn", loop[v].rule, loop[v].batch \ {e}, e,
                                          loop[v].settled, loop[v].out)
    BY <1>3, TakeTurnDoes
  <2>2. v = w
    BY <2>1 DEF LoopTo
  <2> QED BY <2>1, <2>2 DEF LoopTo, IsLoop
<1> QED BY <1>1, <1>2, <1>3, OthersBeginNone

\* While one worker works at a time, a turn is only taken for an instant later than every one its
\* rule has settled: what an outage skipped does not come back (scheduler.py, catch_up).
THEOREM GoesForward == Spec /\ []Alone => NeverGoesBack
<1> DEFINE Forward(w, i) == loop[w].at # "turn" /\ loop'[w].at = "turn" /\ loop'[w].event = i
                              => \A j \in disk.marked : RuleOf[j] = RuleOf[i] => i > j
<1>1. ASSUME EngineInv, [Next]_vars, NEW w \in Workers, NEW i \in Instants PROVE Forward(w, i)
  <2> SUFFICES ASSUME loop[w].at # "turn", loop'[w].at = "turn", loop'[w].event = i,
                      NEW j \in disk.marked, RuleOf[j] = RuleOf[i]
               PROVE  i > j
    OBVIOUS
  <2>1. Fires(w, i)
    BY <1>1, TurnsBegin DEF Fires
  <2>2. Fresh(i)
    BY <1>1, <2>1 DEF EngineInv, WorkerInv
  <2> QED BY <2>2 DEF Fresh
<1>2. EngineInv /\ [Next]_vars => [\A w \in Workers, i \in Instants : Forward(w, i)]_vars
  BY <1>1
<1> QED BY <1>2, EngineInvariance, PTL DEF Spec, NeverGoesBack

----------------------------------------------------------------------------
(* When one worker works at a time. *)

\* Who leads holds the single-runner lock.
Elected == /\ up \in [Workers -> {"down", "serving", "leading", "leaving"}]
           /\ \A w \in Workers : up[w] = "leading" => leader = w

\* Every shutdown ends the engine's thread before it gives up the lock.
NoLateStop == \A w \in Workers : up[w] # "leaving"

\* At most one worker is at work unless a shutdown gave up on a thread that was still busy: the
\* lock alone keeps two workers from leading at once, and only a late stop breaks Alone.
THEOREM OneLeads == Spec /\ []NoLateStop => []Alone
<1>1. Init => Elected
  BY DEF Init, Elected
<1>2. Elected /\ [Next]_vars => Elected'
  <2> SUFFICES ASSUME Elected, [Next]_vars PROVE Elected'
    OBVIOUS
  <2>1. CASE UNCHANGED <<up, leader>>
    BY <2>1 DEF Elected
  <2>2. ASSUME NEW w \in Workers, Start(w) PROVE Elected'
    BY <2>2 DEF Start, Elected
  <2>3. ASSUME NEW w \in Workers, Ended(w) PROVE Elected'
    BY <2>3 DEF Ended, Elected
  <2>4. ASSUME NEW w \in Workers, StopLate(w) PROVE Elected'
    BY <2>4 DEF StopLate, Elected
  <2>5. ASSUME NEW w \in Workers, BeginCycle(w) \/ RuleRaises(w) \/ Timeout(w) \/ ThreadStep(w)
        PROVE  UNCHANGED <<up, leader>>
    <3>1. CASE BeginCycle(w)
      BY <3>1 DEF BeginCycle, CycleAt, stores
    <3>2. CASE RuleRaises(w) \/ Timeout(w)
      BY <3>2 DEF RuleRaises, Timeout, stores
    <3>3. CASE ThreadStep(w)
      BY <3>3 DEF ThreadStep, StartRule, TakeTurn, AgentMissing, TurnFails, TurnEnds, Fingerprint, Defer, Hold, Join,
                  Routed, EndRule, BeginRelease, ReleaseDeferred, ReleaseHeld, FlushWindow, NextRule, Recheck,
                  Deliver, NoteDelivered, NotDelivered, Sweep, stores
    <3> QED BY <2>5, <3>1, <3>2, <3>3
  <2> QED BY <2>1, <2>2, <2>3, <2>4, <2>5 DEF Next, Crash, StopClean, Exit, vars, stores
<1>3. Elected /\ NoLateStop => Alone
  BY DEF Elected, NoLateStop, Alone, Steps
<1> QED BY <1>1, <1>2, <1>3, PTL DEF Spec
=============================================================================
