---------------------------- MODULE SandboxPool ----------------------------
(* The containers that run a chat's commands, as the AIO sandbox provider keeps
   them: per gateway worker an active set and a warm pool in memory, a thread
   lock per chat, an idle checker, a shutdown; between the workers nothing but
   a file lock per chat and the containers themselves, found by a name that
   follows from the chat.

   A box stands for a chat, its container name and its sandbox id.  A record
   [box, info] is what a worker remembers of a container: `info` is the id
   `docker run` returned, or ByName when it found the container by name. *)
EXTENDS Integers, FiniteSets, SequencesExt

CONSTANTS
    Boxes,        \* chats
    Keepers,      \* gateway workers
    Turns,        \* tool calls and runs that acquire, use and release
    Replicas,     \* sandbox.replicas
    MaxCalls,     \* bound: turns that come for a sandbox
    MaxMade,      \* bound: containers ever started
    MaxFaults     \* bound: containers that die, stops that fail, workers that go

ASSUME PoolConstants ==
    IsFiniteSet(Boxes) /\ MaxCalls \in Nat /\ MaxMade \in Nat /\ MaxFaults \in Nat

VARIABLES
    active,       \* [Keepers -> SUBSET records]: _sandboxes, _sandbox_infos
    warm,         \* [Keepers -> Seq(records)]: _warm_pool, oldest first
    running,      \* [Boxes -> 0..MaxMade]: the container of that name, 0 for none
    made,         \* containers started so far
    calls,        \* turns that came so far
    turn,         \* [Turns -> [at, keeper, box, hand]]
    sweep,        \* [Keepers -> [act, sure, hand, warm]]: idle check or shutdown
    up,           \* [Keepers -> BOOLEAN]
    faults,       \* faults so far
    left          \* containers whose stop failed or whose worker went

boxVars == <<active, warm, running, made, calls, turn, sweep, up, faults, left>>
memory  == <<active, warm>>

ByName   == 0
Records  == [box : Boxes, info : 0..MaxMade]
AtRest   == [act |-> {}, sure |-> {}, hand |-> {}, warm |-> {}]
Outside  == [at |-> "out", hand |-> {}]

InFileLock == {"discover", "adopt", "evict", "create", "ready"}
Acquiring  == {"warm", "lock"} \cup InFileLock

PoolTypeOK ==
    /\ active \in [Keepers -> SUBSET Records]
    /\ warm \in [Keepers -> Seq(Records)]
    /\ running \in [Boxes -> 0..MaxMade] /\ made \in 0..MaxMade
    /\ calls \in 0..MaxCalls
    /\ turn \in [Turns -> {Outside} \cup [at : Acquiring \cup {"use"}, keeper : Keepers,
                                          box : Boxes, hand : SUBSET Records]]
    /\ sweep \in [Keepers -> [act : SUBSET Boxes, sure : SUBSET Boxes,
                              hand : SUBSET Records, warm : SUBSET Records]]
    /\ up \in [Keepers -> BOOLEAN] /\ faults \in 0..MaxFaults
    /\ left \subseteq 1..MaxMade

PoolInit ==
    /\ active = [k \in Keepers |-> {}] /\ warm = [k \in Keepers |-> <<>>]
    /\ running = [b \in Boxes |-> 0] /\ made = 0 /\ calls = 0
    /\ turn = [u \in Turns |-> Outside]
    /\ sweep = [k \in Keepers |-> AtRest]
    /\ up = [k \in Keepers |-> TRUE] /\ faults = 0 /\ left = {}
-----------------------------------------------------------------------------
OfBox(b, records) == {r \in records : r.box = b}
Active(k, b)      == OfBox(b, active[k]) # {}
Warm(k, b)        == OfBox(b, ToSet(warm[k])) # {}
Place(k, b)       == CHOOSE i \in DOMAIN warm[k] : warm[k][i].box = b
Gone(k, b)        == IF Warm(k, b) THEN RemoveAt(warm[k], Place(k, b)) ELSE warm[k]

(* `docker stop`: an id names one container, a name whichever has it now.  It
   may fail, which is logged and forgotten. *)
Hits(r) == running[r.box] # 0 /\ r.info \in {ByName, running[r.box]}

Fault == faults < MaxFaults /\ faults' = faults + 1

Stop(r) ==
    \/ ~Hits(r) /\ UNCHANGED <<running, left, faults>>
    \/ Hits(r) /\ running' = [running EXCEPT ![r.box] = 0] /\ UNCHANGED <<left, faults>>
    \/ Hits(r) /\ Fault /\ left' = left \cup {running[r.box]} /\ UNCHANGED running

Go(u, place) == turn' = [turn EXCEPT ![u].at = place]
Leave(u)     == turn' = [turn EXCEPT ![u] = Outside]
Hold(u, place, r) == turn' = [turn EXCEPT ![u].at = place, ![u].hand = {r}]

(* The sandbox of b is used now: an idle check that noted it passes it over. *)
Touch(k, b) ==
    sweep' = IF up[k] THEN [sweep EXCEPT ![k].act = @ \ {b}] ELSE sweep

(* The worker keeps the container as active, just used. *)
Keep(k, r) ==
    /\ active' = [active EXCEPT ![k] = (@ \ OfBox(r.box, @)) \cup {r}]
    /\ Touch(k, r.box)
    /\ left' = IF Hits(r) THEN left \ {running[r.box]} ELSE left

Claim(k, b) ==
    /\ Warm(k, b)
    /\ \E r \in OfBox(b, ToSet(warm[k])) : Keep(k, r)
    /\ warm' = [warm EXCEPT ![k] = Gone(k, b)]
-----------------------------------------------------------------------------
(* acquire: the lock of the chat in this worker. *)
ThreadLockFree(k, b) ==
    \A o \in Turns : ~(turn[o].at \in Acquiring /\ turn[o].keeper = k /\ turn[o].box = b)

(* Layer 1: what this worker has active, if the container still runs. *)
FastPath(u, k, b) ==
    LET To(place) == turn' = [turn EXCEPT ![u] =
                        [at |-> place, keeper |-> k, box |-> b, hand |-> {}]]
    IN  /\ ThreadLockFree(k, b)
        /\ \/ Active(k, b) /\ running[b] # 0 /\ To("use") /\ Touch(k, b) /\ UNCHANGED active
           \/ /\ Active(k, b) /\ running[b] = 0 /\ To("warm") /\ Touch(k, b)
              /\ active' = [active EXCEPT ![k] = @ \ OfBox(b, @)]
           \/ ~Active(k, b) /\ To("warm") /\ UNCHANGED <<active, sweep>>
        /\ UNCHANGED <<warm, running, made, up, faults, left>>

AcquireBox(u, k, b) ==
    /\ turn[u].at = "out" /\ up[k] /\ calls < MaxCalls
    /\ calls' = calls + 1
    /\ FastPath(u, k, b)

(* Layer 1.5: the warm pool. *)
WarmPath(u, k, b) ==
    /\ turn[u].at = "warm"
    /\ \/ Claim(k, b) /\ Go(u, "use")
       \/ ~Warm(k, b) /\ Go(u, "lock") /\ UNCHANGED <<memory, sweep, left>>
    /\ UNCHANGED <<running, made, calls, up, faults>>

FileLockFree(u, b) ==
    \A o \in Turns : ~(turn[o].at \in InFileLock /\ turn[o].box = b)

(* Layer 2: the file lock of the chat, and both looks again. *)
Recheck(u, k, b) ==
    /\ turn[u].at = "lock" /\ FileLockFree(u, b)
    /\ \/ Active(k, b) /\ Go(u, "use") /\ Touch(k, b) /\ UNCHANGED <<memory, left>>
       \/ ~Active(k, b) /\ Claim(k, b) /\ Go(u, "use")
       \/ ~Active(k, b) /\ ~Warm(k, b) /\ Go(u, "discover")
          /\ UNCHANGED <<memory, sweep, left>>
    /\ UNCHANGED <<running, made, calls, up, faults>>

Discover(u, b) ==
    /\ turn[u].at = "discover" /\ running[b] # 0
    /\ Hold(u, "adopt", [box |-> b, info |-> ByName])
    /\ UNCHANGED <<memory, running, made, calls, sweep, up, faults, left>>

Adopt(u, k) ==
    /\ turn[u].at = "adopt"
    /\ \E r \in turn[u].hand : Keep(k, r)
    /\ turn' = [turn EXCEPT ![u].at = "use", ![u].hand = {}]
    /\ UNCHANGED <<warm, running, made, calls, up, faults>>

(* Nothing of that name, or it does not answer in time.  _create_sandbox: over
   the replicas, the oldest warm container goes. *)
MakeRoom(u, k) ==
    /\ turn[u].at = "discover"
    /\ IF Cardinality(active[k]) + Len(warm[k]) >= Replicas /\ warm[k] # <<>>
       THEN /\ Hold(u, "evict", Head(warm[k]))
            /\ warm' = [warm EXCEPT ![k] = Tail(@)]
       ELSE Go(u, "create") /\ UNCHANGED warm
    /\ UNCHANGED <<active, running, made, calls, sweep, up, faults, left>>

EvictOldest(u) ==
    /\ turn[u].at = "evict"
    /\ \E r \in turn[u].hand : Stop(r)
    /\ turn' = [turn EXCEPT ![u].at = "create", ![u].hand = {}]
    /\ UNCHANGED <<memory, made, calls, sweep, up>>

(* The name may be taken after all: then the container that has it is looked
   for once more. *)
CreateBox(u, b) ==
    /\ turn[u].at = "create"
    /\ \/ /\ running[b] = 0 /\ made < MaxMade
          /\ made' = made + 1
          /\ running' = [running EXCEPT ![b] = made']
          /\ Hold(u, "ready", [box |-> b, info |-> made'])
       \/ /\ running[b] # 0
          /\ Hold(u, "ready", [box |-> b, info |-> ByName])
          /\ UNCHANGED <<running, made>>
       \/ Leave(u) /\ UNCHANGED <<running, made>>
    /\ UNCHANGED <<memory, calls, sweep, up, faults, left>>

(* Not ready within a minute: stopped, and the call fails. *)
WaitReady(u, k, b) ==
    /\ turn[u].at = "ready"
    /\ \E r \in turn[u].hand :
          \/ /\ running[b] # 0 /\ Keep(k, r)
             /\ turn' = [turn EXCEPT ![u].at = "use", ![u].hand = {}]
             /\ UNCHANGED <<warm, running, faults>>
          \/ Stop(r) /\ Leave(u) /\ UNCHANGED <<memory, sweep>>
    /\ UNCHANGED <<made, calls, up>>

(* A tool call: the sandbox the run remembers, or it acquires again. *)
UseBox(u, k, b) ==
    /\ turn[u].at = "use"
    /\ \/ /\ Active(k, b) /\ Touch(k, b)
          /\ UNCHANGED <<memory, running, made, calls, turn, up, faults, left>>
       \/ ~Active(k, b) /\ FastPath(u, k, b) /\ UNCHANGED calls

(* Mutant: the container is not parked. *)
Forgotten(k, b) == warm[k]

(* The container keeps running, in the warm pool. *)
Parked(k, b) ==
    IF Warm(k, b) THEN warm[k] ELSE warm[k] \o SetToSeq(OfBox(b, active[k]))

ReleaseBox(u, k, b) ==
    /\ turn[u].at = "use"
    /\ warm' = [warm EXCEPT ![k] = Parked(k, b)]
    /\ active' = [active EXCEPT ![k] = @ \ OfBox(b, @)]
    /\ Touch(k, b) /\ Leave(u)
    /\ UNCHANGED <<running, made, calls, up, faults, left>>
-----------------------------------------------------------------------------
(* _cleanup_idle_sandboxes: under the lock, the idle ones are noted and the
   oldest of the warm pool taken out. *)
BeginSweep(k) ==
    /\ up[k] /\ sweep[k] = AtRest
    /\ \E noted \in SUBSET {r.box : r \in active[k]}, n \in 0..Len(warm[k]) :
          /\ sweep' = [sweep EXCEPT ![k].act = noted,
                                    ![k].warm = ToSet(SubSeq(warm[k], 1, n))]
          /\ warm' = [warm EXCEPT ![k] = SubSeq(@, n + 1, Len(@))]
    /\ UNCHANGED <<active, running, made, calls, turn, up, faults, left>>

(* Still idle: the lock is given back before destroy takes it again. *)
CheckIdle(k, b) ==
    /\ b \in sweep[k].act /\ sweep[k].sure = {} /\ sweep[k].hand = {}
    /\ sweep' = [sweep EXCEPT ![k].act = @ \ {b}, ![k].sure = {b}]
    /\ UNCHANGED <<memory, running, made, calls, turn, up, faults, left>>

(* destroy: active or else warm, and out of both. *)
TakenOut(k, b) ==
    IF Active(k, b) THEN OfBox(b, active[k]) ELSE OfBox(b, ToSet(warm[k]))

DestroyTakes(k, b) ==
    /\ b \in sweep[k].sure
    /\ sweep' = [sweep EXCEPT ![k].sure = {}, ![k].hand = TakenOut(k, b)]
    /\ active' = [active EXCEPT ![k] = @ \ OfBox(b, @)]
    /\ warm' = [warm EXCEPT ![k] = Gone(k, b)]
    /\ UNCHANGED <<running, made, calls, turn, up, faults, left>>

DestroyStops(k, r) ==
    /\ \/ /\ r \in sweep[k].hand
          /\ sweep' = [sweep EXCEPT ![k].hand = {}]
       \/ /\ r \in sweep[k].warm
          /\ sweep[k].act = {} /\ sweep[k].sure = {} /\ sweep[k].hand = {}
          /\ sweep' = [sweep EXCEPT ![k].warm = @ \ {r}]
    /\ Stop(r)
    /\ UNCHANGED <<memory, made, calls, turn, up>>
-----------------------------------------------------------------------------
BoxDies(b) ==
    /\ running[b] # 0 /\ Fault
    /\ running' = [running EXCEPT ![b] = 0]
    /\ UNCHANGED <<memory, made, calls, turn, sweep, up, left>>

(* What anybody alive remembers of the container of b, to use it or to stop it. *)
Known(b) ==
    OfBox(b, UNION ({turn[u].hand : u \in Turns}
                    \cup {active[k] \cup ToSet(warm[k]) : k \in Keepers}
                    \cup {sweep[k].hand \cup sweep[k].warm : k \in Keepers}))

Tended(b) == \E r \in Known(b) : Hits(r)

(* The process ends, with all it remembers. *)
Vanish(k) ==
    /\ UNCHANGED <<running, made, calls>>
    /\ active' = [active EXCEPT ![k] = {}]
    /\ warm' = [warm EXCEPT ![k] = <<>>]
    /\ turn' = [u \in Turns |->
          IF turn[u].at # "out" /\ turn[u].keeper = k THEN Outside ELSE turn[u]]
    /\ sweep' = [sweep EXCEPT ![k] = AtRest]
    /\ up' = [up EXCEPT ![k] = FALSE]
    /\ left' = left \cup {running[b] : b \in {c \in Boxes : running[c] # 0 /\ ~Tended(c)'}}

KeeperDies(k) == up[k] /\ Fault /\ Vanish(k)

(* shutdown: the idle checker stops, what is active is destroyed one by one,
   then what was warm.  Turns that run go on until the process ends. *)
BeginShutdown(k) ==
    /\ up[k] /\ Fault /\ sweep[k] = AtRest
    /\ up' = [up EXCEPT ![k] = FALSE]
    /\ sweep' = [sweep EXCEPT ![k].act = {r.box : r \in active[k]}, ![k].warm = ToSet(warm[k])]
    /\ warm' = [warm EXCEPT ![k] = <<>>]
    /\ UNCHANGED <<active, running, made, calls, turn, left>>

EndShutdown(k) ==
    /\ ~up[k] /\ sweep[k] = AtRest
    /\ UNCHANGED faults /\ Vanish(k)

(* list_running: every container with our prefix, by name. *)
FoundRunning == {[box |-> b, info |-> ByName] : b \in {c \in Boxes : running[c] # 0}}

(* A new worker adopts every container that runs, whoever started it. *)
KeeperStarts(k) ==
    /\ ~up[k] /\ sweep[k] = AtRest /\ active[k] = {} /\ warm[k] = <<>>
    /\ \A u \in Turns : turn[u].at # "out" => turn[u].keeper # k
    /\ up' = [up EXCEPT ![k] = TRUE]
    /\ \E found \in SetToSeqs(FoundRunning) : warm' = [warm EXCEPT ![k] = found]
    /\ left' = {}
    /\ UNCHANGED <<active, running, made, calls, turn, sweep, faults>>

AcquireStep(u) ==
    \E k \in Keepers, b \in Boxes :
        /\ turn[u].at # "out" /\ turn[u].keeper = k /\ turn[u].box = b
        /\ \/ WarmPath(u, k, b) \/ Recheck(u, k, b) \/ Discover(u, b) \/ Adopt(u, k)
           \/ MakeRoom(u, k) \/ EvictOldest(u) \/ CreateBox(u, b) \/ WaitReady(u, k, b)
           \/ UseBox(u, k, b) \/ ReleaseBox(u, k, b)

PoolNext ==
    \/ \E u \in Turns, k \in Keepers, b \in Boxes : AcquireBox(u, k, b)
    \/ \E u \in Turns : AcquireStep(u)
    \/ \E k \in Keepers : BeginSweep(k)
    \/ \E k \in Keepers, b \in Boxes : CheckIdle(k, b) \/ DestroyTakes(k, b)
    \/ \E k \in Keepers, r \in Records : DestroyStops(k, r)
    \/ \E b \in Boxes : BoxDies(b)
    \/ \E k \in Keepers :
          KeeperDies(k) \/ BeginShutdown(k) \/ EndShutdown(k) \/ KeeperStarts(k)

PoolSpec == PoolInit /\ [][PoolNext]_boxVars
-----------------------------------------------------------------------------
(* No container is forgotten: one that runs is active or warm in a worker that
   lives, or in the hands of somebody about to use or to stop it; else `docker
   stop` failed on it or its worker is gone, and the next worker to start finds
   it (aio_sandbox_provider.py: release, destroy, _discover_or_create_with_lock,
   _create_sandbox, _reconcile_orphans). *)
NoneForgotten ==
    \A b \in Boxes : running[b] # 0 => Tended(b) \/ running[b] \in left

(* The inductive invariant behind it.  A record that is dropped without a `docker
   stop` would be a container forgotten; each container has one place in a worker,
   so what is moved, replaced or taken out is one record and never two. *)

OneEach(s) == \A i, j \in DOMAIN s : s[i].box = s[j].box => i = j

(* A worker has a container once: active or warm. *)
OnePlace(k) ==
    /\ \A r, s \in active[k] : r.box = s.box => r = s
    /\ OneEach(warm[k])
    /\ \A b \in Boxes : ~(Active(k, b) /\ Warm(k, b))

(* Numbers are given once. *)
Numbered ==
    /\ \A b \in Boxes : running[b] <= made
    /\ \A b, c \in Boxes : running[b] = running[c] /\ running[b] # 0 => b = c

(* Who acquires a chat's sandbox is alone at it in its worker, where it is neither
   active nor, from the file lock on, warm; and holds one record, of that chat but
   when it makes room. *)
TurnInv(u) ==
    /\ turn[u].at \notin {"adopt", "evict", "ready"} => turn[u].hand = {}
    /\ \A r, s \in turn[u].hand : r = s
    /\ turn[u].at \in {"adopt", "ready"} => \A r \in turn[u].hand : r.box = turn[u].box
    /\ turn[u].at \in Acquiring => ~Active(turn[u].keeper, turn[u].box)
    /\ turn[u].at \in InFileLock => ~Warm(turn[u].keeper, turn[u].box)

OneAcquires ==
    \A u, v \in Turns :
        /\ turn[u].at \in Acquiring /\ turn[v].at \in Acquiring
        /\ turn[u].keeper = turn[v].keeper /\ turn[u].box = turn[v].box
        => u = v

(* destroy has one container in hand, and none while the next is looked at. *)
SweepInv(k) ==
    /\ sweep[k].sure = {} \/ sweep[k].hand = {}
    /\ \A r, s \in sweep[k].hand : r = s

PoolInv ==
    /\ PoolTypeOK /\ Numbered /\ OneAcquires
    /\ \A k \in Keepers : OnePlace(k) /\ SweepInv(k)
    /\ \A u \in Turns : TurnInv(u)
    /\ NoneForgotten

=============================================================================
