# omniHarness in TLA+

Specifications of the parts of omniHarness where concurrency, restarts and
half-done work decide whether it is correct, checked with TLC on small
instances and, where it matters most, proved with TLAPS for every instance.

`PROJECT.json` is the index: components, runs, the lines of the source every
definition stands for, hazards, findings and theorems.

## The system

omniHarness is a self-hosted workspace for AI agents. A FastAPI gateway, run as
several worker processes (`uvicorn --workers 4`), serves the chat interface,
runs agents in the background, and starts runs by itself from schedules and
events. What the workers share is on disk: JSON files, SQLite (or Postgres),
and the checkpoints of LangGraph. There is no coordinator: exclusion between
workers is a hard link, an `flock`, or one SQL transaction; inside a worker it
is an asyncio or thread lock.

| component | state it keeps | operations | what is hard | what makes it correct |
|---|---|---|---|---|
| pending actions (`policy/pending.py`, `confirm_flow.py`, `supersede.py`, `routers/confirmations.py`) | a JSON record, a claim link, a Continue link and a lock file per action | propose, confirm, decline, edit, apply all, expire, supersede, release, post state | several workers and routes on one card; records rewritten whole from old copies; crashes | a call runs at most once; what was refused or expired never runs; nothing claimed stays open |
| policy middleware (`policy/middleware.py`, `classify.py`, ...) | locks per chat, the rules | classify, hold, propose, execute confirmed | duplicate cards across workers | every Tier 3 call is stated first |
| standing grants (`policy/grants.py`) | a SQLite row per scheduled firing | reserve, release, prune | parallel calls, retries, cancellation | the cap is never passed, a count never too low |
| posting results (`routers/confirmations.py`, `gateway/resume.py`) | the post state and Continue link in the record, retry tasks | post now, queue, retry, drain at startup; resume the lead | a run in this or another worker overwriting the chat; crash between write and mark | a result is in the chat exactly once, or says why not |
| run manager and worker (`runtime/runs`) | runs of this process, deferred writes per chat, run rows | create or reject, cancel, set status, defer, drain | tasks that outlive their status; other workers' runs | one run per chat; deferred writes are written |
| stream bridge | a bounded event log per run | publish, subscribe, end | slow and reconnecting readers | order, no silent gap, end is seen |
| trigger engine (`trigger_engine/`) | fingerprints, fired instants, rule threads, deferral / hold / coalescing queues, health per rule, the election lock | poll, fire, retry, route, release, sweep, elect | overrun rules, restarts, leader change, quiet hours | an event is delivered at most once, and no message vanishes without a record |
| run history (`run_history/`) | encrypted rows, keys, a ledger of automation threads | record, erase, purge, migrate owner | several stores, crash between them | erased content is unreadable |
| project ledger (`ledger/`) | SQL rows and undo records | apply batch, undo | all or nothing | one transaction per batch |
| subagent executor | background tasks by id | start, time out, cancel, clean up | late results | a terminal status is final |
| memory queue | queued conversations, a timer | add, process, flush | adds while processing | nothing queued is forgotten |
| sandbox provider, previews, MCP servers | pools and records of containers | acquire, release, reap, restart, deploy | cross-process ownership | no container serves two chats, none leaks |
| channels, session watcher, workflows, config versions | maps and files | - | mostly I/O | - |

Components call each other as follows. An agent run (worker, run manager) calls
tools through the policy middleware, which runs them, holds them under a grant,
or proposes a pending action. A person answers the card through a route of any
worker, which claims and runs the call and posts its result into the chat
through the run manager, or resumes the lead by starting a run. The trigger
engine of the one elected worker starts runs through the same gateway, and its
scheduled runs are the ones grants apply to.

## Modules

| module | models | composed with |
|---|---|---|
| `PendingConfirm`, `ConfirmContract` | a card, its claim, and every route that answers it | the contract is refined by the detailed module |
| `ContinueLock` | picking a turn up again after its cards are answered | `MCPartsLive` |
| `ConfirmSlots` | the bounded pool confirmed calls run in, and who is told the end | `MCPartsSafe` |
| `ResultPost` | results posted into a chat beside the runs on it | |
| `LedgerWrites` | the project ledger: stated plans, granted calls and their cap, edits, undo | `MCPartsSafe`, `MCLedgerWrites` |
| `TriggerEngine` | from a due event to a delivered message | |
| `SubagentTasks` | background delegations and the tool that waits for them | `MCPartsLive` |
| `StreamBridge` | a run's event stream and its readers | `MCPartsLive` |
| `MemoryQueue` | the debounced queue of memory updates | `MCPartsLive` |
| `SandboxPool` | containers shared by chats, turns and workers | `MCPartsSafe` |
| `HistoryThreads` | the automations' chats: their ledger, deletion, retention | `MCPartsSafe`, `MCPartsLive` |
| `HistoryKeys` | stored runs: row, blob and key, recorded, purged and deleted | `MCPartsSafe` |

The theorems about a module, with the lemmas they rest on, are apart from it, in
`PendingConfirm_proofs`, `ResultPost_proofs`, `TriggerEngine_proofs`,
`ContinueLock_proofs`, `HistoryThreads_proofs`, `Confirmed_proofs` (of `ConfirmSlots`
and `LedgerWrites`), `PartsSafe_proofs` (of `HistoryKeys`, `SandboxPool` and
`MCPartsSafe`) and `PartsLive_proofs` (of `StreamBridge`, `SubagentTasks`, `MemoryQueue`
and `MCPartsLive`).

`MCPartsSafe` and `MCPartsLive` put small components that share no state in one
run: a variable `part` chooses, in the initial state, the component that moves,
and the others stay as they start. Every behaviour of the run is therefore a
behaviour of one component, the properties of the other components hold in it
trivially, and the state spaces add up instead of multiplying. Liveness of a
part is checked under that part's fairness only. In `MCPartsSafe` the constant
sets of the parts have members in common, which means nothing; it lets one
symmetry set serve several parts. The two granted calls, which the parts it serves do
not tell apart, may be exchanged, and no temporal property with an eventuality is
checked there.

## Plan

Built: the modules above, with types, safety and liveness. Proved are the types and all
the safety properties, some under a condition that their section names, except the four
the code breaks (the findings). Liveness needs fairness and stays with TLC:
`ClaimedIsSettled`, `EveryPostEnds`, `FiringEnds`, `LeadLocksEnd`, `QueueDrains`,
`EndIsSent`, `TalkIsTaken`, `AskedIsGone`, `RetentionHolds`.
What remains, in order:

1. Preview sessions and MCP servers: phases of a container with a reaper beside
   them, close to `SandboxPool`.
2. Channels and the config versions.

## PendingConfirm

One action is a file. `rec[a]` is its outcome and claimant (the other fields
do not change once it is stated, apart from those of posting, which are left
for `ResultPost`), `claim[a]` says that the claim link exists, `due` holds the
actions whose deadline passed, `ran[a]` counts how often its call ran (history,
not in the code). A request is one route handled by one worker: `route`, the
next step `pc`, and its locals: the clock it read (`late`: the actions already
expired at that reading), the files still to read (`todo`), cards to claim
(`work`), claims held (`held`), the current card (`cur`), copies of records
(`snap`) and its answer (`told`).

Each read, link, unlink and write of a file is a step of its own, because that
is where another worker can come between. In particular:

- `expire_due` reads a record (`ScanRead`) and later writes that copy back as
  expired (`ScanWrite`), with no claim;
- `PendingStore.claim` is `Claim` (the link), `ReadClaimed`, `Stamp`;
- `_apply` then saves who confirmed (`SaveConfirmation`), and `execute_confirmed`
  drifts, runs, raises, and records (`Drift`, `RunTool`, `ToolRaises`,
  `RecordExecuted`, `AuditRaises`, `RecordFailed`, `Answer`);
- `release_claim` is `Unlink`, then `Reopen`, in the order of the code.

Routes: `list` (any listing, which expires as it reads), `confirm` (button or
typed reply; an outbound "apply all" is several of these), `decline`, `gone`
(confirm on a deleted chat, which answers that nothing has run whether or not it got
the claim; an outbound "apply all" there is several of these), `supersede` (rules reloaded), `remove` (agent taken
out of the chat), `edit` (a new action, the original superseded, then confirm on
the new one in the same request), `applyAll`. Two records of the same
implementation share steps where the code shares a function (`take_claim`,
`resolve`).

Left out: I/O errors of the store itself (a full disk while a claim is being
taken, so also the release in `apply_all`'s first `except`), a second scan by
`open_actions` with the same clock, who may press which button (authorisation),
the typed-reply recogniser, and the wording of answers. The tool itself is
external: it runs, or raises before or after its effect.

`ConfirmContract` states what a confirmation promises with no files or workers:
an action is stated, performed at most once, and closed once with an outcome that
agrees with what happened. `ImplementsContract` is the refinement, with
`outcome[a] = rec[a].outcome`.

### Runs

| run | instance | shows |
|---|---|---|
| `pending_group` | 2 cards, 2 requests, all 8 routes, expiry, crash, audit failure | `AtMostOnce`, `RefusalIsKept`, `GivenBackUnrun`, types |
| `pending_settled` | 1 card, 3 requests, fairness, expiry, audit failure | `ClaimedIsSettled` |
| `pending_contract` | 2 cards, 2 requests, all routes but `applyAll`, crash, no expiry | `ImplementsContract`, `DoneIsDone` |
| `pending_expired_ran` | 1 card, a listing and a confirmation | violated: an action recorded expired ran |

Bounds. A request handles one route and stops, so the number of requests bounds
the behaviours, and the state with every request answered has no successor
(`CHECK_DEADLOCK FALSE`). Two cards are the least for a group (partly claimed
elsewhere, one failing) and for an edit (original and new action); two requests
are the least for a race, and all of the races of the code are between two
routes, or two and a sweep, which is why `pending_settled` has three. The safety
properties of the first run are proved for any numbers.

Fairness (`pending_settled` only): weak fairness of each request's next step.
Every step is a file operation of a running handler, and the call itself ends:
delegations have a timeout. Nothing is assumed of requests that have not
started, of time, or of crashes, and the run has no crash: a claim whose holder
dies stays until the deadline resolves it, which the code accepts.

### Findings

- **Expiry overwrites.** `expire_due` resolves a stale copy. A confirmation
  claimed since then runs, and the person is told "I did NOT do it". The same
  overwrite makes a drifted action answer "Done.", because `_apply` re-reads the
  record to choose its answer; and an action that a sweep expired after the route
  looked is still claimed and run, because `claim` does not look at the outcome.

Also seen in the model, and not among the runs:

- giving a claim back in the wrong order: `release_claim` unlinks, then writes its
  old copy (`pending.py:336`). With a confirmation and an apply-all on one card,
  `ClaimedIsSettled` fails: the confirmation claims in between, runs its call, and the
  late write leaves an open record whose claim file stays. This is why
  `pending_settled` has no `applyAll`;
- a late audit failure: the audit append is inside the handler that turns any
  exception into FAILED (`middleware.py:1186`, `confirm_flow.py:252`), so an
  executed action is recorded "the action DID NOT happen" (`AuditRaises`,
  `RecordFailed`). This is why `pending_contract` has no audit failures;
- a confirmation on a deleted chat answers "so it was not run. Nothing has run." also
  when it lost the claim (`confirmations.py:818-821`, 1249-1253), although the call of
  the worker that has it may be running or done (`ClaimLost`, `chat_deleted`).
  `RefusalIsKept` is therefore about refusals that are recorded, and about answers
  that were decided under a claim, which this one is not;
- a decline that loses the claim to another *decline* or to a sweep answers
  "already confirmed and is running now".

### Proofs

`PendingConfirm_proofs` proves, for all sets of actions, requests, routes and
events:

- `TypeCorrect`: `Spec => []TypeOK`;
- `Safety`: `Spec => [](AtMostOnce /\ ClaimExclusive /\ RefusalIsKept)`, with
  `RefusalsKept` its last part;
- `GivenBack`: `Spec => GivenBackUnrun`;
- `Refinement` and `DoneRan`: `Spec => ImplementsContract` and `Spec => []DoneIsDone`
  where nothing expires, audit appends succeed and no group is applied (`Plain`).

`AtMostOnce` is not inductive: it holds because a claim, once its call ran, is
never given back. The inductive invariant `IInv` adds `HandsInv` (the step a
request is at tells what it holds), `RanInv` (an action that ran keeps its claim
file, and only requests past the run hold it) and `RefusedInv` (an action recorded
as refused, or answered so under a claim, is sealed: not run, claimed, and held by nobody who could
run it or give it back; no copy in memory carries a refusal, so no stale write can
plant one). Each action has its step; `LeaveIInv`, `RunKeeps`, `RefusedKeeps`
and `ReadKeeps` carry what the actions share. `GivenBackUnrun` follows from `IInv`:
who unlinks has not run.

The refinement needs more, `CInv`: a request holds one claim at most (`OneCardInv`),
the record it works on, and its copy, are open until it records what became of it
(`OpenInv`), and what it will answer agrees with the record (`EndInv`). Each write of
a file is then a step of the contract, or changes no outcome (`Silent`). The three
conditions of `Plain` are those under which the code keeps the contract: with expiry,
with a failing audit line or with an apply-all beside a confirmation it does not
(Findings). The only other assumption is `ConstantsAssumption`, that route and event
names are the known ones and `None` is neither a request nor an action.

Only model-checked: `ClaimedIsSettled`, which needs fairness.

## ResultPost

How the result of a call confirmed from its card gets into the chat. One chat,
several workers. LangGraph keeps a chat as a checkpoint, and everything that
changes it writes it whole from a copy in memory: a run, from what it loaded when
it began; a post, from what it has just read; a rollback, from a snapshot taken
when the run began. `chat.msgs[m]` counts result `m` in the latest checkpoint, and
`mem`, `pre` and `base` are those copies. What is in the chat besides results is
left out.

- `phase[w][m]` is what worker `w` does about result `m`: the call of
  `post_result`, waiting for the lock of its `RunManager`, deferred behind a run
  (`queued`), taken from the queue by a drain, writing, or waiting for a retry.
  `step[w]` is the write that holds the lock: the look at the run store, the read,
  the write and the read-back of `_append_to_checkpoint`, each a step because each is
  an await on a database other workers use, then its outcome.
- The lock is not a variable: it is held while a write is under way or a drain has
  more to write (`LockFree`). Everything the code does with no await inside its
  `async with` is one step.
- `life[r]` is a run from `create_or_reject` to the drain of its task's callback;
  `status[r]` is what its worker knows of it, `row[r]` what the run store says, and
  they differ: a cancelled run is interrupted by status while its task unwinds, its
  row stays active until the task records it, and nobody updates the row of a task
  that never began, or of a worker that died, for an hour (`GoStale`).
- `Stopped` is `task.cancel()`: a task that has not begun never begins; one that
  has sees the cancellation at its next await, and may checkpoint before it does.
- `rec` and `tries` are the post state and attempts in the action's record.

`wiped` is history: how the chat was removed, by its deletion or by a rollback
that found no snapshot. A deleted chat ends the obligation to hold a result.

Left out: exceptions of the record's own writes, several chats, the order of
queued writes, the removal of finished run records, and two looks of
`drain_waiting_posts` (a result whose owner does not own the chat stays waiting; a
missing thread row drops it without a post). A run store that never answers is
outside `EveryPostEnds`: the code then waits for ever on purpose. The read of the
attempts and their write are one step.

### Runs

| run | instance | shows |
|---|---|---|
| `post_stays` | 1 worker, 2 results, 2 runs, all strategies, 1 retry, failing checkpoints, unreadable run store | `PostedStays`, `QueueIsWatched`, types |
| `post_ends` | 2 workers, 1 result, 1 run, 2 retries, 1 crash, deletion, fairness | `EveryPostEnds`, `PostedOnce` |
| `post_rollback` | 1 worker, 1 result, 1 run | violated: a rollback deletes the chat it should restore |

Bounds. Two results are the least for a queue with an order and for a lost update
between two posts; two runs the least for one that is admitted while another
unwinds, and for a drain that has to leave the queue to the other run. One retry is
enough to reach both the retry and its cap; `post_ends` has two. A worker that dies
needs a second one to matter to the rows, and one crash is enough to leave a result
half posted. `QueueIsWatched` is proved for any numbers, `PostedStays` for any
numbers of results and runs of one worker. The runs stop when everything is posted
and over (`CHECK_DEADLOCK FALSE`).

Fairness (`post_ends` only). Strong fairness of a post's and a run's next step,
because they wait for an `asyncio.Lock`, which is first come first served: who
waits gets it although it is taken again and again in between. A run ends, because
agents have a recursion limit and model calls time out. A row goes stale and a
worker that died is started again, weakly: an hour passes, and the container's
supervisor restarts it. Nothing makes a call be confirmed, a run be created or
cancelled, or a worker die.

### Findings

- **Rollback before the snapshot.** A cancellation in the first awaits of a run
  leaves `pre_run_snapshot` at `None` without marking the capture as failed, which
  `_rollback_to_pre_run_checkpoint` reads as "the chat was empty".

Also seen in the model, and not among the runs:

- another worker's run overwrites a post: with two workers, one result and one run
  `PostedStays` fails. The lock under which "no run can
  start" is that of one process. Between the look at the rows and the write, another
  worker can start a run and load the chat. The same holds for two workers that post
  two results at once (each writes the chat it read), for a run whose row looks
  an hour old because only status changes update it, for a rollback, which is
  written after the row has ended, and for `_drain`, which does not look at the rows.
- a run interrupted before its task began becomes `running` again (`set_status`
  does not look), and stops only when it sees its abort event;
- deleting a chat stops no run on it, whose next checkpoint brings it back.

### Proofs

`ResultPost_proofs` proves, for all sets of results, runs and workers:

- `TypeCorrect`: `Spec => []TypeOK`;
- `Watched`: `Spec => []QueueIsWatched`. Inductive with `StatusInv` (a pending or
  running run has not ended): a write is queued only behind a run whose task still
  has a drain before it, and the last drain leaves the queue empty or behind
  another such run;
- `Kept`: `Spec => []PostedStays` if there is one worker, which is false
  of two (above). `KeepInv` adds that a run has copies only while it uses
  them (`CopiesInv`), that one write holds the lock (`HolderInv`), that the runs of
  its worker are quiet meanwhile (`LockInv`), so that no copy made before the write
  survives it, and that every copy has what was posted before it was made
  (`KeptInv`). Each part has its lemma, and each lemma one step per action;
- `Once`: `Spec => []PostedOnce`. `OnceInv` adds that no copy of the chat has a
  result twice (a run's, a rollback's, the one a write is based on), and that a write
  about to be done is of a result its copy does not have, because `ReadChat` looked
  for it. With `HolderInv` (one write holds the lock) this is inductive for any number
  of workers: stale copies may lose a result and never double it.

The assumptions are `ConstantsAssumption` (every run has a home worker, strategies
and events are the known ones). Only model-checked: `EveryPostEnds`.

## ContinueLock

An executed action may be continued once. `lock[c]` is the `.continued` file: its
owner is a process in one of its lives (`Self`), as the file holds pid, boot and
start time. A request is a `press`: an answer to one of the turn's outbound cards
(`AnswerCard`, then `resume_after_confirm`) or the button "Continue <agent>"
(`PressContinue`, then `start_run` and the called agent's worker).

- `LookAtGroup`, `TakeOne`, `LinkOne` and `Weigh` run with no await: `InLoop` and
  `LoopFree` give the event loop of that process to one request from the first lock
  to the last. Another *process* comes between any two of them.
- `take_continue` is a read of the record, then a link; `finish_continue` spends or
  unlinks; `release_continue` unlinks by name.
- `Die`, `Boot`, `LookAtLock`, `UnlinkStale`, `Recovered`: a process dies with its
  requests, starts again, and goes over the lock files it finds: the look at an owner
  and the unlink are two steps.

`OneAtATime`: two runs never continue one action at once, over deaths and restarts.
`SpentOnce`: what was continued well is not continued again. Both as long as no two
processes start at the same time (`apart`): `recover_continues` unlinks by name, so
of two that find the same lock stale the second can remove the lock a request has
taken after the first removed the stale one; then two runs continue one action.
`GroupWhole`: while one process has the turn's requests and none died, a resumed run
has every answered call of its turn. `LeadLocksEnd`: the lock of an outbound card is
given back or spent, also when its process died. Bounds: two outbound cards (a
group), one delegated card, two requests, two gateways, one death. Two gateways start
at once only after two deaths, so the run never reaches what `apart` excludes; the
theorems cover any number of deaths.

Fairness: requests, runs and a starting gateway get on, and a gateway that died is
started again (by its supervisor).

Seen, and outside the properties: two processes can split a group between two
resumes, each of which may then lack an executed call and give its part back; a run
that is stopped before its agent is called in again (`StopBeforeAgent`,
`called_agents.py:321`) leaves its lock held until the process ends, so that Continue
cannot be pressed again. Left out: the four hour lease, pids used again, unreadable
owner files.

### Proofs

`ContinueLock_proofs` proves, for all sets of cards, requests and gateways and any
number of deaths:

- `NeverTwice`: `ContSpec => []OneAtATime`, and `NeverAgain`: `ContSpec => []SpentOnce`.
  The invariant `LockInv` is `PressInv` (a request that is under way has a living
  gateway), `LifeInv` (the life a lock names is not later than its gateway's, and a
  removal belongs to a gateway that is starting) and, while `apart`, `HeldInv`: who
  holds a card is named in its lock, alone; a lock about to be removed has lost its
  owner and its card is not continued; a continued card keeps its lock for good. The
  middle part is what a second starting gateway breaks.
- `WholeTurn`: `ContSpec => []GroupWhole`. `LeadInv` says which cards a request can
  have at each step; `GroupInv` that one request at a time is between its look at the
  group and its decision, that what it does not have it still looks for, or is
  reported, or is in the hands of a request that has the whole group.

The assumption is `ContinueAssumption`: a card is outbound or delegated and not both,
and `Nobody` is none of the names. Only model-checked: `LeadLocksEnd`.

## ConfirmSlots

`_ConfirmSlots` counts confirmed calls per user and per process, before anything is
claimed: a person is told "busy" and nothing waits. The model has the slot
(`slots`), the place of the call (`call`), the pool's part (`fn`), the claim, how it
ended, what the client was told and what the chat was told. A card's slot is given
back by the detached task (`TaskEnds`), a typed answer's by the pool thread
(`FlowEnds`), and neither by a client that leaves (`Disconnect`) or a run that is
cancelled (`CancelTyped`).

`NeverQueued`: what is in the pool never exceeds its threads, nor a user's share,
in any order of those ends. `EndIsTold`: who was told "running" is told the end in
the chat. Bounds: three calls of three kinds, three users, two threads, one call per
user.

`Confirmed_proofs` proves both for all calls, users and pool sizes (`NoQueue`,
`ToldInChat`). `SlotInv` ties the count to the calls: the slots taken, in all and for
each user, are as many as the calls that use one (`CountInv`); where a call is tells
what the pool has of it (`CallInv`); and a call whose client was told "running" is
claimed and on its way to its end, or over with the chat told (`ToldInv`). The
cardinalities need `FiniteSetTheorems`; `SlotsAssumption` says that the sizes are
naturals and `NoClient` is no client.

Seen: a typed call that was dropped from the pool's queue with its cancelled
run keeps its slot for ever (`confirmations.py:253`), since only the thread gives it
back; a slot too many held is no violation of `NeverQueued`.

## LedgerWrites

Tasks have a title, a status and a version. A plan names tasks in words: `Named`
resolves them, and stating a plan (`StatePlan`, the dry run of `validate`) pins each
change to a task, or to "one this plan creates". A check that cannot run (no ledger,
an unexpected error) states the plan with no pins, as `_check_ledger_plan` says
(`middleware.py:908`), and its words are resolved when it is confirmed. `Applied`
makes the changes one after the other, all or nothing; every transaction holds the one
write lock of the process, so it is one step. A granted call reserves its actions against the cap in one SQL
write (`Reserve`), writes on its own thread (`GrantWrites`), may be cancelled before
or after (`GrantCancelled`; the thread writes all the same), and ends by being
recorded or by giving back (`GrantEnds`). A person edits with the version the tab
shows. `Undo` takes back one write, or all of a run that are not undone yet
(`Pending`), and `Reverted` goes through them newest first. `Fits` bounds the rows and
versions a transaction may lead to.

`ShownIsChanged`: a confirmed plan whose check ran changes the tasks the card named,
whatever was renamed, added or undone since; of one stated with no pins nothing of the
kind is true, nor promised. `WithinCap`: what was written under the grant never
exceeds the cap. `UndoLosesNothing`: an undo changes only rows that nobody else has
changed after the writes it undoes. Bounds: two titles, four plans (an addition, a
rename, a completion, an addition with a completion), two granted calls, a cap of
three, three tasks; two titles are enough for a word to become ambiguous or to move
to another task.

`Confirmed_proofs` proves the three for any titles, plans of any length, granted calls
and cap (`PlanAsShown`, `CapHolds`, `UndoKeepsEdits`), from the inductive `LedgerInv`:

- `PinsInv`: a stated plan that was checked has a pin for each change, and none of a
  task where it creates one;
- `CapInv`: `used` is at least what calls may still write or have written (`Due`,
  `Taken`). A call that was cancelled keeps its share because its thread may yet
  write, and one that gives its share back has written nothing; without this
  `WithinCap` is not inductive;
- `GrownInv`: no row has a number the counter has not reached, and a row has the version
  a write left only if that write changed it last, and is then as the write left it.
  Versions only grow, so "as the write left it" tells an undo that nobody came after;
- `UsesInv`, `LeftInv`: a write is in the run's summary once, after it returned, and what
  a write was the last to change is as it left it.

Three more theorems say what an undo is worth, about properties that no run states but
that TLC checked on the instance of `ledger_undo_all` before:

- `RecordIsTrue` (`RecordsAsFound`): what a write records of a task for its undo is the
  task as the write found it, over all the changes its plan makes to it;
- `UndoGivesBack` (`UndoRestores`): each task of a write taken back, by "Undo" or by
  "Undo all", has the title and status the write found, and what the write created is
  gone;
- `UndoAllApart` (`UndoAllOfApart`): "Undo all" goes through where each task is as the
  one write of the run that changed it left it. It bounds the finding below: a refusal
  takes a later edit, or two writes of the run to one task.

A plan and an undo are loops inside one transaction. What they leave is proved by
induction on the number of changes or writes (`AppliedGood`, `RevertedGood`), with
`LeastOf` and `Induct`, which say of sets of numbers what the library says of operators.
`RevertedGood` is the heart of the undo: row by row, the outcome is the row that was
there, or one whose last write is among those undone. The assumption
(`LedgerConstants`) is that the bounds and the cap are numbers, plans are sequences of
changes, `NoTask` is neither a row nor a number of one, and no granted call bears a name
by which `lastBy` means somebody else (a card, the user, an undo).

`ledger_undo_all` finds that "Undo all" is refused when two writes of one run
touched the same task, although nobody edited anything: putting back the newer
raises the version (`sql.py:123`) the older one is checked against.

Seen: a cancelled call that committed is not in the run's summary, and cannot be
undone from it. Left out: projects, goals, notes, links, "Apply all", matching of
close titles, rows of other users, SQLite locks between processes.

## TriggerEngine

One worker leads: `Start` tries the lock once. Its loop (`loop[w].phase`) waits with
a bound for a rule at a time; all blocking work is one thread (`loop[w].rule`,
`at`), so a rule that times out for the loop still runs there. A firing is an event
and how often it fired. The stores are files read once and written whole: `mem[w]`
has the copies, `disk` what is written.

From event to message: `CatchUp` (the newest due instant fires, older ones are
settled), `Polled`, `TakeTurn`, `TurnFails` / `TurnEnds` (retries, then given up),
`Fingerprint`, then by politeness `Defer` (quiet hours), `Hold` (mid-exchange, in
memory only) or `Join` (coalescing window); a release takes a whole queue
(`ReleaseDeferred`, `ReleaseHeld`, `FlushWindow`), asks of each whether it still
holds (`Recheck`) and delivers (`Deliver`, `NoteDelivered`, `NotDelivered`). `Sweep`
empties the fingerprints after a day. `Crash`, `StopClean`, `StopLate` and `Exit`
end a worker. `closed` are the firings whose end the audit log has; `lost` is
history: what only a process that ended knew.

`DeliveredOnce`: no firing twice, and an instant fires once, over retries, restarts
and the daily reset. `NothingVanishes`: a fingerprinted firing has its end in the
audit log, or waits on disk or in a live process, or died with one. `NeverGoesBack`:
an instant that was skipped never fires. `FiringEnds`: every firing ends.

`engine_messages` has two small instances (`scene`): two instants, and one instant
with a watched session. One worker runs at a time, dies or stops, and starts again;
one fault; in the second instance only the session comes once there was one.
Fairness: the thread's work ends, since turns, deliveries and lookups have
timeouts; cycles outside quiet hours come again and again, because the loop wakes at
least every minute and for the end of quiet hours; a worker that ended is started.

`engine_destination` finds that the release for the first rule drains the queues of
every rule to its own destination.

Seen, and not among the runs:

- a late stop releases the election lock with the thread still at work
  (`app.py:265`, `StopLate`): a successor may read a queue that was not written yet,
  and deliver it again; and the successor's whole-file write may drop a firing the
  leaving thread queued;
- a rule queued behind a slow one on the single thread times out, and is muted, for
  the other's fault;
- quiet hours are judged by the time the cycle began, and releases of held and
  coalesced firings do not look at them.

`TriggerEngine_proofs` proves, for all rules, instants, workers, attempts and windows
and while one worker works at a time (`Alone`):

- `EngineTyped`: `Spec /\ []Alone => []EngineTypeOK`;
- `DeliversOnce`: `... => []DeliveredOnce`, and `KeepsTrack`: `... => []NothingVanishes`;
- `GoesForward`: `... => NeverGoesBack`;
- `OneLeads`: `Spec /\ []NoLateStop => []Alone`. The lock alone keeps two workers from
  working at once; the only step that breaks `Alone` is a shutdown that gives up on a
  busy thread, the first item of the list above.

`DeliveredOnce` speaks of what was sent and how often an instant fired, and neither part
is inductive. `EngineInv` follows a firing through the queues: what still has to be
delivered is in one place only, and was not sent (`QueuedOnce` for the disk, `Placed`
for a worker's hands); the copies a worker has in memory are what the disk has, so that
a whole-file write takes nothing away (`Stored`). For instants, `FiredOnce` says that one
that fired is marked as its rule's newest, too old to be caught up, or among the
fingerprints, and then it survives the next daily reset (`Spent`, `Remembers`); `Fires`
that one about to fire has not, and is later than what its rule has settled (`Fresh`).
`Phased` ties these to the step the thread is at. `EngineInv` was checked by TLC on the
instance of `engine_messages` before it was proved. The assumption is
`EngineConstants`. Only model-checked: `FiringEnds`, which needs fairness.

Left out: hot reload and disabling of rules, I/O errors of the stores, cron
arithmetic and daylight saving, presence, the run history and footers, configurations
with no window. The audit line of a delivery is one step with the delivery.

## SubagentTasks

A delegation has three parties: the `task` tool (`tool`, `polls`, `told`), a thread
of the scheduler pool (`thread`), and the subagent on the isolated loop (`agent`).
They share a result: `registry`, `status`, and `event`, the cancel event.
Each looks and writes on its own: the thread's timeout writes only over "running";
the subagent's end writes over whatever is there; the tool removes an entry only if
its status has ended, and gives up after its last poll.

`OwnResult`: the tool answers with its own delegation's result also when two run
under one tool-call id. `StopsSoon`: after its cancel event a subagent takes one
step at most, whoever set it and whenever. `QueueDrains`: one pool thread is enough
for everyone, though a subagent hangs: the thread's wait has an end. Fairness is of
pool threads only. Bounds: two delegations, one call id, one thread, one poll, two
steps after a cancellation.

`PartsLive_proofs` proves `AnswersOwn` and `StopsInTime` for any delegations, call ids,
polls and steps. `TaskInv` says that a registry entry is its own delegation's, is there
while its tool asks for it, and is what the tool is told (`EntryInv`), and that a
subagent which took a step after its cancel event is past its stream (`LateInv`). `QueueDrains` needs fairness and stays with TLC.

Seen: after the tool gave up nothing removes the entry; a delegation that is still
queued then starts all the same. A timeout that finds its entry gone ends before it
has set the cancel event (unreachable through this tool, which removes only what has
ended).

## StreamBridge

`published` and `Retained` give the events the buffer still has. A reader holds the
stream it found, so `Cleanup` does not end what it reads; on `Join` it resumes after
its Last-Event-ID if the buffer has it, else from the oldest. `NothingSkipped` says
that what a client was not sent, over all its joins, had left the buffer; `EndIsSent` that every reader of the run's stream leaves or gets the end.
Bounds: four events, a buffer of two, two clients that join twice: enough to fall
behind, to be evicted past, and to come back to an id that is gone. Fairness: the
run ends, and a reader that waits is woken.

`PartsLive_proofs` proves `NoneSkipped` (`StreamSpec => []NothingSkipped`) for any number
of events, clients and joins and any buffer: what it rests on (`ResumeInv`) is that
whatever is before the last id a client comes back with was sent to it or has left
the buffer, and that a reader sees an end only of a stream that has ended, after
which no more events come. `EndIsSent` stays with TLC.

Seen: a client that joins after the cleanup (a minute after the end) makes a new,
empty stream, gets heartbeats and never an end (`memory.py:92`).

## MemoryQueue

`waiting` is the queue, `timer` the timer `_timer` names, `loose` timers that wait
unnamed, `fired` threads before the lock, `batch` what a thread took. A newer
conversation replaces the older one of its chat and keeps its signals (`Merged`).
`TalkIsTaken`: a queued conversation reaches an update, with any correction it or
one it replaced carried. Bounds: two chats, four additions. Fairness: timers go off,
threads get the lock, model calls return.

`PartsLive_proofs` proves the safety half for any chats and number of additions.
`QueueTended`: while a conversation is queued, a timer waits or a thread is on its way to
the lock (`Tended`), although `_timer` may name neither, and a chat has one conversation
in the queue at most (`OnePerTalk`). `TalksKept`: a conversation leaves the queue only
into a batch that is being processed, or for a newer one of its chat, and its correction
goes with it (`LeavesToBatch`). `MemoryInv` adds that a batch is somebody's who is
processing; without it a second thread could overwrite a batch. That the timer then goes
off and the batch is gone through needs fairness: `TalkIsTaken` stays with TLC. The code
filters the queue by chat; the model takes out the one older conversation (`Older`,
`Others`), which by `OnePerTalk` is the same, and TLC agreed that it is.

Seen: while an update runs, a due timer comes back with no delay again and again
(`queue.py:162`), a new thread each time; conversations queued when the process ends
are lost, since nothing calls `flush`; the messages of the replaced conversation are
gone with it, which is intended for a chat that only grows but not for one that was
summarized in between. The updater itself (load, model, save over whatever was
edited meanwhile) is not modelled, nor a batch that is lost because the updater cannot
be made.

## SandboxPool

Each worker remembers containers as active or warm; between workers there are only
the containers, found by a name that follows from the chat, and a file lock per chat.
A turn acquires in layers (`FastPath`, `WarmPath`, `Recheck`, `Discover` / `Adopt`,
`MakeRoom` / `EvictOldest`, `CreateBox`, `WaitReady`), uses and releases. The idle
check and the shutdown are a `sweep`: noted, checked, taken out, stopped, in steps of
their own. `docker stop` by id reaches one container, by name whichever has the name.
A worker may die (`KeeperDies`), and one that starts adopts what runs
(`KeeperStarts`).

`NoneForgotten`: a container that runs is active or warm in a live worker, or in
somebody's hands; else its stop failed or its worker is gone (`left`), and the next
worker to start finds it. Bounds: two chats, two workers, two turns, one replica (so
every second sandbox evicts), two calls, two containers, one fault.

`PartsSafe_proofs` proves `AllTended` (`PoolSpec => []NoneForgotten`) for any finite
set of chats, any workers, turns and replicas and any number of faults. A step may drop
a record only if it stops the container; the rest carry it on (`CarriedOn`, `StopsOne`,
one lemma for each action). That no step replaces one record by another is `PoolInv`: a
worker has a container once, active or warm (`OnePlace`); who acquires a chat is alone
at it in its worker, where it is not active, nor warm from the file lock on (`TurnInv`,
`OneAcquires`, which is what the two locks are for); hands hold one record; a
container's number is given once (`Numbered`). The invariant was checked by TLC before,
with up to three turns, containers and calls and two faults. The assumption is
`PoolConstants`.

Seen: a container that serves a chat in one worker may be stopped by another, which
found it at its start or holds it warm (`aio_sandbox_provider.py:560`, 692). Left
out: a listing that fails at a worker's start (it then adopts nothing,
`aio_sandbox_provider.py:212`), `idle_timeout` 0 (no checker), sandboxes without a thread, remote backends, signals, the five seconds a
shutdown waits for its checker.

## HistoryThreads

Each automation has a chat of its own, and what it wrote there must go with the run
history. `ledger` is the store's table of those chats (first seen, pending delete and
its reason, trim pending), `map` the engine's file of the chat of each rule, `pages`
the checkpoints of a chat with their times, `stores` the other places a chat has
content, `stored` the runs that name it. `job` is who holds the cross-process firing
lock, with its locals: a firing (`Fire` to `StoreRun`), "Delete run history"
(`AskDelete`, `MarkPending`, the deletes, `DeleteRuns`) or the sweep. Each store is
emptied in a step of its own; any of them may fail (`DeleteFails`, `TrimFails`) or be
the last before the process dies (`Dies`).

Each step is a coroutine on the gateway's loop, which the holder of the lock waits for
with a timeout (`delete.py:168`). The timeout ends the wait and not the coroutine: the
failure is recorded, the lock goes on to others, and the coroutine goes on with what it
had in memory (`GoesOn`). `stray` are these; they delete (`StrayDeletes`,
`StrayClears`), read, look again and rewrite (`StrayReads`, `StrayLooks`,
`StrayRewrites`) beside firings, sweeps and people, and tell nobody how they ended. So
firings, deletes and sweeps exclude each other as far as no step takes longer than
`STEP_TIMEOUT`. A trim writes a checkpoint as it read it, less what is old: in place, or
put back where it was cleared meanwhile (a checkpoint that is gone keeps its place in
`pages`, with `there` false). A person's run (`Talk`, `TalkEnds`) takes no
such lock; `here` says whether the worker that deletes knows of it (`_busy` asks its
own run manager only). A message is as old as the first checkpoint that holds it, as
in `trim_thread`; a tick of the clock is one retention period.

`PersonKept`: what a person wrote inside the retention, and the sweep could see when it
began, goes only with a chat whose deletion was asked for, whatever failed before. The
one exception is the step in which a delete that overran clears the checkpoints
(`OverrunClears`). A trim that overran is no exception: whatever it puts back, and
whoever writes beside it, it costs no such message.
`AskedIsGone`: a deletion that was asked for ends, over failures, a death and a person
who goes on writing. `RetentionHolds`: what is past the retention goes from a chat the
ledger has known that long, also while its rule lives.

Bounds: one rule; two chats in `parts_safe` (one rotated away, one new) and one in
`parts_live`; one retention period, two firings (one in `parts_live`), one run of a
person, one failed step, overrun or death. Each hazard needs one of each: a failed delete is
retried as what it was, a person writes between the failure and the retry. Fairness:
who holds the lock gets on, since every wait for a step has a timeout (`STEP_TIMEOUT`);
the purge and the sweep run at startup and every hour (`purge_forever`); a person's run
ends. Nothing is assumed of a step that overran: its process may die.

Seen, and outside the properties:

- a retention delete that overran goes on without the firing lock, against "Callers hold
  the cross-process firing lock" (`delete.py:232`). What a person writes meanwhile, and
  the next worker's sweep has already seen and means to keep, goes with it: the exception
  in `PersonKept`;
- a trim that overran can put checkpoints back into a chat that was deleted since and is
  no longer in the ledger, or bring back old messages that a later trim removed;
- a turn a person writes after `trim_thread` has looked at the chat, in another worker,
  goes with a retention delete (the repository's own strict `xfail`, #77,
  `backend/tests/run_history/test_review5_attacks_55.py:129`); `job.saw` leaves it out;
- a person's run that began before a trim writes the old messages back at its end; as
  their first checkpoint is now a new one they count as new, although `trim_thread`
  says that "every message keeps its age";
- a death between `thread_gone` and `forget` leaves the map at a chat that was deleted;
  the next firing goes there, and the ledger notes it as new;
- a "Delete run history" that dies is finished by the sweep as to the chats; the stored
  runs stay until they are deleted again or expire.

Left out: trims of tool results with their calls and of the run records past the
cutoff, the limit of 200 rewrites (a failure of `TrimFails`), chats of a rule map
edited by hand, `owner_migration`. A firing and a person's run in one chat exclude each other.

`HistoryThreads_proofs` proves `PersonKept` for any rules, chats, periods, runs and failures
(`PersonsKept`). `ChatsInv` is inductive. Its heart is `RecentInv`, about the
checkpoints of a chat and all the copies of them that trims have read (`Versions`): what
a person wrote in this period is in every checkpoint after the first that has it, in
whichever of these versions, and in a person's run that goes on. So a checkpoint that is
put back has it too, and it is in the latest (`NowInv`). Only a firing could write a
later checkpoint without it, after a trim of its chat overran; none does, because the
engine forgets a chat before it is trimmed (`ForgottenInv`, with `RowsInv` and
`CreatedInv`: what is pending is in the ledger, and a new chat was nowhere before).
`AgesInv` and `CutInv` say that nothing is from the future and a trim removes only what
is of an earlier period; `TakenInv` that a chat is picked once; and `SawInv` that what
the sweep saw is still there when its chat's turn comes, where it stops a delete nobody
asked for. The
assumption is that the two bounds are natural numbers. `AskedIsGone` and
`RetentionHolds` need fairness and stay with TLC.

## HistoryKeys

A stored run is a row of the run database, a blob and a key in another database.
`rows` is what is committed, `op[s]` the operation of a worker with what it deletes
(`gone`) and the rows it saw (`live`), `dbLock` SQLite's write lock, `fireLock` the
firing lock, which records, the hourly purge and "delete all" hold and the purge at
startup and the deletion of one run do not. A key is `young` for ten minutes
(`KEY_GRACE_SECONDS`), and every operation is over before that. A worker that dies
(`Crashes`) undoes what it had not committed of the rows, and nothing else.

`GoneIsShredded`: a run that is gone from the database has neither key nor blob,
wherever a worker died on the way. `KeptHasKey`: a stored run nobody asked to delete
has its key until it expires, while other workers record, purge and rotate. Bounds: two
runs, two workers, one death; a third worker would wait for the same locks. There is no
liveness: a row left without its key by a death goes with the next purge.

`PartsSafe_proofs` proves both for any runs, workers and deaths (`Shredded`, `KeysKept`).
`KeysInv` says what each operation has done at each of its steps (`Recording`,
`Purging`, `Deleting`): a run being recorded was never stored and has a young key; what
a purge removes is past the retention, and its blobs, then its keys, go before the
removal is committed; and every row with an aged key is among those the purge saw. The
assumption is that `NoOne` is not a worker.

Seen, and outside the properties: a purge at startup with nothing expired writes
nothing and so locks nothing. It may list the rows before another worker's row is
committed and shred that row's blob after it (`store.py:552-555`); the run is then
stored, has its key, and has lost its content. Left out: redaction, size caps,
provenance, the settings, runs small enough to be kept in the row, old key formats and
the key store shared by several data directories, `_flush_wal`.

## Runs of the composed parts

| run | shows |
|---|---|
| `parts_safe` | `NeverQueued`, `EndIsTold`, `ShownIsChanged`, `WithinCap`, `UndoLosesNothing`, `NoneForgotten`, `PersonKept`, `GoneIsShredded`, `KeptHasKey`, types |
| `parts_live` | `OneAtATime`, `SpentOnce`, `GroupWhole`, `LeadLocksEnd`, `OwnResult`, `StopsSoon`, `QueueDrains`, `NothingSkipped`, `EndIsSent`, `TalkIsTaken`, `AskedIsGone`, `RetentionHolds`, types |
| `engine_messages` | `DeliveredOnce`, `NothingVanishes`, `NeverGoesBack`, `FiringEnds`, types |
| `engine_destination` | violated: a firing goes where another rule sends its messages |
| `ledger_undo_all` | violated: undo all of a run nobody interfered with is refused |

In the two composed runs and in `ledger_undo_all` requests, calls, plans and turns are
bounded and the system stops when they are used up (`CHECK_DEADLOCK FALSE`). The
engine's runs check deadlock: its cycles never stop by themselves.

That a composed run says something of each part is proved: `SafeParts` and `LiveParts`
show that every behaviour of the run is a behaviour of each of its parts, by their own
specifications. With the parts' invariants follow the run's types (`SafePartsTyped`,
`LivePartsTyped`) and its safety properties (`SafePartsKeep`, `LivePartsKeep`). Which
of these properties are also proved, and which are model-checked only, is said in the
section of each component.

## Not modelled

Each component names what of it is left out, in its own section above. Left out as a
whole:

- Preview sessions and the MCP server manager: life cycles of containers with idle
  expiry and phases of deployment. Their shape is that of the sandbox pool; what is
  their own (builds, approval, proxies) is mostly I/O on the container engine.
- Channels, the session watcher and config versions: message pumps to chat services, a
  polling observer of other tools' files, and versioned saves under one file lock.
- The workflow executor: a sequential plan of steps without concurrency of its own.
- Checkpointer, event store and journal: adapters over LangGraph and SQL. What the other
  components rely on is part of their modules.
- Ownership checks, authentication and routers: functions of one request.
- Classification, lineage and provenance of calls, cron arithmetic, prompts, provider
  adapters, ORM rows, the frontend, deployment files and scripts: text, arithmetic or
  layout, without state that several processes share.

The language model and the tools are external everywhere: they may answer or do
anything their interface allows.
