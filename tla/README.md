# Verification of the AniCode runtime

AniCode runs coding agents whose work outlives one process: jobs are queued and leased, sessions are shared
and deleted by several processes, prompts are accepted into an inbox and recovered after a crash, and events
reach their readers through an outbox. Above that durable core runs the drive: the turn loop of one session,
the texts steered into it, and the budget of its run. This directory models both
(`src/packages/core/src/runtime`, and of `src/packages/core/src` the parts of `session-manager.ts`, `agent.ts`,
`turn-runner.ts` and `steering.ts` that drive a session) in TLA+, checks it with TLC on small instances and proves the main invariants with TLAPS for instances of every
size. Source paths below are relative to `src/packages/core/src`.

Contents: [inventory](#inventory), [plan](#plan), [modules](#modules-and-the-code), [runs](#runs-and-bounds),
[fairness](#fairness), [proofs](#proofs), [findings](#where-the-code-and-its-words-disagree), [what is left
out](#what-is-not-modelled).

## Inventory

### The durable core

| Component | State it keeps | Operations | Interacts with |
|---|---|---|---|
| Worker queue (`DurableWorkerQueue` in `runtime/worker.ts`, `SqliteWorkerQueueStore` in `runtime/sqlite.ts`) | jobs: status, attempts, lease owner and expiry, fencing token, result | enqueue, claim, heartbeat, finish, fail, request and acknowledge cancellation, prune | persistent workers, remote server, webhooks |
| Persistent worker (`PersistentWorker` in `runtime/worker.ts`) | run loops, the job in hand, its `AbortController`, the heartbeat and poll timers | runOnce, heartbeat, cancellation poll, run, stop | the queue, through one transaction per call |
| Session lifecycle store (`runtime/session-lifecycle.ts`, `SqliteSessionLifecycleStore`) | one row per session (state, epoch, deletion claim) and its operation leases | acquire, renew, release; claim, renew, complete a deletion; listDeleted | every session manager |
| Session deletion (`deleteSession`, `withSessionOperationLease` and what they call in `session-manager.ts`) | `deletingSessions`, active operations, the claim in hand, the progress of a purge | operations under a lease, deleteSession, the late compensation, the collector | lifecycle store, content stores, event stream |
| Transactional outbox (`DurableOutbox` in `runtime/commands.ts`, `SqliteOutboxStore`) | messages with a lease and a fencing token; the event stream | enqueue, claim, mark sent, mark failed, flush, publish | every publisher, the runtime event store |
| Command inbox and durable prompt (`CommandInbox` in `runtime/commands.ts`, `SqliteCommandInboxStore`, `send`, `interrupt` and the recovery of `session-manager.ts`) | one row per command (status, lease, token), the drives in memory | accept, claim, heartbeat, finish, commitFencedEvent; send, join, interrupt, recover | the outbox, the event stream, the agent |
| Event streams, snapshots, retention (`runtime/durable.ts`, `SqliteRuntimeEventStore`, `SqliteRuntimeDatabase.prune`) | sequences, one snapshot per stream, projections in flight | record, append, snapshot, recover, reconcileInterrupted, prune | the outbox, recoveries, clients that resume |
| Session drive and steering (`ManagedSession` in `session-manager.ts`, `Agent.send` in `agent.ts`, `SteeringInbox` in `steering.ts`) | the sends that wait, those steered into the drive, the window of the inbox, notices of background tasks, the abort signal | send, pump, interrupt, close; the turn loop; deliverNotice | the durable prompt, hooks, the model, tools |
| Run budget (`RunBudgetLedger` in `agent.ts`, used in `turn-runner.ts` and `tool-executor.ts`) | tokens charged and reserved, tool calls, tool slots and their waiters, the tail of checkpoints, the reason it stopped | reserveModelCall, commit, consume, cancel, reserveToolCalls, acquireToolSlot, checkpoint, fail | the drive and its subagents, the event stream it is restored from |
| Worktree ownership (`WorktreeOwnership` in `runtime/worker.ts`) | one lease per worktree or session | acquire, heartbeat, assert, release | session manager, agent tools |
| File queue store (`FileWorkerQueueStore` in `runtime/worker.ts`) | a JSON document and a lock file | read, transact | the queue, when there is no database |
| Remote execution (`runtime/remote-server.ts`) | tenants' executions as jobs | submit, cancel, recover, sweep | worker queue, workload backends |
| Task scheduler (`runtime/scheduler.ts`) | a graph of tasks of one run | run, cancel, retry | agent tools |

The remaining parts of the repository (the rest of the agent, tools, providers, clients, sandboxes, telemetry,
configuration, the cloud gateway) are listed in `PROJECT.json` with the reason each is not modelled.

### How the parts interact

A user's prompt is *accepted* into the command inbox, *claimed* under a lease by the process that drives it,
and *finished*; each of its events is a row of the outbox first, and whoever flushes next delivers it to the
event stream. All of this happens under an *operation lease* of the session's lifecycle row. A deletion raises
a fence on that row, waits until the leases are gone, empties the stores and leaves a tombstone. Background
work is a *job* of the worker queue. Nothing but rows in a database connects the processes: every coordination
is a lease that expires, a token that fences, and a transaction that compares both.

Inside one process a claimed prompt becomes a *send* of the live session: it starts a drive, is steered into
the one that runs, or waits for the next. A drive asks its *budget* before each model call and tool; every
change of the budget is a checkpoint, an event of the same stream, from which a recovery restores it. Nothing
there is preempted: what interleaves are awaits, and the synchronous callbacks of an abort.

### What is hard, and what makes each component correct

- **Worker queue.** A lease lapses while its holder is still working, and the holder comes back: its
  heartbeat, result, failure and acknowledgement may arrive in any order, late, or after a cancellation.
  Correct means: one open lease per job, the stored result is the last claim's, the attempts budget holds, an
  outcome and an accepted cancellation are final.
- **Persistent worker.** The handler, the heartbeat timer, the cancellation poll, stop() and the catch block
  interleave between awaits, and two loops of a worker share its owner name. Correct means: two handlers run
  one job only after a lost lease, a cancelled job's holder has stopped, every job settles, a stopped worker
  whose handler hangs gives its lease up.
- **Session lifecycle and deletion.** Producers in other processes, rival deleters, crashes between two purged
  stores, and requests the backend commits after they timed out. Correct means: nobody purges while a producer
  holds a lease, the fence is permanent, nothing an operation reported as done survives the deletion, no purge
  touches a session nobody deletes, deletions end, late bytes are collected in the end.
- **Outbox.** Any call delivers any call's messages; the process may die between the stream and the
  acknowledgement. Correct means: every event is in the stream once, only one call may acknowledge it, a
  message is marked sent only when its event is there, and every message gets there.
- **Durable prompt.** A retry, an interrupt, a recovery and the drive itself race for one row; one process
  claims the same command twice under one owner name; the host dies between the row and the event. Correct
  means: one outcome, which is the one in the stream and the one senders are told; the budget is never reset;
  every accepted prompt settles, is announced, and every send returns.

- **Event stream.** Two processes project one stream in two reads and a write, while a retention pass removes
  rows and a crash repeats a reconciliation. Correct means: a reader who resumes misses nothing, the snapshot is
  what its events amount to, a recovery works with the whole history, the tools it found open are closed.
- **Session drive.** A text arrives at any await of the drive, an interrupt's callbacks send again before the
  interrupt has rejected what it cut, a hook or tool never returns. Correct means: every send is answered once
  and for good, what was rejected does not come back, no notice dies with the drive it arrived in.
- **Run budget.** Concurrent calls reserve from one ledger whose checkpoints queue behind each other; the sink
  fails or hangs; the process dies between a request and its settlement. Correct means: all lives of a run
  together stay within its limits, snapshots only advance, no slot is lost, nobody waits for ever.

`PROJECT.json` lists each hazard at its line with the properties that guard it.

## Plan

Written, in this order, the most consequential behaviour first:

1. `WorkerQueue`, with `JobContract` as the abstract specification it implements; `PersistentWorker` composes
   run loops with it.
2. `SessionLifecycle`, the lifecycle store; `SessionDeletion` composes managers, producers, deleters and
   collectors with it.
3. `Outbox`; `DurablePrompt` composes one prompt's inbox row and its actors with it, and `PromptContract` is the
   abstract specification it implements.
4. `RuntimeEvents`, the event stream below the outbox with its snapshots and retention.
5. `SessionDrive`, what happens between a claimed prompt and its outcome; `RunBudget`, what bounds it.

Next:

6. `WorktreeOwnership` and the session drive lease, with one lease an owner may take twice.
7. `FileWorkerQueueStore`: the lock file and the rename, implementing the atomic transaction that
   `WorkerQueue` takes for granted; its abstract specification is a register.
8. `RemoteExecution`: tenant capacity, termination and the retention sweep, over `WorkerQueue`.
9. `TaskScheduler`: dependencies, locks, retries and cancellation of one run.
10. A composition of `DurablePrompt` with `SessionDrive`: today the first abstracts the second to a run that
    ends either way, and the second does not know that a send is a command.

## Modules and the code

Every module takes one store transaction, or one step between two awaits, as one action. A lease is "live"
while its expiry lies in the future; there is no clock, expiry is an action of its own. A model that needs a
token counts them.

### WorkerQueue, JobContract

`status`, `attempts`, `token`, `owner`, `result` are the columns of a job, `rowid` its place in the claim
order, `live` the comparison of `leaseExpiresAt` with the clock. `claims` is history: every claim ever handed
out, any of which may call heartbeat, finish, fail or acknowledge at any later time. That stands for workers
that were suspended, crashed or replaced, in every combination. `ended` is the history of lost leases.

| Action | Code |
|---|---|
| `Enqueue` | enqueue with its idempotency key |
| `ClaimRow`, `ClaimDocument` | claim: the SQL store fails every expired job that has no attempt left and leases the next one; a document store fails such a job only when it is first, and then leases nothing |
| `Heartbeat`, `Finish`, `Fail`, `AcknowledgeCancellation` | the fenced calls of a holder |
| `RequestCancellation`, `Prune` | two-phase cancellation, retention |
| `LeaseExpires` | the clock |

`JobContract` is what a producer may rely on, job by job: submitted once, tried at most its budget of times,
one outcome, a success is the last try's, an accepted cancellation excludes success. The mapping hides leases,
owners and claim order (`phaseOf`).

### PersistentWorker

EXTENDS `WorkerQueue`. `pc` names the await a run loop is at, `held` the job it claimed, `aborted` its abort
signal, `beat` the heartbeat in flight, `stopped` a worker that was stopped or is down. `RunOnce` to
`FailLands` are the steps of `runOnce`; `HeartbeatTick`/`HeartbeatLands` the timer and the answer of its call,
which may land after the run has ended; `PollCancellation` the other timer; `Stop`, `Crash`, `Run` the life of
a worker. A crash loses the memory and keeps the rows.

### SessionLifecycle, SessionDeletion

`SessionLifecycle` is the store for one session: `state`, `epoch`, the leases of operations with the epoch
they were granted in, and the deletion claim (`deleteOwner`, `deleteToken`, `claimLive`). `AcquireOperation`,
`ReleaseOperation`, `ClaimDeletion`, `CompleteDeletion` are its methods; `OperationExpires`, `ClaimExpires`
the clock.

`SessionDeletion` EXTENDS it with what happens in the managers: `pc` of an operation in
`withSessionOperationLease` and its compensation, `dpc` of `deleteSessionDurably`, `step` the store a purge
empties next, `write` the requests in flight, `content` the bytes each store holds, `tombstone` the event a
deletion leaves. A request that times out may still be committed by the backend, or never. Collectors repeat
the purge of tombstones. A manager is one process, and a restart is another manager because `workerId` is
random. A step failing (a store that throws, a call that times out) is an action of its own.

### Outbox

`rows`, `outbox`, `msgToken`, `msgOwner`, `msgLive` are the message table, `log` the event stream (an event is
its idempotency key), `call` the locals of one `publish` or `flush`. Actions: `InsertMessage`, `ClaimMessage`,
`NothingPending`, `RecordEvent`, `MarkSent`, `MarkFailed`, `LookUp`, `StoreFails`, `MessageLapses`,
`OutboxDies`. Callers of one process share a lease owner, so only the token tells them apart.

### DurablePrompt, PromptContract

EXTENDS `Outbox`. `status`, `token`, `owner`, `live` are the command row; `host`, `active`, `interrupted` the
memory of each process; `actor` the place and locals of each send, recovery and interrupt. A send accepts,
claims, drives, settles and publishes; one that finds the command claimed joins it (`Peek`, `Wait`,
`Relayed`); a recovery reconciles and goes on with the recorded budget; `Interrupt` cancels. All events go
through the outbox's own actions, so a publish may fail or be delivered by somebody else. The agent itself is
a run that checkpoints its budget and ends either way.

`PromptContract` is the prompt as its senders see it, without hosts, claims, leases and calls: accepted once
(`Accept`), its budget spent one revision after the other while it is open (`Spend`), one outcome (`Decide`),
announced once (`Announce`), and only then told to a send that returns (`Tell`) or confirmed to an interrupt that
stopped it (`Confirm`). The mapping reads the outcome from the row, the announcement and the budget from the
stream, and the answers from the actors that returned (`outcomeOf` to `confirmedOf`). A send that throws is told
nothing: the code promises it no more than that a retry with the same key finds the outcome.

### RuntimeEvents

`history` is every event ever recorded, `rows` which of them the table still has and under which sequence,
`snapshot` the one row of the stream, `call` the await and the locals of each call of `DurableRuntime`.
`Record` is an append with its snapshot under the lock of the stream in one process; `Commit` a checkpoint of the
budget, which over SQLite is committed under the fence of its command (`session-manager.ts:4530`) and takes the
lock afterwards; `GetSnapshot`, `ReadEvents`, `PutSnapshot` the
three awaits of a projection; `Recover`, `Replay`, `Interrupt`, `Reconciled` those of a recovery; `Prune` the
retention transaction. `Projected` is `projectRuntimeEvents` for the types that change the phase or the open
tools. Two facts about time come with the retention, which is a day at least: what a call under way needs was
recorded after it began or is covered (`since`), and a message is not delivered again after its event was
pruned (`Deliverable`).

`intact` turns false when a pass emptied the stream and the next append starts again at 1
(`runtime/sqlite.ts:641`, `MAX(sequence)` of no rows), or when it removed rows between two reads of a
projection that had not covered them. The properties hold until then, and not after: that is a limit of the
code, which README and hazard list name, and the model shows exactly where it is.

### SessionDrive

`pending` and `waiters` are the queues of `ManagedSession`, `accepting`, `inbox`, `notices` and `held` the
fields of `SteeringInbox`, `drive` the await the generator of `Agent.send` is at and its locals, `promise`
what the caller of each text knows. The actions from `PromptBlocked` to `VerifierReturns` are the awaits of the
turn loop; `Throws` is an await cut by the signal, `Breaks` anything else that throws, `Settle` the two finally
blocks and the next round of `pump`. `interrupt()` is two actions, because the listeners of the abort run
between them and may send (`late`). A text may arrive at every await.

### RunBudget

`ledger` is what a snapshot has; `queue`, `broken` and `resolved` are the tail of checkpoints and what of it is
answered; `durable` the latest snapshot in the event stream. `Reserve`, `Reserved`, `Commit`, `Consume`,
`Settled` are one model call from its reservation to the checkpoint of its settlement; `Count`, `Counted`,
`Acquire`, `GiveUp`, `Release` a turn of tool calls; `CheckpointThrows` a sink that fails, before or after its
commit; `Crash` the end of the process and the ledger restored by the next. `spent` and `ran` are history over
all lives. A provider reports any use of the set `Uses`; what is more than was reserved is not counted in `spent`, since
no ledger could hold it back.

## Runs and bounds

| Run | Asks | Instance |
|---|---|---|
| `worker` | can two handlers run one job, can a cancelled job's holder go on, does every job settle, does a hanging handler's lease come free, and does it all implement `JobContract`? | 2 loops of one worker, 1 job with 2 attempts, 2 stops, crashes or lost leases; SQL store |
| `session_deletion` | everything the deletion promises | 1 producer, 2 deleters, 1 collector in 2 processes, 2 stores, 2 mishaps, one process may crash |
| `deletion_leases`, `deletion_tombstone` | two promises the code does not keep (below) | the same without mishaps |
| `prompt` | one outcome, the budget, the outbox below it; settled, announced, answered, over a crash; does it all implement `PromptContract`? | send and interrupt on the first host, retry and recovery on the second, 1 mishap, 1 checkpoint |
| `prompt_joiner`, `prompt_restart` | two promises of comments the code does not keep (below) | 2 sends in one process; a crash and an early restart |
| `events` | true snapshots, current recoveries, ordered sequences, closed tools, covered outcomes | a publisher in one process and a recovery in another, 4 events (two tools that start, a checkpoint, an outcome), a snapshot every 4, 1 crash, 1 retention pass |
| `drive` | everything the drive promises its senders | 2 sends, 1 notice, 2 turns, 2 interrupts or closes |
| `steering` | a promise a test names and the code does not keep (below) | the same, 1 turn, no interrupt |
| `budget` | the limits over all lives, slots, snapshots, nobody waits | 2 concurrent calls, one unbounded, 4 tokens; a turn of 2 tools on 1 slot, 3 tool calls; 1 crash |
| `budget_refusal` | a promise of a comment the code does not keep (below) | the same, 1 tool call |

A *mishap* is an event the environment may do without limit and the model may do `MaxMishaps` times: a crash,
a stop, a lease that lapses under a holder that is alive, a failing store or a timed-out request. The
instances are the smallest in which each hazard happens:

- A lease needs two claimants, and its fencing two claims under *one* owner name: two loops of one worker, two
  calls of one outbox. Two attempts reach both sides of the last one: the first claim
  retries, the second cannot. Two drivers of one host, one overtaken by the other under the same owner name, need
  a lapsed lease besides the crash that starts the second host of `prompt`, one mishap too many for its liveness:
  the theorems of `DurablePromptProofs` cover them, for any number. What needs several jobs (a key that is used again, an expired row ahead of a
  queued one) and the claim of a document store are outside this instance; the proofs about the queue cover
  both, for any number of jobs.
- A deletion needs a producer, a rival deleter and a collector; two stores make a crash *between* two purges
  possible. Two mishaps let a lease lapse and the compensation or the deleter fail after it.
- A message needs a call that lost its lease and one of its process that took it again.
- One checkpoint of the budget is enough for a recovery that would forget it, and a second driver for one that
  would account it twice. That revisions follow each other in `BudgetIsAccounted` needs two checkpoints: TLC sees
  nearly nothing of that part, and the theorem (`BudgetIsInOrder`) shows it for any number.
- Two tools open at a crash make a reconciliation stop between them; a snapshot every fourth event falls on a
  checkpoint or an interruption as well as on an outcome.
- The deadline of a send that waits for another is no mishap: it may pass at any time, once for each send.
- Two sends are one in the drive and one that is steered or waits; a second interrupt comes when the first has
  been settled or in the drive after it, and the last turn is the second.
- Two calls compete for four tokens, one asking for all that is left; three tool calls allow one turn of two
  and refuse the turn of the next life; one slot makes the second tool wait. Providers report 0, 2 or 5 tokens:
  nothing, what the bounded call may use at most, and more than anyone may.

`CHECK_DEADLOCK FALSE` in every run: each system really stops, when all jobs are settled or pruned, the
session is deleted, or all calls have ended; that it does not stop too early is what the liveness properties
say. Only `events`, which checks no liveness, uses symmetry: of its two tools, which nothing tells apart.

## Fairness

- *Continuations run* (weak fairness of each step after an await): the event loop of a live process runs every
  callback, and a call to a store is answered or throws. No strong fairness is assumed anywhere.
- *Unrenewed leases lapse*: expiry is fair only while nobody renews (`~OperationBeats`, `~DeletionBeats`,
  `~Renewed`, `~Beating`, `~Held`). A process that is alive and beating may hold its lease for ever, and a
  heartbeat of the queue that arrives late even revives a lease nobody took.
- *Processes are started again* (`Run`, `Boot`): a supervisor is part of the deployment
  (`src/deploy/remote-runtime`). A manager that crashed stays down, the other one goes on.
- *Handlers* are fair only as the antecedent of `EveryJobSettles`; a handler that hangs is in `AbortedLetsGo`.
- A user who *retries* is not assumed: nobody has to send again, delete again or interrupt. A collector's
  timer fires for ever (`session-manager.ts:1305`).
- *The drive and the budget* assume nothing of hooks, the model, tools, providers and the sink of checkpoints:
  each may hang for ever. What is fair is the wall clock of the run (a timer that is kept referenced,
  `agent.ts:1880`), every await that is raced with its signal (`raceWithSignal`), the settling of a drive that
  ended, and the call that carries a leftover notice. `SendsSettle` and `CallersAreReleased` say that this is
  enough. The settling includes `awaitToolExecutionsIdle` (`agent.ts:1097`): a tool body that neither ends nor
  can be killed would hold it, so `Settle` is fair on the condition that tool bodies end at some time.
- `PromptSettles` and `OutcomeIsAnnounced` exempt behaviours in which something went wrong that was not a
  crash (`Unattended`): a store that failed is only looked at again when a host starts, since the inbox is
  scanned nowhere else.

## Proofs

TLAPS checks every proof to the last leaf. The assumptions are the named ones on the constants
(`AttemptsAssumption`, `AgentsAssumption`, `OutboxAssumption`, ...): owners differ from "nobody", budgets are
positive, calls belong to processes. They bound no set, and the runs evaluate them.

**WorkerQueueProofs.** `LeaseExclusive`, `ResultOfLastClaim` and `AttemptsBudget` are not inductive: that a
heartbeat finds its lease exclusive needs to know that no other claim has the same token, and that needs
tokens to count attempts. `RowsMatchClaims` adds those facts (tokens issued, unique and counted; a running row
names an open claim exactly while its lease is live; no other claim is open; a queued job has an attempt
left). One lemma per action; `DispenseStep` serves both forms of claim, `GiveBackStep` all calls that give a
lease back. From the invariant follow the three properties, `CancellationSticks` and `OutcomeIsFinal` as
action properties (`EveryStepSettles`), and `QueueImplementsContract`: every queue step is a step of
`JobContract`, for either store.

**PersistentWorkerProofs.** The queue's theorems speak of every caller; here the callers are the run loops.
`WorkerInv` adds to the queue's `Inv` that the loops keep their types (`LoopTypes`), that a loop in a run holds
a claim no other loop holds (`ClaimsInHand`, the reason why two loops of one worker id exclude each other), and
that the claim was not settled before its loop settles it (`LastClaimUnsettled`). Since a loop then passes on
only claims that were handed out, every step is a queue step (`WorkerUsesQueue`), and the queue's properties
and its refinement carry over without a second proof. `HandlersExclude` and `CancelledHolderStopped` follow
from the invariant. The assumptions are the queue's and `ActivitiesAssumption`.

**SessionDeletionProofs.** The store first: `LifecycleInv` adds to the two properties that a live claim names a
deleting row under the newest token, and that before the first claim every lease is of the row's epoch: without
the latter a claim could not put all leases into the past. Every step of the composition is a step of the store or
leaves it alone (`NextIsStoreStep`), so `LifecycleInv` carries over, the composition implements the store
(`DeletionUsesStore`), and the two promises of the store that the run checks hold in it without a second proof. `DeletionInv` adds where every purger is
(`PurgesKnowTheirPlace`: past its wait, a deleter relies on the fence keeping the session drained *even when
its claim has lapsed*), that no operation leaves its drain with a write in flight (`WritesAreAwaited`), and
that what a purge has passed stays clean (`PurgedStaysClean`). `DeletedContentIsOwed` then follows at the step
that completes the deletion. The theorems hold for every number of managers, operations, collectors, stores
and mishaps, and any purge order.

**OutboxProofs.** `OutboxInv` needs that an entry of the stream, a sent row and a call that remembers a
success agree (`SentIsRecorded`, `PublishedIsRecorded`), and that no two calls hold the same current ticket
(`TicketsDiffer`), which rests on tokens that only grow. The step lemmas share frame lemmas for calls
(`CallsKeep`), tickets (`TicketsKeep`) and the table (`TablesKeep`).

**DurablePromptProofs.** `PromptInv` holds together what the row, the stream, the calls and the drivers know of
each other. Its parts: tokens count the drivers that claimed, so the lease names at most one of them
(`TokensCountClaims`); a terminal key in the table or in a call is evidence that the row has that status
(`OutcomeIsEvidence`), which is why it does not matter who publishes it or when; checkpoints are in the stream with
their commit and never wait for a call (`CheckpointsAreCommitted`), so that nothing else can add a revision; and per
place what a driver relies on (`DriverKnows`, `DriverCounts`): no claim before it has won one, no budget before it has
read one, an empty stream for the first claim. The invariant of the outbox is a conjunct of it, because the
outcome is told from what `PublishedIsRecorded` says of the driver's own call; the step lemmas of `OutboxProofs` are
used as they are, and only the commit of a checkpoint, which bypasses the queue, needs one more (`CommitInv`). A step
of one driver disturbs the others only through the row (`OthersKnow`, `OthersCount`), and `ActorKeeps`,
`MoveKeeps` and `SettleKeeps` are the three shapes nearly all steps have. That nonempty sets of revisions have a last one
(`LastOf`) comes from the well-foundedness of `<` on the numbers. `PromptImplementsContract` takes the invariant to the
contract, actor by actor: a step that leaves row and stream alone can only answer its own actor (`OneIsTold`), a
holder of the lease decides (`OneDecides`), a step of a call adds to the announced outcomes nothing or the status
of the row (`CallContract`, from `OneAnnounced`), and a checkpoint that passes the fence is the revision after the
last one. An interrupt is no driver, and that it was told the truth needs one invariant more, about its own call
(`InterruptsAnnounce`). The proofs rest on `PromptAssumption`, whose
only restriction is that the drivers are finitely many, and on `OutboxAssumption`.

**SessionDriveProofs.** `DriveInv` says that a text waits once (`WaitsOnce`: in `pendingSends` without
duplicates, with the running drive, or with the interrupt that will reject it, and its promise is open in each), that
a notice of the running drive has no send yet (`NoticesAreQueued`), that the inbox of a drive holds only texts
whose senders wait for that drive, and none while an interrupt is under way (`InboxIsTheDrives`), that what is sent from inside an interrupt is
behind the queue it cut (`InterruptsAreBrief`), and where the main text is recorded and the window may be open
(`WindowFollowsHistory`). `SettledOnce` needs all of the first three: each of the four places that answer a send
answers exactly who is in its queue. All boundaries of the turn loop are one lemma (`BoundaryKeeps`), because they
move a drive in one way (`Loops`): its main text stays, the window can only close, and the history only grows. The
proofs rest on no assumption.

**RuntimeEventsProofs.** While `intact`, the rows are the end of the history under their own numbers
(`RowsAreTheRest`), and the snapshot's sequence is not below what was removed. Only the upsert that keeps the
later row and the condition of the retention pass on the snapshot matter, not which projection is put
(`StreamInv`). What a projection contains is a recursion over the history. No induction has to compute it: two
runs of the recursion over the same events agree, because there would be a first place where they differ
(`RunsAgree`, from the well-foundedness of `<`), and so a projection on top of a true snapshot is the truth again
(`ProjectIsTruth`) and the truth about a beginning does not change when the history grows (`TruthIsStable`).
`TruthInv` then says that snapshot, base and state of every call are true, and that what a call has yet to read
still has its rows. `ToolInv` adds the order of the events of a tool: it starts once, because a key that was
delivered is not delivered again, and it is interrupted only after its start, because a reconciliation interrupts
what it found. Hence a tool with an interruption *anywhere* in the history is closed (`InterruptedIsInactive`),
which is what lets the reconciliations of two hosts close each other's tools. `OutcomesAreSnapshotted` speaks of a
stream at rest; what holds at every step is that an outcome the snapshot does not stand for has a call that has yet
to put a projection of it (`OutcomesAreCovered`), and a projection takes in all that the snapshot at that time does not
stand for (`ProjectionCovers`). The proofs rest on
`RuntimeAssumption`; its last restriction, that no publisher records `tool.interrupted`, is what
`reconcileInterrupted` being the only place that does so (durable.ts:433) amounts to.

**RunBudgetProofs.** `BudgetInv` orders the written snapshot, those in the queue of the sink and the ledger
(`SnapshotsAreOrdered`), so that what a crash restores takes back no stop and no tool call. `ToolsAreCounted` is
the reason for the wait between counting a turn and running it: until the count is acknowledged nothing of the
turn has a slot, and from then on what ran and what may still run is within what the *written* snapshot counts.
Every step but a checkpoint and a crash moves ledger and queue in one way (`Advances`), which `OrderKept` and
`CountsKept` use once for all. `SpentWithinLimit` is a sum over the calls, which no induction has to compute: the
tokens a call has open are a set of pairs, the sum is the cardinality of their union (`Open`), and a step moves one
call (`TokensMove`). `RequestsAreCovered` then says for *every* snapshot that a crash may restore, not only the
written one, that what was spent and what its calls have open is within its total (`Covers`); a call counts in
a snapshot from the revision of its reservation on, which is why a request may be sent only when that revision is
written. The proofs rest on `BudgetAssumption` alone.

**Only model-checked:** all liveness (`EveryJobSettles`, `AbortedLetsGo`, `DeletionSettles`,
`LateContentIsErased`, `PromptSettles`, `OutcomeIsAnnounced`, `SendsReturn`,
`SendsSettle`, `NoticesAreDelivered`, `CallersAreReleased`), which needs fairness and ENABLED, out of this
prover's reach. Every other property of a passing run is a theorem. No module uses a RECURSIVE operator.

## Where the code and its words disagree

Each is a run that TLC must find violated; the counterexample needs no crash and no failing store except where
said.

1. `deletion_leases` (`session-manager.ts:3074`). An operation gets its lease, then finds that its own process
   has begun a deletion and throws, outside the block that would release the lease. The deletion waits until
   the lease times out.
2. `deletion_tombstone` (`session-manager.ts:3144`). A compensation that read `deleting` goes on to purge the
   event stream; if the deleter records its tombstone and completes in between, the tombstone is gone until a
   later sweep.
3. `prompt_joiner` (`runtime/commands.ts:596`). The loser of two concurrent sends announces the outcome too;
   while the winner has that message claimed, the loser's publish throws, and so does its send, which
   `session-manager.ts:1613` says cannot happen.
4. `prompt_restart` (`session-manager.ts:1311`). A host that starts within the lease of the one that crashed
   does not see its command as recoverable, and scans only once. `prompt` shows that it recovers when
   it starts later (`LateRestart`).
5. `steering` (`agent.ts:1399`). A text accepted while the Notification hook or the verifier is awaited comes
   after the inbox was drained for the last time. The drive ends, the text is dropped, and its sender is told
   that it was done; the test at `agent.features.test.ts:548` says that a steering send completes only after its
   input was processed and persisted.
6. `budget_refusal` (`agent.ts:2237`). The stop of a run is persisted by a checkpoint nobody awaits, and the
   refusal is answered before it is written. A process that dies in between (a crash is needed here) leaves a
   latest checkpoint without the stop, and the recovered run goes on; the comment two lines above says that a crash
   between rejection and command ACK cannot reopen the budget. `SnapshotsOnlyAdvance` shows that a stop holds from
   the moment it is written.

One limit contradicts no document and is no run, and the model shows it: a stream that a retention pass emptied
starts its sequences again (`intact` in `RuntimeEvents`).

## What is not modelled

- Time as a number: only whether a lease is over. How long anything takes, backoff delays and the interval of
  a heartbeat play no part.
- `WorkerQueue`: the deprecated calls without a token, which nothing in `src` calls; a claim that names no job
  types, which returns before the sweep (`runtime/sqlite.ts:2069`) and changes nothing.
- Stores that throw for their own reasons, where nothing else is at stake: the calls of the queue store in
  `PersistentWorker` (`runtime/worker.ts:493`, `517`, `557`, `560`, `570`: `ClaimLands`, `HeartbeatLands`,
  `FinishL`); the lifecycle store in `SessionDeletion` (`Observe`, `Claim`, `WaitForProducers`,
  `RenewBeforePurge`, `ReadLifecycle`), whose content stores and event stream do throw (`mishaps`); the command
  inbox in `DurablePrompt` (`Claim`, `Peek`, `Finish`, `Catch`, `Abandon`), where the effect is a command nobody
  attends to, which the model reaches through a crash. The outbox and the sink of checkpoints throw at every call.
- `SessionDeletion`: the patch-set journals of a workspace and its identity, the second and re-entrant claim
  of one manager, shutdown.
- `Outbox`: the limit of 100 messages per flush, `deleteStream`, document stores without claimMessage.
- `RuntimeEvents`: `deleteStream`, a snapshot taken on its own, the in-memory and file stores, event types that
  change neither the phase nor the open tools (the checkpoint of a budget stands for them). An outcome whose event
  was pruned before its command may be published again (`reconcileCommandTerminalEvents`,
  `session-manager.ts:4813`) and then has a second event; the model leaves that out, and no property speaks of how
  often an event was recorded across a pass.
- `SessionDrive`: the capacities of the queues, permission questions, compaction (one more await before the
  model), the recovery branch of the turn loop, the durable command around a send.
- `RunBudget`: cost in dollars, a second resource of the same shape; the usage of a tool's own model calls
  (`addUsage`); the references of detached children (`retain`, `hold`, `release`); the fence of a tool, which
  only refuses or lets pass; invalid usage, which `turn-runner.ts` refuses before it is charged.
- `DurablePrompt`: background-task finalisation, steering (see `SessionDrive`), payload conflicts of one key, backends without
  `commitFencedEvent`, the optional drive lease, the shutdown branch of the recovery; flushes of other
  sessions, whose effect on a publish is that it throws, as `StoreFails` does. `Recover` and `Scan` take two
  calls to the store as one step.
- PostgreSQL: it has the same operations as SQLite, each a transaction; the models are of SQLite's.
- Everything marked `not_modelled` in `PROJECT.json`, for the reason given there; hazards met in those parts
  are listed too, each with a note.
