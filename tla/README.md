# agent-substrate in TLA+

A formal model of the parts of this repository whose control is hard to test: the
durable agent runtime (how runs of agents are queued, leased, suspended, woken,
retried, cancelled and supervised; how messages reach them; how a run survives
crashes by replaying its journal; how the tool calls of a turn wait for people; how
agents talk in a channel), and the write path of the data platform (how batch jobs
are queued and followed, and how what they wrote is published to tables and views).
Everything is translated from the code. Paths are relative to
`src/agents/agent-substrate/src/substrate/` for the runtime and to
`src/data/substrate-data/src/substrate_data/` for the data platform, unless they
start with `src/`.

| module | what it is |
|---|---|
| `Supervision` | abstract specification: what a parent is promised about its children |
| `RunTree` | the run store: runs, leases, signals, cancellation, parents and children |
| `Mailbox` | `RunTree` with messages: inbox, acknowledgement, dead letters, follow-up runs |
| `DurableRun` | one run: its attempts, its journal of effects, its waits |
| `ToolBatch` | one turn of a run: tool calls side by side, approvals, decisions by people |
| `Channels` | one channel: its log, cursors and wakes, and the agents that live in it |
| `JobContract` | abstract specification: what the job queue promises to who submits a job |
| `ComputeJobs` | the job queue: its table, controllers, followers and worker |
| `ComputeTakeover` | `ComputeJobs` with controllers that lose their election and live |
| `IcebergTable` | a table as a value: snapshots, data files, what commits and expiries do |
| `TableContents` | abstract specification: what is promised to who reads a table |
| `Publications` | imports, maintenance and views of a table, over `IcebergTable` and `JobContract` |
| `RunTreeProofs`, `MailboxProofs`, `DurableRunProofs`, `ToolBatchProofs`, `ChannelsProofs`, `ComputeJobsProofs`, `PublicationsProofs` | theorems about these modules, with proofs checked by TLAPS |
| `SupervisionProofs` | that `RunTree` implements `Supervision` |
| `MCRunTree`, `MCMailbox`, `MCDurableRun`, `MCToolBatch`, `MCChannels`, `MCComputeJobs`, `MCPublications` | instances for TLC, with one `.cfg` per question |

To check: `tlc -config MCRunTree.cfg MCRunTree.tla`. A `.cfg` whose name is longer
than its module's (`MCComputeJobsTakeover.cfg`) goes with the module its name
begins with. `tlapm RunTreeProofs.tla` checks the proofs of a module (about eight
minutes for `PublicationsProofs`, the longest).

## 1. Inventory

### The durable runtime (`runtime/`)

**Run store** (`runtime/store.py` the port, `runtime/persistence/store.py` the
SQL). State: `rt_runs` (status, epoch and owner of the lease, retry count, timer,
deadline, cancel flag, parent), `rt_run_wake` (names a suspended run waits on),
`rt_signals` and `rt_signal_claims` (buffered and consumed signals), `rt_events`
(the journal), `rt_inbox`, `rt_inbox_processed`, `rt_dead_letters`, `rt_spawns`,
and spend per tree and account. Operations: `create_run`, `lease`, `heartbeat`,
`commit` (entries, acknowledgements, spawns, deliveries, signals and an outcome:
suspend, retry, complete, fail or cancel), `request_cancel`, `deliver`, `drain`,
`redrive`, `signal`, `consume`. Each is one transaction. On SQLite it is
`BEGIN IMMEDIATE`, one writer at a time (`stores/sqlite.py`); on PostgreSQL it is
READ COMMITTED with advisory locks per key
(`integrations/database/postgres_database.py`).
*Correct when*: no run sleeps on something that has arrived; a child's end
reaches its parent once; a tree stops when it is told to; a message is neither
lost nor handled again after it was acknowledged.

**Worker** (`runtime/worker.py`). State: tasks, cancellation tokens and stop
reasons by run id. It polls `lease`, runs an attempt per lease, renews the lease
by heartbeat and ends the attempt by a commit (`_finish`, `_on_stop`,
`_on_failure`). *Correct when*: only the holder of the current lease changes the
run, and a run is never stuck.

**Journal** (`runtime/journal.py`). State: for each step (by path) whether its
intent and its outcome are recorded. `effect` records an intent, executes,
records the outcome; `record_atomic` records a step in the commit that performs
it; `peek` serves waits; `fork_scopes` gives concurrent calls a path each.
*Correct when*: a step that is not safe to repeat is not repeated, and every
attempt sees the same values.

**RunContext** (`runtime/context.py`): what agent code calls: `tool`,
`tool_batch`, `send`, `ask`, `spawn`, `join`, `post`, `read_channel`,
`sleep_until_signal`, `sleep_until`, built on the journal and on fenced commits.
**Runtime** (`runtime/runtime.py`): the host's facade: `submit`, `cancel`,
`pending_approvals`, `decide`, `tail`.

**Tool invocation and approval** (`runtime/tool_invoker.py`, `tools/approval.py`).
A risky call journals the id of its request, logs the request, and waits for a
signal of that name; a person's decision is that signal. *Correct when*: a tool
runs only under the decision that was journaled, once, and a turn whose requests
are answered ends.

**Channels** (`runtime/channel.py`, `runtime/persistence/channels.py`,
`agents/channel.py`). State: entries in order, a cursor and an engagement per
member, reactions, a paused flag; wakes travel through the members' inboxes.
Operations: append, edit, tombstone, react, read, mark read, members. *Correct
when*: who is addressed hears of it, agents fall silent, nobody repeats himself
after a crash, what was deleted is gone.

**Budgets** (`types/supervision.py`, `runtime/persistence/accounts.py`): caps on
headcount, depth and spend over a tree of runs.

How they interact: a worker leases a run from the store and builds a journal
from its events; the agent's calls become effects and commits under the lease;
commits deliver messages and signals that wake or create other runs; the end of a
run signals its parent and cancels its descendants; a channel's append delivers
wakes to its members' inboxes. Several workers share one store and know nothing
else of each other: the epoch of the lease is the only fence between an old
attempt and a new one.

### The write path of the data platform

**Job queue** (`compute/store.py`, `controller.py`, `service.py`;
the election in `catalog/backends.py`).
State: the table of jobs (state, attempts, cancel flag), one elected controller
with a thread per attempt it follows, and the worker's records and processes.
Operations: submit, cancel, create, start, stop and delete a resource, the tick
(reap, probe, expire, claim), promotion, shutdown. *Correct when*: an accepted job
ends, once and for good, whatever crashes; limits hold; a detached resource has
nothing pending.

**Publisher** (`api/publications.py`, `api/routes/`: `imports.py`, `maintenance.py`,
`materialized.py`; `tables/iceberg.py`). State: Iceberg tables, and records of imports,
maintenance runs and publications. A request is a handler that plans, submits a
batch job and records a publication; a loop in the same process commits what the
ended jobs wrote and settles the records. *Correct when*: the rows of a committed
write are in the table once, no snapshot points at a deleted file, what is
reported as succeeded is there, a view has no row twice, every publication settles.

### Around it

Agents (`agents/`), retrieval and documents (`documents/`), context assembly,
providers and other adapters (`integrations/`), `server/`, `console/`;
`src/agents/substrate-cloud` (HTTP services, streams to browsers, scheduled
triggers), `src/agents/substrate-ui`, `src/identity` (OIDC back end), the rest of
the data platform (catalogue, grants, files, SQL), `src/data/inference-pool` (a
pool of model servers), other model services, contracts, deployment.
`PROJECT.json` lists each with its status and the reason.

### What is hard in it

- *Interleaving*: a signal against a suspension, a delivery against a
  completion, a cancel against a sleep, two attempts of one run, the tool calls of
  one turn, a read and an update of a job's row, a rewrite against an append.
- *Crashes*: a worker dies between any two commits; only the expiry of its lease
  tells. A controller dies with jobs running. The publisher dies between a table's
  commit and its record.
- *A store that fails*: a commit may have been applied although it raised.
- *Time*: deadlines of asks, retry backoff, leases, run deadlines, queue deadlines.
- *Shared inboxes*: an inbox is the agent's, and an agent may have several runs.
- *People*: who answer twice, late, in another order, or delete what they said.

`PROJECT.json` lists these at their lines, each with the properties that would
catch it, or the reason why none does yet.

## 2. Modules and the code

### RunTree

One variable, `db`: the store's tables, as a record. Each action is one call of a
store method. The methods are compositions of helpers inside a transaction, and
so is the model: `MakePending`, `Signal`, `InsertRun`, `Terminate`, `CancelTree`,
`Suspend`, `Retry` map tables to tables and have the names of the helpers they
translate.

| code | model |
|---|---|
| `_make_pending`, `_signal`, `_insert_run` | `MakePending`, `Signal`, `InsertRun` |
| `_terminate` with `_cancel_one`, recursive over children | `Terminate`, `EndRuns`, `FlagRunning` |
| `request_cancel` | `RequestCancel`, `CancelTree` |
| `_suspend`, `_retry`, and the switch to Cancel in `commit` | `GoToSleep`, `RetryLater` |
| `lease`: reclaim, timers, deadlines, claim | `Lease`, one step |
| `commit` with Complete, Fail, Cancel | `Complete`, `CompleteAndFollowUp`, `Fail`, `Cancel` |
| `_spawn`, `consume`, `signal`, `create_run` | `Spawn`, `Consume`, `SendSignal`, `CreateRun` |

The code ends a tree by recursion, one run after another, in one transaction.
`EndRuns` says what the whole recursion leaves behind: the set of runs that end
is the closure over live descendants that no worker executes; each tells its
parent unless the parent ends in the same transaction; those that a worker
executes are flagged. So that theorems can be proved there is no recursive
operator: `Closure` is the least set closed under "child of".

Abstractions. The clock is not modelled: a poll may find any set of leases
expired, any set of timers due, any set of dated runs past their deadline. The
claim takes any set of pending runs (capacity, priority and fairness between
tenants only narrow the choice). A signal's payload is dropped. A lease is
"the run is running": which worker holds it, and an old holder's refused commit,
are `DurableRun`'s matter. `Consume` does not need a lease, as in the code.
Only runs created through the store's port can have a deadline (`Dated`): the
code creates children and follow-up runs without one. Two calls are left out: a
signal to a run id that does not exist (an observer polling for its answer) and
`request_cancel` without cascade, which nothing in the runtime uses.

### Supervision

What `RunTree` promises, without tables: a run lives and then ends, once; its
report to its parent is sent in the step in which it ends, once, is read at most
once, and is void only if its parent ended first. `RunTree!Supervised` states the
refinement: `life` hides pending, running and suspended; `report` is computed
from the buffer and the claims.

### Mailbox

Extends `RunTree` with `mail`: the inbox, the processed set and the dead letters
of each agent, the agent of each run, and what each run journaled as drained.
`origin` (who created the run) and `drained` kept after the end of the run are
history. Every action conjoins an action of `RunTree` with its effect on
messages, so each behaviour of `Mailbox` is one of `RunTree` by construction.

Reading the inbox and journaling what was read (`_journaled_drain`) are taken as
one step; what arrives between the two is not in the record either way. A replay is
given what is in the record and still in the inbox (`Replay`), and completes with an
acknowledgement of no more than that: a message that another run gave up and a person
sent back in between is left for a follow-up. A replay may happen at any time while
the run executes, because `Lease` may give the run to another worker in one step; that
each attempt after the first begins with one is not required, so `Finish` may also
acknowledge what an earlier attempt was given. The worker's limit of 100 messages per drain is not modelled. The worker sends only
final nacks, so a message's attempt count is not modelled. `_safe_drain` reads
the inbox before the failing commit, and may fail: `FailForGood` acknowledges any
subset of what the inbox holds. `_on_failure` may fail a run before it has
drained, so `FailForGood` does not require that the run has begun. A message
comes back after its acknowledgement only with the same id: ids are `Msg`.

### DurableRun

One run and the program its agent executes: a sequence of steps, each an effect
that must not run twice (`once`), an idempotent effect (`safe`), a wait for a
signal (`wait`: `sleep_until_signal`, `join`) or a wait with a deadline (`ask`).
Each attempt is numbered by the epoch of its lease, has a phase, a position in the
program and the journal as it read it when it began. Several attempts may be
active at once: `Expire` may take the lease from an attempt in any phase, and the
attempt goes on until a commit refuses it.

`Commit` is the fenced commit: applied, refused because the lease is lost, or
failed by the store whether or not it was applied. `Intend`, `Body`, `Record`,
`Replay`, `Resume` are the branches of `Journal.effect`; `Claim`, `NothingYet`,
`Answer`, `GoToSleep` those of the waits; `GiveUp`, `FailInDoubt`, `Complete` the
ways an attempt ends.

Abstractions. A body's result is named by the attempt that executed it, so two
executions never agree by chance. A body that raises ends the attempt: agent code
that catches the error and goes on is not modelled. A body stopped by a control
signal leaves its attempt without a commit that ends the run (the cancellation of
the run itself is `RunTree`'s). The outcome of a body that returned is tried three
times by `_record`: a first failure followed by a success is the success. An ask's
send and its deadline, two atomic records, are one commit. Steps run one after
another; calls that run side by side are `ToolBatch`. `hist` is history: what
bodies did and what the program was told. What an attempt does before the first step
(its journal is read, `run.started` or `run.resumed` committed, the inbox drained) is
one step, `Begin`, that the store may fail. Which errors a retry helps against
(`classify_failure`) is a choice: `GiveUp` retries while retries are left or fails
the run at once.

### ToolBatch

One turn of an agent that calls several tools at once. A call has a phase of its
own in each attempt, attempts overlap as in `DurableRun`, and each attempt works
from the journal as it read it when it began.

| code | model |
|---|---|
| `Journal.effect` under a forked path, `RunContext.tool` | `Replay`, `Resume`, `Intend`, `RecordResult`, `TakeBack` |
| `ToolInvoker._invoke_inner`: `ctx.uuid`, `log_once`, `sleep_until_signal`, `_journal_decision`, the tool | `NameRequest`, `AskPerson`, `Consume` or `NoAnswer`, `LogDecision`, `Execute` |
| `ToolInvoker.invoke`: an exception becomes a result | `Finds`, `ConsumeFails` |
| `RunContext.tool_batch`: gather, then raise or return | `BatchRaises`, `BatchSleeps`, `BatchReturns` |
| `pending_approvals`, `decide` | `Decide`: answers what the journal shows as asked |
| lease, expiry, retry timer, death | `Lease`, `Expire`, `RetryTimer`, `Die` |

What an attempt's end does depends on all its calls: if one raised, the first that
did in the order of the batch decides (an effect in doubt fails the run, another
error is retried); otherwise, if one waits, the run sleeps on the first that does;
otherwise the turn's results go to the model and the run completes.

Abstractions. A result is named by the attempt that found it. Two commits one
after the other with nothing between them that another actor could see are one:
the intent and `tool.call`, the outcome and `tool.result`, `run.resumed` and
`approval.decided`. Where the store fails between the two, the second of them is tried
in vain and what the code does about it is in the model: the intent of a call is taken
back when its `tool.call` is not logged (`Resume`). A tool's own error or timeout is a result. People decide
`approve` or `deny` (`modify` is an approval with other arguments). Only requests
that suspend are modelled: handlers that wait in memory with a timeout are not, nor
the session's call budget, hosted and unknown tools, chains, artifacts, mail that
wakes the run early, or cancellation (`RunTree`). `hist` is history: how often and
under which decisions each tool ran, what the model was told, and whether an
attempt was still working when its lease was taken.

### Channels

One channel and its members. `log` is the table of entries, `cursor`, `engaged`,
`noticed` and `paused` the columns they are named for, `inbox` the wakes that
wait for each member, `run` what a member's run has journaled and where its
attempt is.

| code | model |
|---|---|
| `channel_append`, with `_write_entry`, `_cause_depth`, `_wake_reason` | `Speak` (by `Say`, `Post`), `Entry`, `CauseDepth`, `WakeReason` |
| `channel_edit`, `channel_tombstone`, `channel_react` with `_write_marker` | `Edit`, `Tombstone`, `React`, `Marker` |
| `ChannelMemberAgent._on_data`: read, triage, think, post, reconsider | `Wake`, `ReadChannel`, `Think`, `Post`, `RecordPost` |
| `_on_data` when the host says the member is busy elsewhere | `LeaveUnread` |
| the worker's drain, end and crash of a run | `Drain`, `Complete`, `Crash` |
| a post that is refused or already there | `IsStale`, `PostOutcome` |

A store operation is a transaction under the channel's lock and one action. The
crash window that matters is between `Post` (the append) and `RecordPost` (the
journal says so); the idempotency key that covers it is the flag `landed`.

Abstractions. Members and modes are fixed. The clock and the accounts are choices
inside `Speak` (an engagement may have passed, a budget may be gone). Reading the
members, the entries and moving the cursor is one step; so are the record of what
was read, the triage and the model's turn (`Think`). One read returns the first
`ReadLimit` entries after the cursor (`Page`; 200 in the code), markers included, and
moves the cursor no further; `left` is history and says how long the log was when the
member's last read did not get to its end. Posts carry `read_up_to`, as
the members' do. Cursors and receipts of people, heads, waits, observers and runs
that fail (their mail is `Mailbox`'s matter) are left out.

### JobContract, ComputeJobs, ComputeTakeover

`job` is the table, a record per job. A transaction of the table is one step,
except `finish`, which reads the row and updates it by id in two statements:
`ExecSelect` and `ExecUpdate` for the followers, `Verdict` and `WriteNext` for the
controller under its lock. A controller does one thing at a time under that lock
(`main`), while its followers (`exec`), a thread per attempt, take none.

| code | model |
|---|---|
| `submit`, `cancel`, `create_resource`, `action`, `delete` | `Submit`, `CancelJob`, `StartResource`, `StopResource`, `DeleteResource` |
| `tick`: reap, probe, expire, claim | `Reap`, `Probe`, `TickStart`, `TickExpire`, `TickClaim`, `TickEnd` |
| `execute`: post, poll, finish | `ExecStart`, `ExecPost`, `ExecPoll`, `ExecSelect`, `ExecUpdate`, `ExecRaises` |
| `promote`, `demote`, `close`, election | `Acquire`, `Revoke`, `Lead`, `Demote`, `Close`, `Closed`, `Crash` |
| `JobRunner`: start, cancel, prune, its gate and watchers | `Started`, `Interrupted`, `Pruned`, `Full`, `ProcessEnds`, `OldProcessEnds`, `WorkerRestarts` |

`Contract` is the refinement: queued and running are the contract's pending.
`ComputeTakeover` adds, for PostgreSQL, a session that breaks while its
controller lives.

Abstractions. One resource on one worker. What a job computes, probing of
addresses, logs and output are left out. Deadlines and backoff are choices: a job
that waits may be past its deadline, one that runs may time out.

### IcebergTable, TableContents, Publications

`IcebergTable` is a table as a value: the sequence of snapshots with what each
left in the table, and which of them are kept. A file is registered as an entry,
so that one file can be there twice. `Publications` has one table of a name (which
can be dropped and created again), one view of it, and the records.

| code | model |
|---|---|
| `create_import`, `complete_import` | `CreateImport`, `Arrive`, `Queue`, `NotUploaded` |
| `optimize`, `expire`, `delete_table` | `Arrive`, `PlanOptimize`, `PlanExpire`, `DropTable` |
| `start_refresh`: what was appended, then the plan | `FindAppended`, `PlanRefresh` |
| submission of the job, record of the publication | `PostJob`, `InsertPublication` |
| `reconcile`, and per kind `inferred`, `ingest`, `ingested`, `optimized`, `expired`, `refreshed` | `Reconcile`, `Look`, `CreateTable`, `PostIngest`, `InsertIngest`, `Commit`, `CommitRefresh`, `Settle` |
| `fail`, an error in the middle of a pass, a restart | `Fail`, `Mark`, `Crash` |
| `commit_files`, `replace_files`, `expire_snapshots`, `appended_since` | `CommitFiles`, `ReplaceFiles`, `MayExpire`, `Expired`, `AppendedSince` |

Handlers and the publisher are coroutines of one process: they interleave where
they await, and a crash loses both. The batch jobs are any implementation of
`JobContract`, the promise `ComputeJobs` is checked to keep.

`TableContents` is what a reader of the table may see: the rows change when an import
comes in, which it does once, adding its rows or replacing what was there, and when a
new table is created under the name. `Contents` is the refinement: the rows are those
of the current snapshot, and an import has come in when some snapshot of the table,
kept or expired, is of its write. Rewrites, expiries, replays, drops, failures, and all
that handlers and the publisher do in between are steps a reader does not see.

Abstractions. One API process leads the publisher. What is left of its pass, `todo`,
is a set, taken in the order of creation. Files are named by the job that wrote them,
rows by the write they came from. A batch job writes at least one file. An overwrite of
a table with files is one transaction and two snapshots of one write id, a deletion
(`Emptied`) and an append, as PyIceberg makes them, and an expiry counts both. The
snapshots of a table have timestamps in the order of their commits, by which an
expiry sorts them. A pass of the publisher takes the oldest `PassSize` publications
(100 in the code). Pipelines, orphan removal, schemas and their evolution, and the schedule of refreshes are left out.

## 3. Runs

Between them the passing runs take every action and every disjunct of the
specifications they check. Deadlock is checked in `RunTree` and `Mailbox`. The
other runs say `CHECK_DEADLOCK FALSE`: a run that has ended, a queue whose jobs
have, a publisher with nothing pending and a channel in which people have said
all that the bound allows do stop.

| run | bounds | shows |
|---|---|---|
| `MCRunTree` | 3 runs (1 dated), 1 name, 1 retry, 1 copy of a signal | `TypeOK`, `NoLostWakeup`, `ReportedOnce`, `OrphansAreStopping`, `FlaggedNeverSleeps`, and the refinement `Supervised` |
| `MCRunTreeLive` | 2 runs, fair | `CancelledRunEnds` |
| `MCMailbox` | 1 agent, 3 runs (1 dated), 2 messages, 1 retry | `MailTypeOK`, `OneReader`, `AckedNeverBack`, `MailHasReader`, `NothingVanishes` |
| `MCDurableRunEffects` | once, wait, safe; 1 retry, 2 expiries, 1 delivery, 1 failed commit | `TypeOK`, `NeverTwice`, `SameResult`, `CompletedIsWhole` |
| `MCDurableRunLive` | ask, once; 1 retry, 1 expiry, 1 delivery, 1 failed commit, fair | `RunEnds` |
| `MCToolBatch` | 2 calls in three turns (both risky; one risky and idempotent; one risky, the other idempotent); 0 or 1 retry, 1 expiry, 1 failed commit, 1 or 2 decisions per call, fair | `TypeOK`, `RunsOnce`, `HeldToDecision`, `ToldOnce`, `TurnEnds` |
| `MCChannels` | 1 person, 2 agents (all, mentions), 4 acts of the person (a message counts two), breaker 2, 1 reconsideration, 2 entries per read | `TypeOK`, `AgentsFallSilent`, `NeverRepeatsItself`, `ErasedEverywhere`, `SilenceIsExplained`, `MentionIsKept` |
| `MCComputeJobs` | 2 jobs, 1 controller, 1 place, 2 attempts, 3 claims, 1 fault of any kind, fair | `TypeOK`, `RunningIsFollowed`, `WithinLimits` (with `DetachedIsIdle`), the refinement `KeepsContract`, `JobEnds` |
| `MCPublications` | a create-import, an append or overwrite, a rewrite, an expiry, a drop; 5 jobs, 2 requests at a time, 1 fault, `retain_last` 3, 2 publications per pass | `TypeOK`, `RowsOnce`, `NoDanglingFile`, `SucceededIsThere`, and the refinement `KeepsContents` |
| `MCPublicationsViews` | two appends, two refreshes; 4 jobs, 1 request at a time, 1 fault, 2 publications per pass, fair | `NoDuplicates`, `Settles` |

Why the bounds are enough to be of interest. Three runs give every shape that
matters to the helpers: a chain of three (a cascade that passes through a run, or
stops at one being executed), two siblings, a parent and an unrelated run. The
theorems lift the bound for all invariants of `RunTree`. Two messages let one
arrive while another is being handled; three runs let two runs of an agent overlap
and a follow-up be inserted. Two expiries give three attempts that overlap. Two
calls let one finish, wait or fail while the other is at any of its steps, and the
attempts of `MCToolBatch` number up to five. Two messages of a person, or one and
two markers, let agents answer each other past the breaker, a message be deleted
while it is being answered, and a member be woken while it thinks. Logs get longer than two
entries, so that a read stops short of the end, of messages and of markers only. Two jobs on one
place let one wait for the other; one fault can happen at any step, and an attempt,
a retry and a replay after it fit into the claims. Five jobs are an inference, two
ingests, a rewrite and a deletion in any order; three of them may wait at once, one
more than a pass takes. The symmetry sets of `MCRunTree`
and `MCMailbox` exchange only what the specification does not tell apart;
liveness is checked without symmetry.

Two runs check a statement of the repository that the code does not keep; TLC
finds the counterexample.

| run | statement | what happens |
|---|---|---|
| `MCComputeJobsTakeover` | "The new leader asks workers to stop whatever the old one had started and replays it" (`src/data/substrate-data/docs/OPERATIONS.md:35`) | the follower of the old leader sees the stopped execution and ends the requeued job as cancelled: the fence compares attempt numbers, which a requeue leaves |
| `MCPublicationsTaken` | "A failed create-import leaves no empty table behind." (`api/publications.py:343`) | the table it drops has the rows of an append import that was reported as succeeded |

### Behaviours no run states

These also follow from the code, and the modules have the steps; no run states
them, and the properties above are worded so as not to claim the opposite.

- *A second wait for a report.* A parent that consumed a child's report by one
  wait (`ask` by handle) and then joins the child waits under a claim of its own,
  without a timer, for a signal that is gone (`runtime/context.py:1066`; compare
  "a parent waiting on a child is never stranded",
  `docs/claude_docs/architecture/invariants.md:83`).
- *Mail left with nobody to read it.* Only completion looks for it: a message
  accepted for a run that is then cancelled or fails stays in the inbox
  (`runtime/persistence/store.py:611`; compare `runtime/store.py:412`).
  `MailHasReader` is what holds instead: mail loses its last reader only in a step
  in which a run of that agent fails or is cancelled.
- *A submitted run's own message.* Another run of the agent may drain it or, when
  it fails, acknowledge it first (`runtime/worker.py:500`; compare
  `runtime/runtime.py:167`).
- *A signal claimed by an old attempt.* `consume` checks no lease: an attempt
  that lost its lease may claim a signal after the current one found nothing and
  before it sleeps (`runtime/persistence/store.py:1227`; compare
  `runtime/store.py:28`). That is why `MCDurableRunLive` has no `wait`, and why
  `TurnEnds` is about behaviours in which no attempt outlives its lease.
- *A timeout replayed as a reply.* An ask times out, the attempt dies later, the
  reply arrives, and the replay is told the reply (`runtime/context.py:938`;
  compare `invariants.md:183`). `SameResult` leaves asks out.
- *A request nobody sees.* If the store fails while `approval.requested` is
  logged, the error is let pass and the run sleeps on a request that
  `pending_approvals` does not list (`runtime/tool_invoker.py:254`). `TurnEnds` is
  about behaviours in which the store does not fail.
- *A channel message read and lost.* `read_channel` moves the cursor in one transaction
  and journals what it read in another: an attempt that dies in between replays to
  an empty read (`runtime/context.py:791`).
- *A mention beyond the limit of a read.* `read_channel` stops after 200 entries and
  moves the cursor to the last of them (`runtime/context.py:773`). The member then
  answers what it has read, or returns at once if that was nothing but markers; its run
  completes and the wakes it has drained are acknowledged (`runtime/worker.py:463`),
  also that of a mention the read did not reach. The mention stays unread until
  something else wakes the member, and a member in mode `mentions` is woken by mentions
  only (compare "What to read is always the log after the member's cursor, never the
  wake message", `runtime/channel.py:25`, and "reads everything after its cursor as one
  digest", `agents/channel.py:4`). `MentionIsKept` leaves out what was in the log when
  the member's last read stopped short (`LeftBehind`). Without that TLC finds the
  property violated on the instance of `MCChannels`: one person writes more than two
  entries before the member reads.
- *Rows committed twice.* Two `:complete` requests of one import, or two
  `:refresh` requests of one view, may both pass the check of its status before
  either has recorded anything (`api/routes/imports.py:178`; compare
  `src/data/substrate-data/docs/COMPUTE.md:71`). Each request is made once in the
  runs, and `MCPublicationsViews` serves one at a time.
- *An append a view never has.* A refresh finds what was appended and then plans
  on the snapshot of that later moment, which it records as read
  (`api/routes/materialized.py:139`).
- *A refresh committed and reported as failed.* An error after the commit of a refresh
  (`api/publications.py:286`) is treated as one before it (`:356`): the record of what
  was read stays behind the rows of the view, and the next incremental refresh appends
  them again (compare "so it can never append duplicates",
  `src/data/substrate-data/docs/OPERATIONS.md:89`). `MCPublicationsViews` has crashes
  and a compute that does not answer, but no such error.
- *A replay after an expiry.* With `retain_last = 1` an expiry between a commit
  and its replay forgets the write id, and the files are committed again
  (`tables/iceberg.py:341`); with `retain_last = 2` it takes one overwrite in between,
  which makes two snapshots (`:354`). `MCPublications` retains three, the default, which
  its one overwrite does not exhaust; two overwrites would. `ShortQueueKeepsContents`
  (section 5) says how many are enough.

Each property has a mutation: a definition next to the one it mutates, named for
the mistake it makes (`SuspendBlindly`, `ResumeAny`, `CommitAgain`, ...), under
which TLC finds the property violated. The mutations are part of no
specification.

## 4. Fairness

`RunTree!Fairness`: no run stays pending for ever, because workers poll for ever
(`Worker._poll`) and no bound on capacity is modelled; and a run that is
executed while flagged is cancelled eventually (strong fairness, because the
lease may expire and the run be taken again in between): every heartbeat of every
attempt reports the flag, every third of a lease. What it leaves out: workers
whose heartbeats are always late, and workers that never resolve the agent.

`DurableRun!Fairness`: weak fairness of leasing, of timers, of the steps of each
attempt, of deadlines, and of the expiry of a lease *whose attempt is gone*.
Nothing forces a lease to expire under a live attempt, a signal to arrive or the
store to fail, and expiries and failures are finite in number by the bounds: with
unboundedly many crashes no run need end.

`ToolBatch!Fairness`: the same for leasing, the retry timer, dead attempts'
leases, and that some attempt's tasks step; and weak fairness of answering: a
request that `pending_approvals` lists gets an answer some day. That is an
assumption about people, and `TurnEnds` says what it is needed for.

`ComputeJobs!Fairness`: the threads that can go on do (weak fairness of the
controller's steps and of each job's followers); the scheduler gets the lock
between requests, and a job that stays queued is past its deadline when a tick
looks at it (strong fairness, because a request may take the lock in between).
Nothing is assumed of the worker, which may never answer: an attempt has a
deadline. `JobEnds` therefore does not depend on anything the worker does.

`Publications!Fairness`: the publishing loop goes on, and batch jobs end, which is
`JobEnds` of `ComputeJobs`.

`MCChannels`, `MCRunTree`, `MCMailbox`, `MCDurableRunEffects` and `MCPublications` check
safety only.

## 5. Proofs

Each module of proofs EXTENDS the module it is about. Everything below is proved
for every value of the constants, from the assumptions the module itself states of
them. Nothing else is assumed, except by theorems of `PublicationsProofs`, whose
statements name a condition on who asks for what or on what may fail;
`RememberedContents`, `ContentsWithRetention`, `ShortQueueKeepsContents`,
`TableKeepsContents`, part of `TableKeepsContentsWhen`, and `ViewHasNoDuplicates` are
about the behaviours that meet one.

| module | theorem | property |
|---|---|---|
| `RunTreeProofs` | `TypeCorrect`, `WakeupsAreNotLost`, `ChildrenReportOnce`, `OrphansAreStopped`, `CancelIsNotSleptThrough` | `TypeOK`, `NoLostWakeup`, `ReportedOnce`, `OrphansAreStopping`, `FlaggedNeverSleeps` |
| `SupervisionProofs` | `RuntimeSupervises` | `Supervised`: `RunTree` implements `Supervision` |
| `MailboxProofs` | `MailboxKeepsRuns` | `MailSpec => Spec`: `Mailbox` implements `RunTree` |
| | `MailboxIsTyped`, `AckedStaysAcked`, `AgentsHaveOneReader` | `MailTypeOK`, `AckedNeverBack`, `OneReader` |
| | `MailKeepsItsReader`, `MessagesAreKept` | the action properties `MailHasReader`, `NothingVanishes` |
| `DurableRunProofs` | `DurableRunIsTyped`, `NeverExecutedTwice`, `OneResult`, `CompletedRunsAreWhole` | `TypeOK`, `NeverTwice`, `SameResult`, `CompletedIsWhole` |
| `ToolBatchProofs` | `ToolBatchIsTyped`, `ToolsRunOnce`, `ToolsObeyDecisions`, `ResultsAreToldOnce` | `TypeOK`, `RunsOnce`, `HeldToDecision`, `ToldOnce` |
| `ComputeJobsProofs` | `ComputeJobsIsTyped`, `RunningJobsAreFollowed`, `LimitsHold`, `DetachedStaysIdle` | `TypeOK`, `RunningIsFollowed`, `WithinLimits`, and its conjunct `DetachedIsIdle` |
| | `QueueKeepsContract` | `KeepsContract`: `ComputeJobs` implements `JobContract` |
| `ChannelsProofs` | `ChannelsIsTyped`, `ConversationsEnd`, `MembersTakeTurns`, `DeletedIsErased`, `SilenceHasANotice`, `MentionsAreKept` | `TypeOK`, `AgentsFallSilent`, `NeverRepeatsItself`, `ErasedEverywhere`, `SilenceIsExplained`, `MentionIsKept` |
| `PublicationsProofs` | `PublicationsAreTyped`, `PublicationsAreConsistent` | `TypeOK`, and `TInv` below |
| | `RememberedContents` | `RowsOnce`, `NoDanglingFile`, under `[]Remembers` |
| | `ContentsWithoutExpiry` | the same, if no request expires snapshots |
| | `ContentsWithoutCrash` | the same, if the process does not crash |
| | `NewestAreKept` | `NewestKept` below: the retention policy, over any history |
| | `ContentsWithRetention` | the same, under `[]Recent`, with crashes and expiries together |
| | `TableKeepsContents` | `KeepsContents`: `Publications` implements `TableContents`, under `[]Remembers` |
| | `TableKeepsContentsWhen` | the same, if nothing is expired or the process does not crash; and under `[]Recent` |
| | `ShortQueueKeepsContents` | `RowsOnce`, `NoDanglingFile`, `KeepsContents`, under `[]Short`: two snapshots are retained for each publication that waits for its commit, one for the last |
| | `ReportedIsThere` | `SucceededIsThere`, if no import is completed twice |
| | `ViewHasNoDuplicates` | `NoDuplicates`, under `[](Remembers /\ OneRefresh)`, if no error comes after a commit |
| | `OneAtATimeNoDuplicates` | the same, if requests are served one at a time, and nothing is expired or the process does not crash |

Each inductive invariant (`Inv` of `RunTreeProofs`, `MInv` of `MailboxProofs`,
`TInv`, `PInv`, `SInv` and `VInv` of `PublicationsProofs`, `IInv` of the others) was model-checked on the instances of the runs before it was
proved. What each adds to the properties, and why they need it:

*Runs.* A run that exists only has a parent that exists (`ParentsExist`: a new
child is not a parent, and cannot already have reported), a report is buffered only
for a run that is a child of the receiver and has ended (`ReportsAreReal`: otherwise
a spawn could find its report already there), and the buffer of a run that has ended
is empty (`EndedAreDeaf`). The proof is by helper: each transaction helper keeps the
type and each part of the invariant under what it needs, and an action cites the
helpers it composes. The delicate one is `EndRuns`, which changes many runs at once.
That its set is closed gives that every live child of a run that ends is in it or is
flagged, whence `OrphansAreStopping`; a parent's buffer gains one report exactly for
its children in the set, whence `ReportedOnce`. For the refinement, `Alike` states
that a parent sees no difference between two tables, and `EndRuns` is shown to be
one step of the contract whatever number of runs it ends; a whole poll of a worker,
which wakes, fails and claims runs, is therefore one step or none.

*Messages.* Every step of `Mailbox` is a step of `RunTree` or leaves the runs alone,
so the invariant of the runs is at hand. Each action is put into one of two forms: runs
only drop out, as failed or cancelled (`Drops`), or one run comes for an agent and
every active run of the others stays (`ReaderComes`). A run that comes as delivered
was let in because no other run of the agent was active or is left, which is
`OneReader`; in the second form the new run reads what is left, in the first one the
last reader failed or was cancelled, which is `MailHasReader`. The invariant needs
no more than that runs exist exactly when they have an agent: a new run was nobody's.

*The journal.* An attempt acts on what it read long ago, so the invariant says what
its reading is still worth. A result stays what it was; the attempt that holds the
lease has read everything the journal says of the steps ahead of it; and a step that
is not safe to run twice is in the hands of one attempt at most, whose intent nobody
else can take out of the journal (one licence). Leases are charged: to the first
attempt, to the retries, the expiries, the mails and the waits that were answered,
so their number stays within `MaxLease`.

*A batch of tools.* The same for each call, on its own path of the journal: a call is
held by the attempt that recorded its intent, until the outcome is recorded or the
intent is taken back. The name of a request and the decision claimed under it are the
same for all attempts, although two may ask for it at once: `log_once` and `consume`
each let one win. Leases are charged to the calls that somebody has answered, because
no attempt goes to sleep on such a call a second time.

*The job queue.* Updates of the job table name a job and nothing else. The queue is
safe because each running job is in the hands of one party: the thread that follows
it, the list of threads that failed, or the update its controller has under way; and
because whoever leads, works or follows holds the lock of the election. The
refinement maps `status` to `Status`, where queued and running are the contract's
pending.

*A channel.* The depth of a message is at least the number of messages members have
written up to it without a person among them (`DepthsFit`): the breaker tests the depth
and the property counts messages. A member's own messages are behind its cursor
(`CursorsFit`) and the answer it has ready follows words of others that it has read
(`RunsFit`), so it cannot answer itself. For a member that was noticed, there is a
notice since which nothing woke it (`NoticesFit`).

*Publications, who does what.* `TInv` says that each job is in one hand: that of a
publication, of the handler about to store one, or of the publisher; that a publication
is of a job of its kind; and that the publisher is at a pending publication and does what
its kind calls for.

*Publications, what is in the table.* Expiries and rewrites plan on one table and take
effect on another, so `PInv` says what a plan is still worth: a file has the rows its job
wrote and knows the snapshot that registered it (`FilesFit`), a snapshot is that of one
publication of this table (`SnapsFit`), a rewrite has exactly the rows of the files it
replaces (`RewritesFit`), and what is to be deleted is in no snapshot that is kept and in
no file that a later commit could bring back (`DoomFits`). A commit may be replayed after
a crash; that it adds nothing then rests on the write id, which is looked for among the
snapshots that are kept. `Remembers` is that condition: the snapshot of a publication
that may be committed again has not been expired. It does not always hold (see "a replay
after an expiry" above), so `RememberedContents` takes it as a condition, and three
theorems say when it is met: nothing is ever expired (`KeepsAll`: every snapshot is
kept), or the process does not crash (`Fresh`: what may be committed again has not been
committed yet, because only a crash takes the publisher away between the commit and the
record), or the snapshots that are retained reach back far enough (`Recent`). For the last,
`NewestKept` is an invariant of its own: the newest `retain_last` snapshots of the
table are kept. An expiry counts the snapshots that earlier expiries have left, of which
there may be fewer than it is to retain; that none of the newest goes is then a matter
of counting (`ExpiryKeeps`). `Recent` is then a bound on the publisher
and not on expiries: what may be committed again is among the newest `retain_last`
snapshots.

*Publications, how many snapshots have to be retained.* `ShortQueueKeepsContents` puts
the length of a queue in the place of that bound. A pass of the publisher takes what is
pending in the order of its creation, so a publication that has been committed and not
settled comes up in the pass under way before anything younger does (`Queued`), and until
it has come up only older ones are committed (`Ahead`), in however many passes. A commit
makes one snapshot or, if it is an overwrite, two. The snapshots since the
publication's last one and two for each of those that may still come before it is
settled are together fewer than `retain_last` (`Few`): when it is committed there are
none of the former, and of the latter two for each of the others waiting at most; then
each commit moves one or two to the former and takes two from the latter.
Publications that are created later queue up behind it. So a table for which never
more than (`retain_last` + 1) / 2 ingests and rewrites wait keeps its contents through
crashes and expiries together: two with the default of 3, one with `retain_last = 1`
or 2 (`maintenance.py:70` allows them).

*Publications, what a reader sees.* The refinement follows from the same invariant.
The rows of the table are those of the imports since the last overwrite, which depends
on the snapshots alone (`SeesSince`, from `RowsOnce`): a step that leaves the snapshots
as they are is not seen (`SameSeen`), and neither is a commit that finds its write id
or is a rewrite. A commit that adds a snapshot of an import adds its rows or replaces
the others by them, and that import had not come in before (`WriteSeen`), which is where
`Remembers` is needed.

*Publications, what has become of an import.* A table that is gone is accounted for
(`Lost`): its owner has dropped it, or the import that created it has failed for good,
with nothing of it left that could report success later (`FailedForGood`). A
publication that was committed stays in its table as long as that is the one there is
(`StillThere`). Both need that an import creates its table before it ingests, and settles
what it does first first (`InOrder`), and that a request of an import with a publication
is over (`Asked`). The last is where `CompletedOnce` is needed: two `:complete` requests
of one import may both get past the check (see "rows committed twice"), and one of them
could turn a failed import into one that is under way again.

*Publications, what the view has of its source.* A refresh looks at its source three
times: at what the view says it was read from, at what was appended since, and at the
snapshot it plans on, which is recorded only when the refresh is settled. `VInv` says
what each look is still worth. `Known(rows, src)`: these rows were read from the source,
no later than its snapshot `src`; a row that was in the source is not written to it a
second time, so what is known stays known (`KnownStays`, which is where `Remembers` is
needed), and what was appended after `src` is not among the rows (`FoundIsNew`). The
rows of the view are known as of what the view says, or of what the refresh says that
has been committed and not been settled (`SinceFits`); what a handler or a publication
is about to add is known, and new to the view unless it replaces it (`ToAddFits`). An
append is always of an import (`OpsFit`), so that the rows of an appended file are its
own and not those of files it replaced. That nobody else moves the view in between
needs that a refresh that has begun and has not been settled keeps others from beginning
(`OneBusy`), that its publication is open until the refresh is settled and is settled in
its order (`RefreshesFit`, `InTurn`), and that one which is settled again after a crash
changes nothing (`ReplaysFit`). The two conditions are those of the issues "rows
committed twice" (`OneRefresh`) and "a refresh committed and reported as failed" (no
`"error"` in `Faults`); without either, TLC finds a row twice in the view as soon as
there are three refreshes. That requests are
served one at a time gives the first, and the theorems before give `Remembers`.

Only model-checked:
- liveness (`CancelledRunEnds`, `RunEnds`, `TurnEnds`, `JobEnds`, `Settles`): fairness
  and ENABLED are out of the prover's reach;
- `ComputeTakeover`, whose one run states what does not hold.

Where a run's constants go beyond the condition of a theorem, the run shows what the
theorem does not say: `MCPublications` has crashes together with expiries, for which
`RowsOnce`, `NoDanglingFile` and `KeepsContents` are proved only of the behaviours with
`Recent` or with `Short`. On that instance TLC finds that every behaviour is one of the
former; with `retain_last = 2` it is not so.

## 6. Plan

Done: `Supervision`, `RunTree`, `Mailbox`, `DurableRun`, `JobContract`, `ComputeJobs`,
`ComputeTakeover`, `IcebergTable`, `Publications`, `Channels`, `ToolBatch`, and the
proofs of section 5.

Next, extending the model:

1. `PgLease`: the store on PostgreSQL, statement by statement, for the
   transactions that do not lock the run they write (`lease` against `commit` and
   against `request_cancel`, two claims of one inbox), refining what `RunTree`
   takes as one step or showing where it does not.
2. `WorkerSlots`: one worker's tasks, tokens and stop reasons, by run id, under
   overlapping leases of one run.
3. `Budget`: spawn budgets, headcount, depth and spend over a tree.
4. `InferencePool`: the queue of model servers; `Library`: the ingestion of
   documents.
5. Members of a channel that come and go; the triggers and streams of
   substrate-cloud.

## 7. Not modelled

In the runtime: costs and accounts, priorities, thread single flight, ephemeral
entries, tailing, follow graphs; the interleaving of statements inside a
transaction on PostgreSQL (what SQLite promises, one writer and durable commits,
is assumed); approval handlers that wait in memory. In the data platform:
pipelines, removal of orphaned files, schema evolution, grants, the file service,
SQL planning, and what batch jobs compute.

Not modelled because there is little control of their own in them, and much data,
wording or I/O: prompts and the content of messages and tool results, providers
and adapters, retrieval and documents, HTTP routes, user interfaces, evaluations,
telemetry, the services that serve models, generated contracts, charts and build
files. They are most of the repository by lines. Agent programs are sequences of
effects and waits.
