# PhysicsNeMo Serve: a TLA+ model of the message pipeline

PhysicsNeMo Serve turns an inference request into a *run* that travels through
Redis Streams from role to role: prefetch, prepare, scheduler, the GPU workers,
postprocess, collect, publish, results. Roles are processes of one engine
(`crates/worker-runtime`), all of them over one queue library
(`crates/scicomp-rq`). This directory models that pipeline from the inside out:
the stream with its consumer group, the engine that every role runs on, and the
collect role, where the children of a fanout parent meet again.

## 1. Inventory

| Part | State | Operations | What makes it hard |
|---|---|---|---|
| scicomp-rq (`operations.rs`, `lua.rs`) | stream, group cursor, pending entries with owner and idle time | enqueue, read, reclaim, renew lease, ack, handoff, forward_many | stale owners act on entries already taken over; the scripts are the only fence |
| Redis transport (`transport/redis.rs`) | finalization keys, failure counts, run hash | guarded handoff, mark_request_failed, failure counters | a reply lost after the script took effect |
| Engine (`engine.rs`, `retry_dlq.rs`) | loop position, batch, heartbeat tasks, guarded-handoff tracker, retry counts | reclaim, poll, dispatch, cancel, ack, retry, DLQ | heartbeat against handler; exit between any two calls; counts in two places |
| Collect (`roles/collect.rs`, `parent_run_state.rs`) | group metadata, results, seen set, finalization key with token and TTL, terminal key, run stage | append, progress, claim, load, handoff+commit, mark, discard, release | claim expires under a live finalizer; two-command loads; cleanup by others |
| Fanout (`scheduler/fanout.rs`) | group creation, children | init_group, forward_many | init_group is three commands and may be run by a stale scheduler |
| Scheduler (`scheduler/mod.rs`, `queue.rs`, `parent_slots.rs`) | in-process priority queue, parent slots | enqueue, reserve, dispatch, roll back, release | reservation outlives the process that made it; releases delivered twice |
| GPU reservation (`reservation.rs`, `reserved_memory.rs`, `discovery.rs`) | reserved memory per GPU in Redis, pool snapshot in process | try_reserve, release, sync | the two drift apart |
| Batches (`batch.rs`) | none | key, memory, wait policy | arithmetic at limits |
| Publish, results (`publish.rs`, `results.rs`) | upload claim, publication status, run hash | claim, renew, complete, fail, persist | status written before the claim; unconditional overwrites |
| Inference worker (`scripts/inference_worker.py`) | in-flight jobs | read, execute, complete, release | no lease renewal |
| Prefetch, prepare, postprocess | files | handler, then handoff | redelivery |
| Inference server (`crates/inference_server`) | run hash | create run, read results | hash written, enqueue lost |
| Zarr I/O (`crates/e2s_zarr_io`) | buffer pool, in-flight writes | submit, copy, write, flush | back-pressure, shutdown |

`PROJECT.json` lists every component with its status, and the hazards with the
source line where each one bites.

## 2. Modules

    StageContract          what a stage promises
        ^  refined by
    StreamGroup            stream + consumer group + scripts
        ^ EXTENDS   ^ EXTENDS
    WorkerEngine  Collect
    StreamGroupProofs, WorkerEngineProofs, CollectProofs   theorems
    MC*.tla, *.cfg                                         instances for TLC

**StageContract** is the abstract specification: an entry is absent, queued,
pending or settled; settling an entry and the appearance of what stands
downstream for it are one step.

**StreamGroup** models one input stream. Entries are numbered `1..MaxLen` in
stream order; `pel[m]` is the owner of a pending entry or `None`; `idle` holds
the pending entries whose idle time reached `reclaim_idle_ms`; `out[m][d]`
counts the entries standing in destination `d` (next stage, DLQ) that were made
from `m`; `acked` holds those removed by a plain XACK. Each action is one Redis
command or script: `ReadMessages` is XREADGROUP, `ClaimIdleMessages`
XAUTOCLAIM from `0-0` with COUNT, `ClaimListed` the XPENDING and XCLAIM that
replace it on old servers (the list may be stale when the claim runs; the
engine modules use XAUTOCLAIM only), `HandoffAndAck` `LUA_HANDOFF` with its XDEL
rollback, `ForwardManyFrom` `LUA_FORWARD_MANY`, `GuardedHandoff` the stream side
of `HANDOFF_AND_COMMIT_FINALIZATION_LUA`. `GroupSpec` lets any consumer issue any
operation on any delivered entry: it is the most general client. Left out: the
limit of ten times COUNT on the entries one XAUTOCLAIM scans (with it a reclaim may
return fewer entries, and the next one starts at `0-0` again), entries the parser
drops as malformed, and the abort inside `LUA_FORWARD_MANY` after a partial XACK,
which the checks at its start make unreachable.

**WorkerEngine** adds the processes. `pc[c]` follows `run_with_inputs` and
`dispatch_messages`; `hb[c][m]` is the heartbeat task of each message of the
batch (`on`, `wait` for a guarded handoff that is undecided, `quiet` after its
own commit, `lost`); `guard[c]` is `GuardedHandoffState`. The handler is reduced to
how it may end (`RoleActs`): an ordinary handoff, the guarded one, success,
error, deferral. `attempts` is the Redis hash of failure counts, `local` the
per-process fallback. `Exit` is a crash, a shutdown or an error that ends the
loop; consumer names contain pid and uuid, so a restarted process is a new
consumer. Counters stop at `MaxRetries`, since the code only compares them with it.
A command in flight when its handler is dropped is taken to have been executed
before the drop.

**Collect** adds the group of one parent over the collect stream. `at[c]`
follows `process_message` and `finalize_parent_group` command by command; `fin`
and `owner` are the finalization key (free, claimed with the owner's token,
committed). `HandoffToRunAndCommit` is the script that checks token, pending
entry and consumer, and hands off, acknowledges and commits at once; its reply
may be lost. `StoreFails` is a Redis error at any call, `ClaimExpires` the
claim's TTL, `CancelHandler` the engine dropping a handler whose lease is lost.
A result is the report it came from: `child[m]` is the child that message `m`
reports and `bad` the set of messages that report a failure. Several messages may
report the same child, also with different outcomes: a dispatch to several GPUs
reports once per GPU. The group keeps the first report of a child, while fail_fast
looks at the status of the message at hand, so the two may disagree.
A worker takes one message at a time (`Count = 1`), although collect is configured
with batches of four: a process that works through a batch of four does what four
workers with one message each may do, in one of the orders they may do it.
`persist_publication_skipped` writes only publication fields of the run hash and
is left out. `InitGroup` is a second scheduler that lost its lease on the
parent's message and finishes `init_group` from wherever it stood
(`SchedulerAt`).  Redis keys other than the claim do not expire (their TTLs are
24 hours).

## 3. Runs

| Run | Question | Instance |
|---|---|---|
| stream_group | Do the scripts alone keep handoff exact, whatever clients do? | 2 consumers, 4 entries, reads of 2 |
| engine_stale | Is every message settled one way, with late heartbeats, an exit, Redis errors and all handler outcomes? | 2 processes, 1 message, 2 retries |
| engine_live | Are messages waiting in a batch protected by their heartbeats, and is every message eventually settled? | 2 processes (one may exit), batch of 2, 2 retries, timely heartbeats |
| engine_dlq_crash | Is the run of a dead-lettered message always reported failed? *No* | 2 processes, 1 message |
| collect_all, collect_fail_fast | One handoff, a complete aggregate, no lost report, no regress of the stage | 2 workers, 2 children, 3 reports (one repeated, the second a failure), 1 Redis fault, the DLQ, claims and leases expiring at any time |
| collect_delayed | Are acknowledged reports kept with a second scheduler entering init_group late? | 2 workers, 2 reports |
| collect_live | Is the parent eventually handed off? | 2 workers (one may exit), 3 reports, 1 fault |
| collect_stale_init | Single finalizer with a late init_group? *No* | fail_fast, 2 failed children |
| collect_repeated | Does an aggregate cut short by fail_fast show the failure? *No* | 2 children, reports succeeded, failed, succeeded |
| collect_failure_dlq | Is there always a report left to finalize a fail_fast parent? *No* | 2 reports, the first a failure, 1 fault |
| collect_stale_reset | Are collected results kept when init_group stops between SETNX and DEL? *No* | 2 workers, 2 reports |

*Bounds.* `MaxLen` bounds the entries, `MaxFaults` the Redis errors, `MaxRetries` the
retry limit. Two consumers are enough for a stale owner and a new one, which is
what every race here is between; one duplicate report is enough for a child to
be counted twice; a batch of two is enough for one message to wait behind
another. The theorems remove these bounds for the safety properties they cover.
With message 2 the failure report, the six ways to assign three messages to two
children include a child reported succeeded then failed and one reported failed
then succeeded. Workers are symmetric where none is singled out as mortal, and
children are: `Init` allows every assignment.
`Dlq = TRUE` lets any failed handling be the last one the retry limit allows;
collect_live has `Dlq = FALSE`, which stands for `max_retries` above its one fault.

*Deadlock* is checked for the group and the engine, whose loops never end. The
collect runs switch it off: once every report is settled nothing is left to do.

*Fairness.* A process keeps running its loop or exits (tokio schedules its
tasks); heartbeats keep ticking; leases and claims expire (wall-clock time);
children eventually report. A handler is assumed to return: nothing in the
engine bounds it, and a hung handler with a live heartbeat would keep its
message for ever. `TimelyHeartbeats` says that a renewal lands before the lease
ends (the interval is at most a third of it); only engine_live and
engine_dlq_crash assume it. `Late = FALSE` in collect_live says the same of the
claim, whose TTL is 600 s. Deferral for ever is left out of engine_live: a role
that always defers never settles, by design.

## 4. Findings

* **engine_dlq_crash.** Moving a message to the DLQ and marking its run failed
  are two calls (`engine.rs:529-534`). An exit between them leaves a run that is
  never reported failed: no message is left to retry.
* **collect_stale_init.** `init_group` decides by the metadata key alone. Run by
  a stale scheduler after the parent was finalized and its group discarded, it
  deletes the *committed* finalization key; a report whose handler had already
  passed the terminal check then finalizes the parent again.
* **collect_stale_reset.** `init_group` deletes results in a command after the
  SETNX. Delayed between the two, it wipes results of children that a second
  scheduler forwarded meanwhile; their reports are acknowledged, so the parent
  waits for ever.

* **collect_repeated.** Collect keeps a child's first result but decides fail_fast
  by the message at hand (`collect.rs:978-990`). A child reported succeeded and
  then failed finalizes the parent with the results so far; `build_parent_result`
  finds no failure among them and reports an incomplete parent as succeeded.
  `CollectShowsFailure` proves that this needs reports that disagree.
* **collect_failure_dlq.** While a failure report is being finalized the group is
  closed and siblings' reports are acknowledged without being kept. When the
  finalization fails at the retry limit the failure report is dead-lettered, and
  no message is left to finalize the parent. `ReportsKept` states what does hold:
  the failure report is pending or in the DLQ, where an operator finds it.

collect_stale_init and collect_stale_reset need a scheduler that outlives its lease
in the middle of `expand_fanout_parent`, as a process paused longer than its lease
does. Without one (`delayed = "done"`) the properties are proved.

## 5. Proofs

The proofs hold for every set of consumers, every `MaxLen`, `Count`, `MaxRetries`,
`MaxFaults`, set of children and value of the switches, under the named
assumptions of the modules (`StreamGroupAssumption`, `WorkerEngineAssumption`,
`CollectAssumption`: positive bounds, `None` no consumer, finitely many
children, one message at a time in collect).

*StreamGroupProofs.* `GroupInv` is the type invariant with `ExactlyOnceHandoff`
and `NothingLost`. Neither of the two is inductive alone: a script may add an
entry because a pending source has none yet, and that it has none is what
`NothingLost` records. `ForwardKeepsInv` treats the common core of handoff,
forward_many and guarded handoff once. `StepShape` reduces every step to one of
three shapes, from which `SettlementFinal` and the refinement
`GroupImplementsContract` follow.

*WorkerEngineProofs.* `EngineInv` adds that a busy process works on a delivered
message (`Located`); with it every engine step is a group step
(`EngineImplementsGroup`), so the group's theorems carry over. `EndInv` relates
places in the loop to history (a process at `ack` has a success, one at `mark` has
its message in the DLQ) and yields `EngineSettlesOneWay`, `EngineAcksOnlySuccess`
and `EngineFailsOnlyDlq`, with late heartbeats and failing Redis calls.

*CollectProofs.* `Base` is types plus "a worker in the handler holds a delivered
message". `FinInv` has three parts. `StoreInv`: the key is committed exactly when
the parent was handed off; the group is gone, the parent terminal or its stage
moved on only after that; a claimed key means the results justify finalizing; no
child is in the results twice (so that as many results as children are all of
them, `ResultsCount`).
`PlaceInv`: what a worker's place entitles it to, as long as the key is not
committed. `ReportInv`: what was acknowledged is kept. The claim may leave a
worker at any point, so `PlaceInv` never says that a finalizer owns the claim;
the script checks that itself (`FinCommit`). The step proof splits into the
commit, after it (only cleanup), and before it (results only grow). From `FinInv`
follow single finalizer, complete aggregate, terminal after handoff, kept
reports and no regress of the stage, all for runs without a second scheduler in
init_group. `CollectKeepsReports` rests, under fail_fast, on no failure report being
acknowledged before the commit. `CollectShowsFailure` adds the
assumption that the reports of a child agree (`ReportsAgree`).

*Model-checked only.* Liveness (`EventuallySettled`, `EventuallyFinalized`) is
outside the prover. `DlqOnlyAfterRetries`, `OwnCommitIsNotLoss` and `SingleHandler` are
safety properties still to be proved; the last needs the invariant that whoever
handles a message owns its lease.

## 6. Plan

1. Done: group, engine, collect, their runs and proofs.
2. `Scheduler`: queue, parent slots, reservation in Redis and in process,
   dispatch with rollback, releases, scheduler crash; then one module composing
   it with the inference worker's executions and releases. Properties: memory
   reserved is never negative nor above capacity, a slot is released once per
   dispatch, nothing is dispatched twice, queued requests are not lost.
3. `Publish` and `RunStatus`: claim, renewal, status written by several roles.
4. Batch memory, wait policy and queue ranking as functions against reference
   definitions.
5. Zarr coordinator and buffer pool: accounting, back-pressure, shutdown.
6. Run creation in the inference server.
7. Proofs of `OwnCommitIsNotLoss`, `SingleHandler` and `DlqOnlyAfterRetries`, and of
   the scheduler's accounting.

Not modelled at all: configuration, plugin registry, OpenAPI, installers, file
formats, model execution and observability: sequential code or pure I/O with
no protocol state.
