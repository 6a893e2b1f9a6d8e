# A TLA+ verification of the kir-ai inference server

kir-ai serves chat and text completions over HTTP from one local model. Requests
share a small number of generation slots, run on blocking worker threads, can be
cancelled by an operator or abandoned by their client, and leave state behind in
caches and on disk. This directory models the concurrent parts of that server,
model-checks them with TLC on small instances and proves the central invariants
with TLAPS for every number of requests and every limit.

Paths below are relative to `src/crates/`.

## The system

| Part | Code | State | Operations |
| --- | --- | --- | --- |
| Model scheduler | `llm-server/src/engine/scheduler.rs` | two ticket queues, two active counters, burst counter, outcome counters, a `Notify` | acquire, enqueue, admit, time out, yield between prefill chunks, move to decode, drop |
| Request lifecycle | `llm-server/src/engine/{lifecycle,requests,inference,streaming}.rs` | registry of ids, permit handles, stall deadline, terminal outcome | register, cancel, start, stream, finish, disconnect, unregister |
| Native worker | `llm-native-runtime/src/native_text/{driver,streaming}.rs` | position in the generation, one-slot channel | prefill chunk, yield, decode a token, complete, fail |
| Rate limit | `llm-server/src/engine/rate_limit.rs` | a window per client | acquire, prune |
| Admin | `llm-server/src/engine/admin.rs` | usage cache | cancel, scan, invalidate |
| Semantic runtime | `llm-runtime` | text so far, withheld tail | push a chunk, detect a stop, finish |
| KV block pool | `llm-kv-cache` | blocks, reference counts, sessions, prefixes | append, attach, copy on write, evict |
| Prefix cache and disk tier | `llm-native-runtime/src/native_text/{prefix_cache,disk_cache}*` | entries, LRU order, bytes; writer queue, index | lookup, store, evict, recover |
| Device mirrors | `llm-native-runtime/src/kv_sync.rs` | revision and counts of the last copy | plan a copy |
| Model store | `llm-hub` | staging, snapshots, quarantine, locks | download, promote, verify, prune |
| MLX backend | `llm-engine/src/mlx*` | line buffer, pending event | read, parse, finish |

How they meet: a handler registers its request under its id, acquires a slot from
the scheduler, calls the runtime and answers. For a stream the permit is put in a
shared cell (`SharedSchedulerPermit`); the worker holds the second handle and
takes the permit out of the cell whenever it yields its slot between two prefill
chunks. The cancellation token is read by the scheduler, the stream and the
worker; an operator, the stall deadline and the drop of the runtime's stream
cancel it. The worker outlives the handler.

What is hard here, and what the properties are aimed at: a wake-up that falls
between a look at the queue and the wait; timeout, cancellation and admission that
are ready together; the permit that is out of its cell when somebody marks its
outcome; an id that is used again; a cancellation acknowledged while the answer is
being finished; a client that leaves at any point. `PROJECT.json` lists the
hazards at their lines, including those of parts that are not modelled yet.

## The modules

- `AdmissionGate` is the abstract specification of the scheduler: a set of
  holders and a set of waiters, within their limits, where nobody takes a slot
  past the waiting ones without waiting.
- `Scheduler` models `scheduler.rs`. A step is one critical section of the
  mutex, one read of a cancellation token, or one `notify_waiters`. The code
  unlocks before it notifies, so `owes` marks a task between the two. `pc` is the
  place of a request in `acquire`, `permit` its `SchedulerPermit` (the phase it is
  counted under), `ticket` its `QueuedSchedulerTicket`. `SettleOutcome` stands for
  the marks the callers may put on a permit; `Lifecycle` says which.
- `SchedulerMetrics` adds the admission, starvation and yield counters, and
  history variables that count how often a queued request is passed over.
- `Lifecycle` composes `Scheduler` with the registry, the handler and the worker.
  `http` and `worker` are the places of the two tasks of a request; `handles` says
  who holds the permit; `channel` is the worker's channel of capacity one. Items
  of the channel are kinds (prefill progress, withheld text, text, complete, error,
  cancelled), since only their kind decides what the stream does. The worker reads
  its token before a send and not while it waits in one, so `outgoing` holds the item
  of a worker that waits (`sending`) until there is room or the receiver is gone.
  Every step of the server is a step of `Scheduler` or leaves its variables alone.
- `TextStream` models the stop sequences of `llm-runtime`: the detector that looks
  only at the end of the text, the length that is safe to send, and the end of the
  completion stream and of the chat stream without tool markup. A text is its
  sequence of UTF-8 bytes, because the code cuts at byte indices.
- `SchedulerProofs` holds the theorems and their lemmas.
- `MCScheduler`, `MCSchedulerMetrics`, `MCLifecycle` and `MCTextStream` give the constants values.

External behaviour is modelled from its use: `notify_waiters` wakes exactly the
futures that exist at the call, and a `CancellationToken` is a flag that is set
once. In the code the future exists from the call of `notified()`, before the look
at the queue: the order is `RegisterNotified`, `try_admit_queued`, `Await`, and a
notification between any two of them counts.

Definitions whose name is another definition's with a suffix
(`finish_active_AsPrefill`) are mutants: the code with a plausible mistake. For
every property one of them is known to violate it.

## The runs

| Run | Instance | What it shows |
| --- | --- | --- |
| `scheduler_serial` | 3 requests, one of each kind the server admits, 1 slot, queue of 2 with a timeout, burst 1, one chunk boundary, one request cancelled | queues are the tickets of those in the loop (`TicketsQueued`); every outcome is counted once (`CountedOnce`); a waiter at the front sleeps only while somebody holds a slot or owes a notification (`NoLostWakeup`); a decode is never passed by a younger prefill or a newcomer (`DecodeNotOvertaken`) |
| `scheduler_parallel` | the same with 2 slots, nobody cancels, fair | counters are the permits held (`SlotsCounted`); every queued request leaves the queue (`QueuedSettles`); the scheduler implements `AdmissionGate` (`ImplementsGate`) |
| `scheduler_overtaking` | 2 prefills, 2 decodes, 1 slot, burst 1, symmetric | a queued request is passed over at most once, plus once for every burst of older prefills (`OvertakingBounded`) |
| `yield_metric` | violation | a yield counted as one to decode that was not (finding 1) |
| `lifecycle_stream` | 2 streams, 1 slot, one of them cancelled, stalled, disconnected | a worker computes only while its request holds a slot (`NoDetachedJob`); a slot lives no longer than the last handle of it, and nothing of a request is left when both its tasks have ended (`SlotFollowsHandles`); handler and permit agree on the phase (`PhasesAgree`); a request is recorded under one metric (`RecordedOnce`) |
| `lifecycle_shared_id` | a stream and a plain request with one id, a queue timeout, both disturbed, fair | an entry has one owner (`EntriesOwned`); an acknowledged cancellation is not answered with success (`CancelHonoured`), and it ends handler and worker and gives back slot and id (`CancelReleases`) |
| `cancelled_counted` | violation | a cancelled stream counted as completed (finding 2) |
| `completed_counted` | violation | an abandoned request counted as completed (finding 3) |
| `detached_job` | violation | a worker without a slot after a plain request's client left (finding 4) |
| `stop_sequences` | every text of up to 5 characters, one of two bytes, every cut, 9 stop lists | the detector agrees with a full scan (`DetectorExact`); nothing sent must be taken back, whatever comes later (`NothingToTakeBack`); no chunk and no search begins inside a character (`CutsBetweenCharacters`); a chat stream delivers the truncated text (`ChatComplete`) |
| `earliest_stop` | violation | a chat stream that sends the beginning of a stop sequence (finding 5) |
| `completion_tail` | violation | a completion stream that loses its last bytes (finding 6) |

With one slot `NoLostWakeup` leaves no slot idle: whoever sleeps at the front sleeps
beside a holder. With several slots it does not say that. `try_admit_queued` notifies
nobody, so when two slots are free and the second waiter looks before the first one
is admitted, it sleeps beside a free slot until a permit or ticket is dropped or a ticket is queued.
`QueuedSettles` shows on two slots that it is not lost.

Bounds. `MaxYields` bounds the chunk boundaries of a request: one suffices for a
yield, a re-admission, its failure and a second life of the permit. `Cancellable`
and `Disturbed` name the requests the environment acts on; the others supply the
contention. Three requests on one slot give a holder, a queue of both classes and
a newcomer, which is what the order of admission depends on; two requests suffice
for the lifecycle, whose properties relate a request to itself or to one other.
The stop lists have sequences of one to four bytes,
so five characters hold one with room on both sides and every overlap with a cut.
Deadlock is not checked: a server whose requests have all ended stops.

Fairness. `FairSpec` of `Scheduler` is weakly fair in the steps of each runnable
task, which is what the tokio runtime gives, and in the drop of a permit, because
a generation is bounded by its token budget. It is not fair in timeouts,
cancellations or arrivals, so `QueuedSettles` does not lean on them.
`LifecycleFairSpec` is weakly fair in the steps of handler and worker, which
includes the polling of a body by a client that stays connected and reads. A
client that does not read keeps its slot, and the stall deadline does not end that:
it is armed after the first text and is polled with the body. No step of the
environment is fair, and a generation need not end by itself there, so
`CancelReleases` rests on the reads of the token alone.

## What is proved

`SchedulerProofs` proves, for any finite set of requests, any classes and phases
that `ClassAssumption` allows, any positive `ConcurrencyLimit` and any
`QueueLimit`:

- `TypeCorrect`: `Spec => []TypeOK`. The counters stay natural numbers.
- `SlotsBounded`: `Spec => []SlotsCounted`. The number of slots in use is the number
  of permits and within the limit. `SlotsCounted` is not inductive: a release is
  right only where the task has a permit. `SlotInv` adds `PermitAt`, which ties the
  permit to the place of the task. The cardinality lemmas `GainPermit`, `LosePermit`
  and `MovePermit` say what one step does to the holders of a phase.
- `OutcomesCounted`: `Spec => []CountedOnce`. `CountInv` adds `OutcomeAt`: a task has
  an outcome from its first admission on, also while it yields, so that a failed
  re-admission counts exactly one.

Each proof has one case per disjunct of `Step`. The assumptions are the ones named
in `Scheduler`; `MaxYields` and `Cancellable` are arbitrary, so they bound only TLC.

Only model-checked: `TicketsQueued`, `NoLostWakeup`, `DecodeNotOvertaken`,
`ImplementsGate`, `OvertakingBounded` and the properties of `Lifecycle` and
`TextStream` (planned as theorems, below), and `QueuedSettles` and `CancelReleases`, since the prover
handles neither fairness nor `ENABLED`.

## Where code and documentation disagree

1. `scheduler_prefill_yields_to_decode` (`yield_metric`). The comparison that
   decides whether a yield went to decode is made in a later critical section than
   the re-admission. With two slots a decode admitted in between is counted.
2. `scheduler_cancelled_requests` (`cancelled_counted`). `mark_cancelled` finds the
   shared cell empty while the worker is re-acquiring. A cancellation that arrives
   after `admit_unless_cancelled` has read the token and before the permit is back
   leaves the outcome at completed.
3. `scheduler_completed_requests` (`completed_counted`). A plain request whose client
   leaves drops its run unmarked, and an unmarked permit counts as completed.
4. "No detached decode job after client disconnect." (`detached_job`). The worker of
   a plain request holds no handle of the permit. The slot is given back at once and
   the worker runs until it next reads its token.
5. "truncates parsed assistant content at the earliest stop sequence"
   (`earliest_stop`). A stream ends at the stop sequence that is complete first. If
   it lies inside a longer one that began earlier, the same answer is cut in
   different places for different pieces: stop sequences `aba` and `b`, answer `aba`,
   are cut at the start when it arrives whole and after `a` when `ab` arrives first.
   `NothingToTakeBack` says that this is the only way: until the stream ends, nothing
   of a stop sequence has been sent.
6. `/v1/completions` streams (`completion_tail`). The withheld tail is given up
   whenever the finish reason is `stop`, also when the model ended by itself and no
   stop sequence occurred. The last bytes of the answer are lost. The chat stream
   asks whether a stop sequence was found.

## What is not modelled, and the plan

Not planned: tokenizer, chat templates, tool parser, sampler, tensors, Metal
kernels, model configuration, API types, benchmarks, start-up. They are pure
functions over text or floating-point data, or run before the server has state;
`PROJECT.json` gives the reason for each. `finish_eof` of the stream is left out of
`Lifecycle`, because the runtime's stream always ends with a completion or an error.

Planned, in this order:

1. `TextStream`, continued: the withholding of tool markup and the deferred modes of
   the chat stream; a proof of `DetectorExact` and `NothingToTakeBack` for all texts.
2. `RateLimiter`: windows per client under clock readings that arrive out of order,
   with pruning and a bounded table.
3. `ModelStore`: pull, promotion, inventory with quarantine, prune plan and the
   usage cache, with crashes between their file operations; the abstract
   specification is a store in which a snapshot is complete or absent.
4. `BlockPool`: reference counts, copy on write, prefix attachment, eviction and
   budget; `StageMirror`: the rows a mirror must copy, as a refinement of a mirror
   that copies everything.
5. `PrefixCache` and `DiskCache`: LRU within a byte budget, the writer queue, the
   index, and a restart.
6. `MlxStream`: the SSE parser over every split of the body.

Theorems to follow: the refinement of `AdmissionGate`, `TicketsQueued` and
`NoLostWakeup` (they share the invariant that ties a queue to the tickets of the
tasks in the loop), `DecodeNotOvertaken` as an action property, and for `Lifecycle`
`EntriesOwned`, `SlotFollowsHandles` and `NoDetachedJob` of streams.
