# A TLA+ model of TinyQuanta

TinyQuanta (TQ) is a server for microsecond-scale requests.  One *dispatcher*
thread polls the NIC and spreads packets over per-worker rings; each *worker*
thread runs its jobs in coroutines and is forced to switch between them by
probes that a compiler pass has put into the application code.  This directory
models the scheduler, the pass, and the database that the jobs read while they
are preempted; it checks them with TLC on small instances, and proves with TLAPS
what matters most for instances of every size.

## Inventory

| Part | Source | Module | Status |
|---|---|---|---|
| dispatcher thread | `src/tq_server.cpp` `run_server` | `Dispatcher` | modelled |
| worker threads, with and without `-DLAS` | `src/tq_server.cpp` `worker`, `process_rx_mbuf`, `coro` | `Worker` | modelled |
| the two together | shared rings, `curr_sizes` | `TinyQuanta` | modelled |
| promise to a client | (what the above adds up to) | `JobService` | abstract specification |
| rte_ring, NIC TX queue, mempool | DPDK, external | `RteRing`, `Worker` | modelled from use |
| probe placement | `src/CheapPreemptions/src/CheapPreemption.cpp` | `ProbePass` | partly: the graph algorithm, not the reading of LLVM IR |
| the code the pass inserts | same | `LoopProbe`, `ProbedLoop`, `ProbedRun` | modelled |
| mutex wrapper | `src/CheapPreemptions/src/coro_pthread.c` | `Preemption` | modelled |
| preemption runtime | `src/CheapPreemptions/src/ci_lib.c` | `Preemption` | partly: the hook as the server uses it |
| LevelDB as the jobs use it | `src/leveldb/db`, `src/leveldb/util/env_posix.cc` | `Preemption` | partly: reads, versions, compaction |
| dispatcher with return rings (no `NEW_DISPATCHER`) | `src/tq_server.cpp` | - | not modelled: only `DEBUG=y` builds it |
| start-up, packet headers, loaders, scripts | `src/tq_server.cpp`, others | - | not modelled: straight-line I/O |
| RocksDB | `src/RocksDB-TQ` | - | not modelled: its calls in `coro` are commented out |

The build modelled is the Makefile's default one: `NEW_DISPATCHER`, `MSQ`,
`SYNTHETIC` and `NDEBUG`, so the code's `assert`s are not in the program; they
are properties here.  `RAND_DISP` and `POWER_TWO` are values of the constant
`Policy`, the target `tq_server_las` is the value `TRUE` of `LAS`, and
`Preemption` is about the build with `ENABLE_LEVELDB=y`.  `quit` is set only under `RECORD_NUM_PRE`, so the loops never end.

## The modules

**`RteRing`** - a ring of size n holds n - 1 entries; a burst enqueue takes
what fits, a burst dequeue gives what there is.

**`Dispatcher`** - `run_server`.  A packet is the number of its arrival.

| Action | Code |
|---|---|
| `RxBurst` | `rte_eth_rx_burst` and the chunk size; an empty burst changes nothing |
| `Dispatch` | one turn of the loop over the batch: choice of the worker, enqueue, drop of what does not fit, and the decision to check in |
| `CheckIn` | one turn of the check-in loop up to the read of `curr_sizes[w].size` |
| `ReadQuanta` | the read of `curr_sizes[w].sq`, the push on the heap, the end of the round |
| `EnvTake`, `EnvDiscard`, `EnvComplete`, `EnvQuanta` | what a worker may do that the dispatcher can see |

The heap is represented by what it guarantees: its top is any worker that no
other one beats under `operator<`.  `packet_drop_count`, which nothing reads,
is left out.

**`Worker`** - `worker`.  One turn of the loop is `Preempt` or
`Finish`;`Settle`, then `Poll`, then `Accept`/`Discard` per packet of the
burst, then `Flush`.  Whether a job is preempted or finishes, and whether a
packet is valid, is nondeterministic.  `AcceptWithoutBuffer` is the allocation
that fails in a build without asserts: the process dies.  `NicSends` is the
NIC, `EnvOffer` the dispatcher as a worker may see it.  With `LAS` the queue is
a heap ordered by serviced quanta (`NextCoros`), and a job runs for
`NumAssignedQuanta`: until it has had more than the next job, or until the next
poll is due.  With every coroutine busy that number can be 0, which the probe's
test for equality never meets; the job then runs to its end (`LastQuanta`).

**`TinyQuanta`** - every step of both, without their Env actions, over the
same rings and counters.  A step ends where shared memory is touched, so all
interleavings the hardware can produce at that grain are explored (sequentially
consistent; on x86 each shared word has a single writer).

**`JobService`** - the promise: a request waits, then is dropped, rejected or
run, once; one that ran is answered or lost, once.

**`Preemption`** - coroutines that run LevelDB's `Get` and scans, LevelDB's
background thread, and the two mutexes between them.  A step of a coroutine is
the code between two operations on a mutex, or one of them; after any of them a
probe may fire (`Probe`), also inside a critical section.

| Action | Code |
|---|---|
| `Resume`, `Poll`, `Finish` | the worker's loop around its coroutines |
| `LockDb`, `LockWork` | one turn of `__wrap_pthread_mutex_lock`: the mutex, or a yield |
| `RefCurrent` | first section of `DBImpl::Get`, `NewInternalIterator` |
| `Stats`, `Leave` | the later sections: `UpdateStats`, `RecordReadSample`, `MaybeScheduleCompaction`, `Unref` |
| `Schedule` | `PosixEnv::Schedule`, reached with the database's mutex held |
| `BgWait`, `BgPop` | `BackgroundThreadMain` |
| `BgCall` ... `BgFinish`, `BgSchedule` | `BackgroundCall`, `BackgroundCompaction`, `DoCompactionWork`, `LogAndApply`, `RemoveObsoleteFiles`, cut where the mutex is released |
| `BgFail` | any of these failing: `RecordBackgroundError` |

A database as opened may already have a compaction scheduled.  Left out: the
mutexes of the caches, inside which no other one is taken; memtables, since the
server only reads; a second sample of one scan; and when exactly the loop polls,
which is the subject of `Worker`.  `pending_outputs_` is empty whenever
`RemoveObsoleteFiles` runs, because there is one compaction (`OneCompaction`).

**`ProbePass`** - what the pass decides for one function, given as its blocks
with the costs of their instructions, its edges and its loops: `Analyze`, then
the turns of the two loops of `generateInst` (`E2EInstrument`,
`CommitInstrument`), then `MergeEdges`, `CountLoops` (iterations per probe,
cancelled back edges) and `UpdateFuncInfo` (what callers are told).

**`LoopProbe`** - the code inserted into a loop, as functions on the loop's
state: at the entry of the function, at the preheader, on the back edge, at the
exits, and in the clone that short loops of one block run.  **`ProbedLoop`** makes
a state machine of them: a call that enters, repeats and leaves one loop.

**`ProbedRun`** - composes both: the pass instruments a function, the function is
then called again and again, taking any way through it, and the cost since the
last probe is measured.  Costs are the pass's own; what a probe costs is not
counted, and a call of another instrumented function is one instruction.  The
recursion probe is left out because nothing sets `IsRecursiveFunc`.

The `MC*` modules declare symmetry sets and the functions that `probes` runs.

## Runs

| Run | Shows |
|---|---|
| `dispatcher_jsq` | the load estimate is exact up to invalid packets (`EstimateExact`), the total is the sum of the estimates (`TotalIsSum`), a check-in round meets every worker once (`CheckInSeesCurrentVersion`), a packet is dropped only when every worker is believed full (`DropsOnlyUnderFullLoad`), and no packet that was freed is on a ring (`FreedNotQueued`) |
| `dispatcher_power_two` | with `return_size` overflowing, the estimate is still an upper bound (`NeverUnderestimates`) |
| `worker` | array bounds, coroutine bookkeeping, one holder per buffer, conservation of transmit buffers, new jobs first, no stuck response, timely polling, the `sq` counter; every queued packet is answered or rejected (`QueuedIsServed`) |
| `worker_las` | with LAS: no job is served past the next by more than it was assigned (`LeastServedFirst`), a job can be preempted whenever a coroutine is idle (`PreemptibleWhileIdle`), bookkeeping and polling as above; a worker lacks a transmit buffer only after the NIC has refused responses (`DiesOnlyOfRefusals`) |
| `server` | the composed server implements `JobService`, and every receive buffer is in one place; it implements `Dispatcher` and `Worker`, so their Env actions assume nothing that is not so; every request comes to an outcome (`EveryRequestSettled`) |
| `preemption` | mutexes exclude coroutines although they belong to threads (`Exclusion`); counts of versions are exact and no file a read may open is deleted (`ReadsKept`); one compaction at a time (`OneCompaction`); some job always goes on to finish (`JobsFinish`) |
| `probes` | the pass's assertions (`AssertsHold`); a loop's probe executes once in `NumIters` back edges, or once in two intervals for a nested loop of one block with a clone (`LoopSpacing`); the cost between two probes is bounded (`GapBounded`); `MaxUnistDist` is the longest path without a probe (`E2EExact`) |
| `dispatcher_versions` | *violated*: `assert(tmp_w->version_number == cur_version_number)` once the `int` overflows |
| `dispatcher_forced_checkin` | *violated*: the comment "hence force a return pull" |
| `worker_leak` | *violated*: the comment "invalid packet, free the rx_mbuf" |
| `worker_alloc` | *violated*: `assert(tx_mbuf != nullptr)`, after the NIC has refused responses |
| `probes_self_loops` | *violated*: the comment "self-loops will be cloned" (`SelfLoopsProbed`): a nested loop of one block without a clone may never probe |

**Bounds.**  `MaxPackets` bounds the packets that ever arrive, `MaxQuanta` the
preemptions of one job.  Two workers are enough for every comparison the
dispatcher makes; one is enough for `Worker`, whose threads share only a
counter of buffers.  Rings of 4 with bursts of 4 (`dispatcher_jsq`), and rings of
2 with bursts of 3 (`dispatcher_power_two`), make full rings, chunks of which a
part is enqueued, chunks of unequal size and drops happen within the bound on
packets.  `server` has two packets and the policy `"random"`, which allows every
choice that the others make, so that one ring comes to be full while the other
worker is idle; that a chunk is split is left to the dispatcher's runs and to the
theorems.  The dispatcher's runs have one value of serviced quanta, which leaves
every tie open and so allows each choice that the tie-break may make.  `U16` scales 2^16 and `IntMax` scales
`INT_MAX`: small where overflow is the subject, larger than any count reached
where it is not.  `dispatcher_jsq` lies between: seven packets come where `U16` is
4, and the constraints `FewUnread` and `RoundFits` keep to the behaviours in which
no single reading and no round of check-ins reaches `U16`, which is what the
theorems about the same properties suppose.  Coroutines, NIC descriptors and
transmit buffers are few enough that each runs out.

`preemption` has two coroutines on one thread and one on another, so that a
waiter and a holder share a thread in one case and not in the other; a scan and
two gets; one table, `MaxVersion = 2`, enough for a compaction that follows
from the one before it, and `MaxFile = 2`, so that a compaction writes no file, one
or two.  `probes` runs every choice of a few bodies for the
blocks of five shapes: a block, a branch, a loop with a branch in it, two loops in
sequence, and nests with every kind of inner loop; `Trips` lie below, at and
above what an interval holds.

`GapBounded` does not say that a gap is at most the commit interval, because it
is not: the pass never adds what is left of one region to the start of the next.
The bound counts the regions, one interval each (`GapIntervals`).  It excepts
functions with a nested loop of one block that has an induction variable but no
clone: such a loop starts a new interval at every entry, so entered often and
left early it never probes (the run `probes_self_loops`).  `LoopSpacing` says nothing of
these loops either.

`MaxUnistDist` is computed on the graph as `insertProbes` has left it.  A block
with probes of its own has been split there, so a return in it no longer ends the
block that has the cost 0, and `UpdateFuncInfo` passes over it, as the code does.

**Deadlock.**  Checked everywhere but in `worker_las` and `worker_alloc`,
where a failed allocation ends the process.

**Fairness.**  Weak fairness of the dispatcher and of every worker: each is
pinned to a core of its own and no call in their loops blocks.  Nothing is
assumed of the NIC, and nothing of how often a worker chooses to finish a job
beyond `MaxQuanta`: a job that never ends is outside the bound.  In `preemption`
the background thread and every worker are weakly fair and `Poll` is not, since
nothing makes a client send jobs.  There is no fairness of a mutex: a waiter
retries `trylock` and may lose every time, so `JobsFinish` is about some job and
not about each.

## Proofs

The theorems hold for every value of the constants that satisfies the named
assumption of the module: `WorkerAssumption`, `DispatcherAssumption`,
`PreemptionAssumption`, `ServerAssumption`.  A theorem that needs more says so in an `ASSUME` or as a premise.

* `RteRingProofs` - lemmas on the ring operators and on sequences without
  repetition (`NoRepeat`).
* `SumProofs` - sums over finite sets (`SumFunction`): what a sum becomes when
  one term changes, when it is bounded, when two sums are equal.  The induction
  is over the number of elements and is stated for sets of numbers (`AllNats`).
  `CountFacts` gathers what the server's proof uses of cardinalities.
* `DispatcherProofs` - `TypeCorrect` and `EstimateIsUpperBound`:
  `Spec => []TypeOK` and `Spec => []NeverUnderestimates`.
  `NeverUnderestimates` alone is not inductive: a check-in subtracts
  `return_size`, and that is harmless only because `prev_sizes[w]` never runs
  ahead of `curr_size[w]` and the 16-bit remainder of a difference is at most
  the difference.  `IInv` adds this fact, the capacity of the rings, and that
  the check-in loop has not met all workers while it is still running (without
  which `checked` would leave its type).

  `EachWorkerOncePerRound` and `DropsOnlyWhenAllFull` rest on
  `VInv`, which says that in a round the workers met so far carry
  `cur_version_number + 1`, the others `cur_version_number`, and that the
  number of the former is what the loop counter says; outside a round all
  versions are equal.  It also bounds the version by the packets dispatched,
  because every round needs at least one.
  Both theorems assume `MaxPackets <= IntMax`, that is, that versions do not
  overflow (the run `dispatcher_versions` shows what happens when they do);
  the second is about the policy `"jsq"`.  `DropsOnlyWhenAllFull` needs the
  estimate as an upper bound of the ring's length: the ring that came up short
  belongs to a least loaded worker, so no worker is believed to have more room.

  `EstimatesAreExact` and `TotalIsTheSum` hold for any number of packets, under a
  premise about the behaviour that is as weak as the code needs:
  `Spec /\ []FewUnread => []EstimateExact`, where `FewUnread` says that no worker
  has completed `U16` jobs since its counter was last read, and
  `Spec /\ []RoundFits => []TotalIsSum`, where `RoundFits` says that no round returns
  `U16` jobs in all.  The code ensures neither, since packets of a chunk that does
  not fit do not count towards the next check-in; without them
  `EstimateIsUpperBound` still holds.  `EstimateInv` says that what a worker is
  believed to have is what was ever put on its ring (`Handled`, which no step of a
  worker changes) less what its last reading counted; only a check-in needs a
  premise to keep it.
* `WorkerProofs` - the worker's loop.  None of its invariants is inductive alone:
  that `tx_bufs` has room depends on when it was last flushed, that on the flush
  and poll counters, those on what the burst took.  `TurnInv` says for each
  place in the turn what holds there, and that no coroutine is in two places
  (`Placed`); it gives `WorkerBuffersFit`,
  `WorkerCorosPartitioned`, `WorkerNoResponseStuck`, `WorkerIdleCorosPollSoon`
  and `WorkerPreemptibleWhileIdle` at once.  `LasServesLeast` (an action
  property) follows from `TurnInv` and the order of the heap.
  `WorkerNewJobsFirst` needs `NewFirst`: in the deque, the jobs that have not
  run form a prefix.
* `BufferProofs` - where the packets of a worker are.  The invariant `BInv` is
  about every place a packet can be in: each place holds it once (`Once`), the
  places of a worker are apart (`Apart`), so are two workers, and nothing freed,
  leaked or sent is still waiting or running (`Fresh`).  One lemma (`MovesForward`)
  shows that a step which moves packets of one worker onward keeps it, and each
  action is shown to be such a step.  The second part (`FInv`) follows the fate of
  a packet - queued, running, answered, invalid, sent - and says for each action
  which packet it moves from which fate to which.  `PoolProofs` and
  `TinyQuantaProofs` build on this module.
* `PoolProofs` - `WorkerOneHolderPerBuffer`, from `BInv`: the buffers in a
  worker's hands are a sequence without repetition.
  `WorkerTxBuffersAccounted` (the sum over the workers, with the
  lemmas of `SumProofs`), from it `WorkerTypeOK` (the pool is never overdrawn or
  overfull), `WorkerDiesOnlyOfRefusals`, and the action property
  `WorkerSqFollowsQuanta`, a sum over coroutines of which a step changes at most
  one term.  `WorkerDiesOnlyOfRefusals` assumes `PoolCoversSlots`: one buffer
  for each coroutine, each place of `tx_bufs` and each descriptor of every worker.
  The shipped sizes satisfy it (14 workers, 14 coroutines, bursts of 2, 128
  descriptors: 2016 of 8191).
* `PreemptionProofs` - `MutualExclusion` and `CompactionIsOne`.  `Exclusion` with
  the types it needs is inductive (`LockInv`): a coroutine that waits yields
  exactly when its own thread or another one is `__owner`.  `OneCompaction`
  needs in addition that the phases of the background thread are consistent
  (`PhaseInv`: which version it compacts, that there is work to pop).

  `ReadsStayValid`: `Spec => []ReadsKept`.  `ReaderInv` says where
  a coroutine holds a version, `CountInv` that every count is the number of
  holders, and `FileInv` that the files of every live version exist and are not
  in `files_to_delete`, which is what makes deleting without the mutex safe: a
  reader can only take a reference to the current version, which is live.
  `PreemptionTypeOK` follows from all of these: that a count or the queue never
  falls below 0 is what `CountInv` and `PhaseInv` say.  The database as opened may
  have any set of tables, numbered up to 0, and a compaction may write any number of
  files with the next numbers, up to the bound `MaxFile`, which may be any number.

  `ProbesSpaced`, about `ProbedLoop`: a loop with any initial value, step,
  nesting and `NumIters`, entered and left in any order.  What is spaced is `since`,
  the back edges since the loop's last probe, which entering the loop does not
  change.  It is less than `NumIters` for every loop that carries its interval over,
  and less than twice that for a nested loop of one block with a clone, which loses
  the rest of an interval when it is left but is only run for more than `NumIters`
  iterations; nested loops of one block without a clone are excepted.  `Spacing` is
  not inductive; `LoopInv` adds that the distance from the induction variable to the
  threshold (or, outside the loop, `ResidualSteps`) is the number of back edges left
  times the step, so that the test for equality cannot be jumped over.  How much of
  an interval is over for the inserted code is the history variable `used`, and
  `SinceUsed` relates it to `since`.
  Integers are unbounded here; equality holds modulo 2^w as well.  The clone's
  comparison of the range is exact only for ranges that do not overflow.
* `TinyQuantaProofs` - the composed server, for every number of workers, packets
  and buffers, every policy, with and without LAS.

  `ServerImplementsWorker`: `Spec => WorkerSpec`.  `Worker` lets its environment
  offer the next packets to a ring, which takes the first of them.  In the server
  `offered` is `arrived - Len(rx_bufs)`, and `Batch` says that `rx_bufs` holds the
  packets after that one, in order; with `Rings` (no ring is overfull) a chunk of
  which the dispatcher enqueues a part and drops the rest is such an offer.
  Through the instance `WP` the invariants of `BufferProofs` and `WorkerProofs`
  then hold of the server (`ServerInv`).

  `ServerImplementsDispatcher`: `Spec => DispatcherSpec`.  `Dispatcher` knows of a
  worker only how many packets it has taken (`Inflight`), discarded and finished;
  each action of a worker is shown to be one of the steps that `Dispatcher` allows
  it, or none.

  `ServerAccountsForBuffers` (`EveryBufferAccounted`) and `ServerKeepsPromise`
  (`Spec => KeepsPromise`, the refinement of `JobService`).  `Fates` says that a
  packet has one fate, `Drops` that the dropped ones are those offered that no
  worker knows of, and `Board` gives the status of each packet from them.
  Every step is then a step of `JobService` on the packets it moves, or a stutter
  (`Moved`, `PromiseStep`).  The facts on cardinalities that are needed are
  gathered in `Counts` and proved in `Counting`, from `CountFacts`.

  The last three theorems are first derived (`FactsSuffice`) from what they take
  of the workers, which `Facts` says of a state and `Walks` of a worker's step;
  `ServerFacts` then shows both of the server, from `ServerInv`.

Only model-checked: all liveness (`QueuedIsServed`, `EveryRequestSettled`,
`JobsFinish`), which is out of the prover's reach; and the placement of probes
(`AssertsHold`, `E2EExact`, its types) and `GapBounded`, which rest on recursive graph
algorithms.

## Not modelled

Weak memory effects beyond single-writer words, the per-thread caches of the
mempool, timing (a quantum is a step), statistics and logging, the parts marked
so in the inventory.  A preempted job may wait for as long as new jobs keep
coming: the code has no bound, and the liveness runs hold because the packets
of a run are finite.

Nearly all lines below `src/` are the vendored copies of LevelDB and RocksDB.  Of
LevelDB the part that coroutines and the background thread contend for is
modelled; its write path, file formats, tables, caches and tests are not, because
the server never writes and the formats have no state that preemption could
disturb.  RocksDB is not called by any job.  So only a small share of all the lines is
modelled, but most of the scheduler's own: `worker`, `run_server`, the pass's
placement and insertion, and the mutex wrapper.

In the pass, recognising loops and induction variables, the table of library
costs and the manipulation of IR are LLVM's or data.  `ci_enable` and
`ci_disable` are called by nothing.

## Plan

The dispatcher with return rings, the build that the shipped one leaves out.
