------------------------------ MODULE Dispatcher ------------------------------
(***************************************************************************)
(* The dispatcher thread of tq_server.cpp (run_server), built with         *)
(* NEW_DISPATCHER: it polls the NIC, cuts every batch of packets into      *)
(* chunks, gives each chunk to the worker it believes to have the fewest   *)
(* jobs, and, after a batch, checks in on every worker by reading the      *)
(* worker's completion counter.                                            *)
(*                                                                         *)
(* A packet is the number of its arrival.  The dispatcher is one thread;   *)
(* a step ends where it touches memory that a worker also touches.         *)
(* The workers appear only as far as the dispatcher can see them (the Env  *)
(* actions); Worker.tla is what they really do and TinyQuanta.tla puts the *)
(* two together.                                                           *)
(***************************************************************************)
EXTENDS Integers, Sequences, FiniteSets, Functions, RteRing

CONSTANTS
  Workers,            \* NUM_WORKER_THREADS worker threads
  DispatchRingSize,   \* DISPATCH_RING_SIZE, a power of two
  RxQueueBurstSize,   \* RX_QUEUE_BURST_SIZE
  CheckInPeriod,      \* RETURN_RING_CHECKIN_PERIOD
  NumWorkerCoros,     \* NUM_WORKER_COROS
  Policy,             \* "jsq", "random" (RAND_DISP), "power_two" (POWER_TWO)
  U16,                \* 2^16, the range of a uint16_t
  IntMax,             \* INT_MAX, of the version numbers
  ServicedQuanta,     \* values a worker's sq counter may hold
  MaxPackets          \* bound: packets the NIC ever delivers

ASSUME DispatcherAssumption ==
  /\ IsFiniteSet(Workers) /\ Workers # {}
  /\ DispatchRingSize \in Nat /\ DispatchRingSize > 1
  /\ RxQueueBurstSize \in Nat \ {0}
  /\ CheckInPeriod \in Nat \ {0}
  /\ NumWorkerCoros \in Nat \ {0}
  /\ Policy \in {"jsq", "random", "power_two"}
  /\ U16 \in Nat \ {0}
  /\ IntMax \in Nat \ {0}
  /\ ServicedQuanta \subseteq Int
  /\ MaxPackets \in Nat

VARIABLES
  rx_mbuf_dispatch_q,        \* shared: the ring of each worker
  curr_size,                 \* shared: curr_sizes[w].size, written by worker w
  curr_sq,                   \* shared: curr_sizes[w].sq, written by worker w
  arrived,                   \* packets the NIC has delivered so far
  disp_pc,                   \* where the dispatcher is in its loop
  rx_bufs,                   \* the packets of the batch not yet dispatched
  max_dispatch_size,         \* chunk size of the batch
  return_queue_checkin_idx,
  checked,                   \* i of the check-in loop
  tmp_w,                     \* the worker being checked in
  version_number, num_running_jobs, serviced_quanta,   \* the worker_infos
  prev_sizes,
  cur_version_number, total_return_size, total_running_jobs,
  dropped,                   \* packets freed by the dispatcher
  inflight,                  \* env: packets a worker took and still works on
  discarded                  \* env: packets a worker took and found invalid

infoVars == <<version_number, num_running_jobs, serviced_quanta>>
checkInVars == <<checked, tmp_w, prev_sizes, cur_version_number,
                 total_return_size>>
batchVars == <<arrived, disp_pc, rx_bufs, max_dispatch_size,
               return_queue_checkin_idx, total_running_jobs, dropped>>
dispatcherVars == <<infoVars, checkInVars, batchVars>>
counterVars == <<curr_size, curr_sq>>
envVars == <<inflight, discarded>>
vars == <<rx_mbuf_dispatch_q, counterVars, dispatcherVars, envVars>>

TypeOK ==
  /\ rx_mbuf_dispatch_q \in [Workers -> Seq(1..MaxPackets)]
  /\ curr_size \in [Workers -> Nat]
  /\ curr_sq \in [Workers -> Int]
  /\ arrived \in 0..MaxPackets
  /\ disp_pc \in {"rx", "dispatch", "checkin", "quanta"}
  /\ rx_bufs \in Seq(1..MaxPackets)
  /\ max_dispatch_size \in Nat
  /\ return_queue_checkin_idx \in Nat
  /\ checked \in 0..Cardinality(Workers)
  /\ tmp_w \in Workers
  /\ version_number \in [Workers -> Int]
  /\ num_running_jobs \in [Workers -> Int]
  /\ serviced_quanta \in [Workers -> Int]
  /\ prev_sizes \in [Workers -> Nat]
  /\ cur_version_number \in Int
  /\ total_return_size \in 0..(U16 - 1)
  /\ total_running_jobs \in Int
  /\ dropped \subseteq 1..MaxPackets
  /\ inflight \in [Workers -> Nat]
  /\ discarded \in [Workers -> Nat]

(* curr_sizes comes from rte_malloc and only .size is then set to 0, so    *)
(* .sq starts with whatever the memory held.                               *)
DispatcherInit ==
  /\ rx_mbuf_dispatch_q = [w \in Workers |-> <<>>]
  /\ curr_size = [w \in Workers |-> 0]
  /\ curr_sq \in [Workers -> ServicedQuanta]
  /\ arrived = 0 /\ dropped = {}
  /\ disp_pc = "rx" /\ rx_bufs = <<>>
  /\ max_dispatch_size = 0 /\ return_queue_checkin_idx = 0
  /\ checked = 0 /\ tmp_w \in Workers
  /\ version_number = [w \in Workers |-> 0]
  /\ num_running_jobs = [w \in Workers |-> 0]
  /\ serviced_quanta = [w \in Workers |-> 0]
  /\ prev_sizes = [w \in Workers |-> 0]
  /\ cur_version_number = 0 /\ total_return_size = 0
  /\ total_running_jobs = 0

Init ==
  /\ DispatcherInit
  /\ inflight = [w \in Workers |-> 0]
  /\ discarded = [w \in Workers |-> 0]

--------------------------------------------------------------------------------
(***************************************************************************)
(* The heap of workers.  It always holds every worker between two steps;   *)
(* its top is a worker that no other one beats.                            *)
(***************************************************************************)

(* Mutants of Before: the load decides before the version does; the most   *)
(* loaded worker comes first.                                              *)
BeforeByLoad(u, w) == num_running_jobs[u] < num_running_jobs[w]
BeforeMostLoaded(u, w) ==
  \/ version_number[u] < version_number[w]
  \/ /\ version_number[u] = version_number[w]
     /\ num_running_jobs[u] > num_running_jobs[w]

(* operator< of worker_info: u comes off the heap before w.                *)
Before(u, w) ==
  \/ version_number[u] < version_number[w]
  \/ /\ version_number[u] = version_number[w]
     /\ \/ num_running_jobs[u] < num_running_jobs[w]
        \/ /\ num_running_jobs[u] = num_running_jobs[w]
           /\ serviced_quanta[u] > serviced_quanta[w]

HeapTops == {w \in Workers : ~ \E u \in Workers : Before(u, w)}

(* With RAND_DISP num_running_jobs changes while the worker is inside the  *)
(* heap, so only the order of the version numbers survives.                *)
OldestVersions ==
  {w \in Workers : \A u \in Workers : version_number[w] <= version_number[u]}

CheckInTops == IF Policy = "jsq" THEN HeapTops ELSE OldestVersions

(* The workers the policy may choose for a chunk.                          *)
Targets ==
  CASE Policy = "jsq" -> HeapTops
    [] Policy = "random" -> Workers
    [] Policy = "power_two" ->
         {IF num_running_jobs[p[1]] < num_running_jobs[p[2]]
            THEN p[1] ELSE p[2] : p \in Workers \X Workers}

(* version_number++ of an int; on overflow the build wraps around.         *)
IncInt(n) == IF n = IntMax THEN -IntMax - 1 ELSE n + 1

(* Mutant of CeilDiv: rounds down.                                         *)
FloorDiv(m, n) == m \div n

(* The number of packets per chunk, so that a batch makes one round.       *)
CeilDiv(m, n) == (m + n - 1) \div n

--------------------------------------------------------------------------------
(* rte_eth_rx_burst; an empty burst goes round the loop and changes        *)
(* nothing.  Bounded by MaxPackets.                                        *)
RxBurst ==
  /\ disp_pc = "rx"
  /\ \E nb_rx \in 1..Lesser(RxQueueBurstSize, MaxPackets - arrived) :
       /\ arrived' = arrived + nb_rx
       /\ rx_bufs' = [k \in 1..nb_rx |-> arrived + k]
       /\ max_dispatch_size' = CeilDiv(nb_rx, Cardinality(Workers))
  /\ disp_pc' = "dispatch"
  /\ UNCHANGED <<rx_mbuf_dispatch_q, counterVars, infoVars, checkInVars,
                 return_queue_checkin_idx, total_running_jobs, dropped, envVars>>

(* The size of the next chunk, and how many of its packets the ring of w   *)
(* takes.                                                                  *)
DispatchSize == Lesser(max_dispatch_size, Len(rx_bufs))

(* Mutant of NbReturn: the ring's capacity is forgotten.                   *)
NbReturnUnlimited(w) == DispatchSize

NbReturn(w) == EnqueueCount(rx_mbuf_dispatch_q[w], DispatchRingSize, DispatchSize)

(* Mutants of Refused: frees from the start of the chunk; passes over the  *)
(* first packet that was not taken.                                        *)
RefusedFromStart(w) == {rx_bufs[k] : k \in 1..(DispatchSize - NbReturn(w))}
RefusedButFirst(w) == {rx_bufs[k] : k \in (NbReturn(w) + 2)..DispatchSize}

(* The packets of the chunk that the ring of w does not take.              *)
Refused(w) == {rx_bufs[k] : k \in (NbReturn(w) + 1)..DispatchSize}

(* Mutant of CountJobs: the total counts the dropped packets too.          *)
CountJobsWithDropped(w) ==
  /\ num_running_jobs' = [num_running_jobs EXCEPT ![w] = @ + NbReturn(w)]
  /\ total_running_jobs' = total_running_jobs + DispatchSize

CountJobs(w) ==
  /\ num_running_jobs' = [num_running_jobs EXCEPT ![w] = @ + NbReturn(w)]
  /\ total_running_jobs' = total_running_jobs + NbReturn(w)

(* One turn of the dispatch loop: the next chunk goes to a target w, and   *)
(* what its ring does not take is freed.  After such a short enqueue       *)
(* return_queue_checkin_idx is not advanced.                               *)
DispatchTo(w) ==
  /\ rx_mbuf_dispatch_q' =
       [rx_mbuf_dispatch_q EXCEPT ![w] = @ \o FirstOf(rx_bufs, NbReturn(w))]
  /\ dropped' = dropped \cup Refused(w)
  /\ CountJobs(w)
  /\ return_queue_checkin_idx' = return_queue_checkin_idx +
       (IF NbReturn(w) = DispatchSize THEN DispatchSize ELSE 0)
  /\ rx_bufs' = AllAfter(rx_bufs, DispatchSize)

(* The loop over the batch; after the last chunk, the check-in when        *)
(* enough packets were dispatched since the last one.                      *)
Dispatch ==
  /\ disp_pc = "dispatch"
  /\ \E w \in Targets : DispatchTo(w)
  /\ disp_pc' = IF rx_bufs' # <<>> THEN "dispatch"
                ELSE IF return_queue_checkin_idx' >= CheckInPeriod
                  THEN "checkin" ELSE "rx"
  /\ total_return_size' = IF disp_pc' = "checkin" THEN 0 ELSE total_return_size
  /\ checked' = IF disp_pc' = "checkin" THEN 0 ELSE checked
  /\ UNCHANGED <<counterVars, version_number, serviced_quanta, tmp_w,
                 prev_sizes, cur_version_number, arrived, max_dispatch_size,
                 envVars>>

(* Mutant of ReturnSize: the previous reading is not subtracted.           *)
ReturnSizeFromZero(w) == curr_size[w] % U16

(* return_size: the jobs w has completed since the previous reading, as a  *)
(* uint16_t.                                                               *)
ReturnSize(w) == (curr_size[w] - prev_sizes[w]) % U16

(* Check-in of worker w, up to the read of its completion counter.         *)
CheckInWith(w) ==
  /\ tmp_w' = w
  /\ prev_sizes' = [prev_sizes EXCEPT ![w] = curr_size[w]]
  /\ total_return_size' = (total_return_size + ReturnSize(w)) % U16
  /\ num_running_jobs' = [num_running_jobs EXCEPT ![w] = @ - ReturnSize(w)]
  /\ version_number' = [version_number EXCEPT ![w] = IncInt(@)]

CheckIn ==
  /\ disp_pc = "checkin"
  /\ \E w \in CheckInTops : CheckInWith(w)
  /\ disp_pc' = "quanta"
  /\ UNCHANGED <<rx_mbuf_dispatch_q, counterVars, serviced_quanta, checked,
                 cur_version_number, arrived, rx_bufs, max_dispatch_size,
                 return_queue_checkin_idx, total_running_jobs, dropped, envVars>>

(* Mutant of MoreWorkers: i <= NUM_WORKER_THREADS.                         *)
MoreWorkersOffByOne == checked + 1 <= Cardinality(Workers)

(* i < NUM_WORKER_THREADS after i++.                                       *)
MoreWorkers == checked + 1 < Cardinality(Workers)

(* The rest of that worker's check-in: the read of its quanta counter and  *)
(* the push back on the heap; after the last worker the round is closed.   *)
ReadQuanta ==
  /\ disp_pc = "quanta"
  /\ serviced_quanta' = [serviced_quanta EXCEPT ![tmp_w] = curr_sq[tmp_w]]
  /\ checked' = checked + 1
  /\ IF MoreWorkers
       THEN /\ disp_pc' = "checkin"
            /\ UNCHANGED <<return_queue_checkin_idx, cur_version_number,
                           total_running_jobs>>
       ELSE /\ disp_pc' = "rx"
            /\ return_queue_checkin_idx' = 0
            /\ cur_version_number' = IncInt(cur_version_number)
            /\ total_running_jobs' = total_running_jobs - total_return_size
  /\ UNCHANGED <<rx_mbuf_dispatch_q, counterVars, version_number,
                 num_running_jobs, tmp_w, prev_sizes, total_return_size,
                 arrived, rx_bufs, max_dispatch_size, dropped, envVars>>

DispatcherNext == RxBurst \/ Dispatch \/ CheckIn \/ ReadQuanta

--------------------------------------------------------------------------------
(***************************************************************************)
(* What the dispatcher may see a worker do, at any time: take packets off  *)
(* its ring, find one of them invalid, complete one, and count quanta.     *)
(***************************************************************************)

EnvTake(w) ==
  /\ \E n \in 1..DequeueCount(rx_mbuf_dispatch_q[w],
                              NumWorkerCoros - inflight[w]) :
       /\ rx_mbuf_dispatch_q' =
            [rx_mbuf_dispatch_q EXCEPT ![w] = AllAfter(@, n)]
       /\ inflight' = [inflight EXCEPT ![w] = @ + n]
  /\ UNCHANGED <<counterVars, dispatcherVars, discarded>>

EnvDiscard(w) ==
  /\ inflight[w] > 0
  /\ inflight' = [inflight EXCEPT ![w] = @ - 1]
  /\ discarded' = [discarded EXCEPT ![w] = @ + 1]
  /\ UNCHANGED <<rx_mbuf_dispatch_q, counterVars, dispatcherVars>>

EnvComplete(w) ==
  /\ inflight[w] > 0
  /\ inflight' = [inflight EXCEPT ![w] = @ - 1]
  /\ curr_size' = [curr_size EXCEPT ![w] = @ + 1]
  /\ UNCHANGED <<rx_mbuf_dispatch_q, curr_sq, dispatcherVars, discarded>>

EnvQuanta(w) ==
  /\ curr_sq' \in [Workers -> ServicedQuanta]
  /\ \A u \in Workers \ {w} : curr_sq'[u] = curr_sq[u]
  /\ UNCHANGED <<rx_mbuf_dispatch_q, curr_size, dispatcherVars, envVars>>

EnvNext(w) == EnvTake(w) \/ EnvDiscard(w) \/ EnvComplete(w) \/ EnvQuanta(w)

Next == DispatcherNext \/ \E w \in Workers : EnvNext(w)

Spec == Init /\ [][Next]_vars

--------------------------------------------------------------------------------
(* Every job that was put on worker w's ring and that the dispatcher has   *)
(* not yet counted as completed.                                           *)
Outstanding(w) ==
  Len(rx_mbuf_dispatch_q[w]) + inflight[w] + (curr_size[w] - prev_sizes[w])

(* The dispatcher never believes a worker to have fewer jobs than it has,  *)
(* however its reads interleave with the worker's completions and whatever *)
(* the uint16_t return_size loses (run_server, num_running_jobs).          *)
NeverUnderestimates ==
  \A w \in Workers : num_running_jobs[w] >= Outstanding(w)

(* No worker has completed more jobs since its counter was last read than  *)
(* return_size can tell, and no round of check-ins returns more jobs than  *)
(* total_return_size can tell.  The code does not ensure either: packets   *)
(* of a chunk that does not fit as a whole do not count towards            *)
(* RETURN_RING_CHECKIN_PERIOD.                                             *)
FewUnread == \A w \in Workers : curr_size[w] - prev_sizes[w] < U16
RoundFits ==
  disp_pc = "checkin" =>
    \A w \in CheckInTops : total_return_size + ReturnSize(w) < U16

(* As long as no difference of counters overflows return_size, the         *)
(* estimate is exact up to the invalid packets, which no worker ever       *)
(* reports: each of them stays in num_running_jobs for good.               *)
EstimateExact ==
  \A w \in Workers : num_running_jobs[w] = Outstanding(w) + discarded[w]

(* As long as no round returns more than total_return_size can tell,       *)
(* total_running_jobs is the sum of the workers' estimates; in a check-in  *)
(* it still lags by what the round has returned so far.                    *)
TotalIsSum ==
  total_running_jobs =
    SumFunction(num_running_jobs) +
    (IF disp_pc \in {"checkin", "quanta"} THEN total_return_size ELSE 0)

(* assert(tmp_w->version_number == cur_version_number): the check-in loop  *)
(* finds every worker exactly once, because a worker that was checked in   *)
(* leaves the top of the heap until the round is over.                     *)
CheckInSeesCurrentVersion ==
  disp_pc = "checkin" =>
    \A w \in CheckInTops : version_number[w] = cur_version_number

(* With the join-shortest-queue policy a packet is dropped only when every *)
(* worker is believed to lack room for a whole chunk: the ring that came   *)
(* up short belongs to the least loaded worker.                            *)
DropsOnlyUnderFullLoad ==
  [][dropped' # dropped =>
       \A w \in Workers :
         num_running_jobs[w] + max_dispatch_size >= DispatchRingSize]_vars

(* A buffer that the dispatcher has freed is on no ring and in no later    *)
(* chunk of the batch: of a chunk that comes up short, what the ring has   *)
(* not taken is freed, and nothing else (run_server).                      *)
FreedNotQueued ==
  dropped \cap (Range(rx_bufs) \cup UNION {Range(rx_mbuf_dispatch_q[w]) : w \in Workers})
    = {}

(* "dispatcher may have stale information about the number of jobs each    *)
(* worker has, hence force a return pull": a batch whose last chunk did    *)
(* not fit is followed by a check-in.                                      *)
ShortEnqueueForcesCheckIn ==
  [][dropped' # dropped /\ rx_bufs' = <<>> => disp_pc' = "checkin"]_vars
================================================================================
