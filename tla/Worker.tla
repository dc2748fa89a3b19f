-------------------------------- MODULE Worker --------------------------------
(***************************************************************************)
(* The worker threads of tq_server.cpp (worker), built with NEW_DISPATCHER *)
(* and MSQ: a worker runs its jobs in coroutines, one quantum at a time,   *)
(* and between two quanta polls its dispatch ring, sends the responses it  *)
(* has gathered and gives receive buffers back.  Built with LAS it runs    *)
(* the job that has had the fewest quanta, for as many quanta as keep it   *)
(* that.                                                                   *)
(*                                                                         *)
(* One turn of the worker's loop is the steps "run" ("settle" after a      *)
(* completion), "poll", "take" for every packet of a burst, and "flush",   *)
(* in this order; a step ends where memory shared with another thread is   *)
(* touched.  Workers share nothing but the pool of transmit buffers.       *)
(* A packet stands for its receive buffer and, once it is in tx_bufs, for  *)
(* the transmit buffer of its response.                                    *)
(***************************************************************************)
EXTENDS Integers, FiniteSetsExt, Functions, RteRing

CONSTANTS
  Workers,
  LAS,                        \* built with LAS
  NumWorkerCoros,             \* NUM_WORKER_COROS
  DispatchRingSize,           \* DISPATCH_RING_SIZE
  DispatchRingDequeuePeriod,  \* DISPATCH_RING_DEQUEUE_PERIOD
  TxQueueBurstSize,           \* TX_QUEUE_BURST_SIZE
  TxDequeuePeriod,            \* TX_DEQUEUE_PERIOD
  ReturnRingBurstSize,        \* RETURN_RING_BURST_SIZE
  TxRingSize,                 \* TX_RING_SIZE, descriptors of a NIC TX queue
  TxMbufPoolSize,             \* TX_MBUF_POOL_SIZE
  U16,                        \* 2^16, the range of a uint16_t
  ServicedQuanta,             \* values an uninitialised sq counter may hold
  MaxQuanta,                  \* bound: preemptions of one job
  MaxPackets                  \* bound: packets that ever reach a ring

ASSUME WorkerAssumption ==
  /\ IsFiniteSet(Workers) /\ Workers # {}
  /\ LAS \in BOOLEAN /\ NumWorkerCoros \in Nat \ {0}
  /\ DispatchRingSize \in Nat /\ DispatchRingSize > 1
  /\ DispatchRingDequeuePeriod \in Nat \ {0}
  /\ TxQueueBurstSize \in Nat \ {0}
  /\ TxDequeuePeriod \in Nat \ {0}
  /\ ReturnRingBurstSize \in Nat \ {0}
  /\ TxRingSize \in Nat /\ TxMbufPoolSize \in Nat
  /\ U16 \in Nat /\ U16 > DispatchRingDequeuePeriod /\ U16 > TxDequeuePeriod
  /\ ServicedQuanta \subseteq Int
  /\ MaxQuanta \in Nat /\ MaxPackets \in Nat

Coros == 1..NumWorkerCoros
Packets == 1..MaxPackets

VARIABLES
  rx_mbuf_dispatch_q,   \* shared with the dispatcher: the ring of each worker
  curr_size, curr_sq,   \* shared with the dispatcher: curr_sizes[w]
  tx_mbuf_pool,         \* shared by the workers: free transmit buffers
  nic_tx,               \* used descriptors of each worker's NIC TX queue
  w_pc,                 \* where each worker is in its loop
  busy_coros,           \* coroutines with an unfinished job: a deque, or
                        \* with LAS a heap, in any order
  idle_coros,           \* stack of coroutines without one
  rx_mbuf, num_quanta,  \* coro_info: the job's packet, its preemptions
  burst,                \* worker's rx_bufs: packets dequeued, not yet examined
  dispatch_index, flush_index, force_flush,
  tx_bufs, return_rx_bufs,
  offered,              \* env: number of the last packet a dispatcher handled
  invalid,              \* packets found invalid, per worker
  freed,                \* packets whose receive buffer was freed
  leaked,               \* packets whose receive buffer no one holds any more
  sent,                 \* packets whose response the NIC took
  unsent                \* packets whose response the NIC refused

coroVars == <<busy_coros, idle_coros, rx_mbuf, num_quanta>>
indexVars == <<dispatch_index, flush_index, force_flush>>
counterVars == <<curr_size, curr_sq>>
nicVars == <<tx_mbuf_pool, nic_tx>>
fateVars == <<invalid, freed, leaked, sent, unsent>>
workerVars == <<w_pc, coroVars, burst, indexVars, tx_bufs, return_rx_bufs,
                fateVars>>
vars == <<rx_mbuf_dispatch_q, counterVars, nicVars, workerVars, offered>>

TypeOK ==
  /\ rx_mbuf_dispatch_q \in [Workers -> Seq(Packets)]
  /\ curr_size \in [Workers -> Nat]
  /\ curr_sq \in [Workers -> Int]
  /\ tx_mbuf_pool \in 0..TxMbufPoolSize
  /\ nic_tx \in [Workers -> 0..TxRingSize]
  /\ w_pc \in [Workers ->
                 {"run", "settle", "poll", "take", "flush", "crashed"}]
  /\ busy_coros \in [Workers -> Seq(Coros)]
  /\ idle_coros \in [Workers -> Seq(Coros)]
  /\ rx_mbuf \in [Workers -> [Coros -> 0..MaxPackets]]
  /\ num_quanta \in [Workers -> [Coros -> 0..MaxQuanta]]
  /\ burst \in [Workers -> Seq(Packets)]
  /\ dispatch_index \in [Workers -> 0..(U16 - 1)]
  /\ flush_index \in [Workers -> 0..(U16 - 1)]
  /\ force_flush \in [Workers -> BOOLEAN]
  /\ tx_bufs \in [Workers -> Seq(Packets)]
  /\ return_rx_bufs \in [Workers -> Seq(Packets)]
  /\ offered \in 0..MaxPackets
  /\ invalid \in [Workers -> SUBSET Packets]
  /\ freed \subseteq Packets /\ leaked \subseteq Packets
  /\ sent \subseteq Packets /\ unsent \subseteq Packets

(* All coroutines are idle; packet 0 is the rx_mbuf of a coroutine that    *)
(* never had a job.  curr_sizes[w].sq is never initialised.                *)
WorkerInit ==
  /\ rx_mbuf_dispatch_q = [w \in Workers |-> <<>>]
  /\ curr_size = [w \in Workers |-> 0]
  /\ curr_sq \in [Workers -> ServicedQuanta]
  /\ tx_mbuf_pool = TxMbufPoolSize
  /\ nic_tx = [w \in Workers |-> 0]
  /\ w_pc = [w \in Workers |-> "run"]
  /\ busy_coros = [w \in Workers |-> <<>>]
  /\ idle_coros = [w \in Workers |-> [c \in Coros |-> c]]
  /\ rx_mbuf = [w \in Workers |-> [c \in Coros |-> 0]]
  /\ num_quanta = [w \in Workers |-> [c \in Coros |-> 0]]
  /\ burst = [w \in Workers |-> <<>>]
  /\ dispatch_index = [w \in Workers |-> 0]
  /\ flush_index = [w \in Workers |-> 0]
  /\ force_flush = [w \in Workers |-> FALSE]
  /\ tx_bufs = [w \in Workers |-> <<>>]
  /\ return_rx_bufs = [w \in Workers |-> <<>>]
  /\ invalid = [w \in Workers |-> {}]
  /\ freed = {} /\ leaked = {} /\ sent = {} /\ unsent = {}

Init == WorkerInit /\ offered = 0

--------------------------------------------------------------------------------
(* back() and pop_back() of the stack idle_coros, and of the array rx_bufs *)
(* when num_rx_buf counts down; pop() of one element of busy_coros.        *)
Back(s) == s[Len(s)]

PopBack(s) == FirstOf(s, Len(s) - 1)

Erase(s, i) == FirstOf(s, i - 1) \o AllAfter(s, i)

Goto(w, label) == w_pc' = [w_pc EXCEPT ![w] = label]

(* Mutant of Add16: a counter that does not wrap.                          *)
AddUnbounded(m, n) == m + n

Add16(m, n) == (m + n) % U16

(* dispatch_index and flush_index advance by the quanta of the turn.       *)
CountQuanta(w, n) ==
  /\ dispatch_index' = [dispatch_index EXCEPT ![w] = Add16(@, n)]
  /\ flush_index' = [flush_index EXCEPT ![w] = Add16(@, n)]

(* The quanta of the job at place i of the queue.                          *)
QuantaAt(w, i) == num_quanta[w][busy_coros[w][i]]

(* The place of the coroutine to run next: the front of the deque, or that *)
(* of a top of the heap.                                                   *)
NextCoros(w) ==
  {i \in DOMAIN busy_coros[w] :
     IF LAS THEN \A j \in DOMAIN busy_coros[w] : QuantaAt(w, i) <= QuantaAt(w, j)
            ELSE i = 1}

(* The quanta of the top of the heap beyond those of next_coro.  When the  *)
(* heap has become empty, top() reads the slot that next_coro was in.      *)
QuantaBehind(w, i) ==
  LET others == {QuantaAt(w, j) : j \in DOMAIN busy_coros[w] \ {i}}
  IN  IF others = {} THEN 0 ELSE Min(others) - QuantaAt(w, i)

(* Mutant of NumAssignedQuanta: one quantum too many.                      *)
NumAssignedOneMore(w, i) ==
  IF ~LAS THEN 1
  ELSE Lesser(QuantaBehind(w, i) + 2, DispatchRingDequeuePeriod - dispatch_index[w])

(* num_assigned_quanta: until another job has had fewer, and not past the  *)
(* next poll.                                                              *)
NumAssignedQuanta(w, i) ==
  IF ~LAS THEN 1
  ELSE Lesser(QuantaBehind(w, i) + 1, DispatchRingDequeuePeriod - dispatch_index[w])

(* The quanta that a job may use up in the turn in which it finishes.      *)
(* call_the_yield compares with num_assigned_quanta after counting, so     *)
(* that 0 never stops a job; the model bounds what it counts by the range  *)
(* of the counters it is added to.                                         *)
LastQuanta(w, i) ==
  CASE ~LAS -> {1}
    [] LAS /\ NumAssignedQuanta(w, i) = 0 -> 0..(U16 - 1)
    [] OTHER -> 0..(NumAssignedQuanta(w, i) - 1)

(* Mutant of Requeued: the coroutine is not taken off the deque.           *)
RequeuedTwice(w, i) == Append(busy_coros[w], busy_coros[w][i])

(* The queue once the coroutine at place i has been preempted: pop before  *)
(* it runs and push after.                                                 *)
Requeued(w, i) == Append(Erase(busy_coros[w], i), busy_coros[w][i])

(* The next coroutine runs and is preempted: coro->get() is null.          *)
Preempt(w) ==
  /\ w_pc[w] = "run" /\ busy_coros[w] # <<>>
  /\ \E i \in NextCoros(w) :
       LET next_coro == busy_coros[w][i]
           n == NumAssignedQuanta(w, i)
       IN  /\ n > 0 /\ num_quanta[w][next_coro] + n <= MaxQuanta
           /\ num_quanta' = [num_quanta EXCEPT ![w][next_coro] = @ + n]
           /\ busy_coros' = [busy_coros EXCEPT ![w] = Requeued(w, i)]
           /\ curr_sq' = [curr_sq EXCEPT ![w] = @ + n]
           /\ CountQuanta(w, n)
  /\ Goto(w, "poll")
  /\ UNCHANGED <<rx_mbuf_dispatch_q, curr_size, nicVars, idle_coros, rx_mbuf,
                 burst, force_flush, tx_bufs, return_rx_bufs, fateVars,
                 offered>>

(* Mutant of CountCompletion: size++ is missing.                           *)
CountNothing(w) == UNCHANGED curr_size

CountCompletion(w) == curr_size' = [curr_size EXCEPT ![w] = @ + 1]

(* The next coroutine runs and finishes its job.                           *)
Finish(w) ==
  /\ w_pc[w] = "run" /\ busy_coros[w] # <<>>
  /\ \E i \in NextCoros(w) : \E n \in LastQuanta(w, i) :
       LET next_coro == busy_coros[w][i]
           packet == rx_mbuf[w][next_coro]
       IN  /\ return_rx_bufs' = [return_rx_bufs EXCEPT ![w] = Append(@, packet)]
           /\ tx_bufs' = [tx_bufs EXCEPT ![w] = Append(@, packet)]
           /\ idle_coros' = [idle_coros EXCEPT ![w] = Append(@, next_coro)]
           /\ busy_coros' = [busy_coros EXCEPT ![w] = Erase(@, i)]
           /\ CountQuanta(w, n)
  /\ CountCompletion(w)
  /\ Goto(w, "settle")
  /\ UNCHANGED <<rx_mbuf_dispatch_q, curr_sq, nicVars, rx_mbuf, num_quanta,
                 burst, force_flush, fateVars, offered>>

(* Mutant of QuantaOfFinished: forgets one quantum.                        *)
QuantaOfFinishedLessOne(w) == num_quanta[w][Back(idle_coros[w])] - 1

(* The quanta of the job that has just finished, whose coroutine is the    *)
(* last of idle_coros.                                                     *)
QuantaOfFinished(w) == num_quanta[w][Back(idle_coros[w])]

(* ... and takes its quanta out of the worker's sq counter.                *)
Settle(w) ==
  /\ w_pc[w] = "settle"
  /\ curr_sq' = [curr_sq EXCEPT ![w] = @ - QuantaOfFinished(w)]
  /\ Goto(w, "poll")
  /\ UNCHANGED <<rx_mbuf_dispatch_q, curr_size, nicVars, coroVars, burst,
                 indexVars, tx_bufs, return_rx_bufs, fateVars, offered>>

(* Mutants of PollDue: one quantum too late; no poll when there is no job. *)
PollDueLate(w) ==
  \/ busy_coros[w] = <<>>
  \/ dispatch_index[w] > DispatchRingDequeuePeriod /\ idle_coros[w] # <<>>
PollDueByPeriod(w) ==
  dispatch_index[w] >= DispatchRingDequeuePeriod /\ idle_coros[w] # <<>>

(* The worker polls its ring when it has no job (force_dispatch), or when  *)
(* the dequeue period is up and a coroutine is idle.                       *)
PollDue(w) ==
  \/ busy_coros[w] = <<>>
  \/ dispatch_index[w] >= DispatchRingDequeuePeriod /\ idle_coros[w] # <<>>

(* After the quantum, or at once when there is no job to run: force_flush  *)
(* is decided and the ring polled for as many packets as there are idle    *)
(* coroutines.                                                             *)
Poll(w) ==
  /\ \/ w_pc[w] = "poll"
     \/ w_pc[w] = "run" /\ busy_coros[w] = <<>>
  /\ force_flush' = [force_flush EXCEPT ![w] =
                       busy_coros[w] = <<>> /\ tx_bufs[w] # <<>>]
  /\ LET num_rx_buf ==
           IF PollDue(w)
             THEN DequeueCount(rx_mbuf_dispatch_q[w], Len(idle_coros[w])) ELSE 0
     IN  /\ burst' = [burst EXCEPT ![w] =
                        FirstOf(rx_mbuf_dispatch_q[w], num_rx_buf)]
         /\ rx_mbuf_dispatch_q' =
              [rx_mbuf_dispatch_q EXCEPT ![w] = AllAfter(@, num_rx_buf)]
         /\ Goto(w, IF num_rx_buf = 0 THEN "flush" ELSE "take")
  /\ dispatch_index' =
       [dispatch_index EXCEPT ![w] = IF PollDue(w) THEN 0 ELSE @]
  /\ UNCHANGED <<counterVars, nicVars, coroVars, flush_index, tx_bufs,
                 return_rx_bufs, fateVars, offered>>

(* The burst is examined from its last packet to its first.                *)
NextOfBurst(w) ==
  /\ w_pc[w] = "take"
  /\ burst' = [burst EXCEPT ![w] = PopBack(@)]
  /\ UNCHANGED <<rx_mbuf_dispatch_q, counterVars, indexVars, tx_bufs, offered>>

AfterTake(w) == Goto(w, IF Len(burst[w]) = 1 THEN "flush" ELSE "take")

(* Mutants: new jobs go to the back; a job takes two transmit buffers.     *)
WithNewJobLast(w) == Append(busy_coros[w], Back(idle_coros[w]))
TxPoolAfterTwo == IF tx_mbuf_pool > 1 THEN tx_mbuf_pool - 2 ELSE 0

WithNewJob(w) == <<Back(idle_coros[w])>> \o busy_coros[w]

TxPoolAfterAlloc == tx_mbuf_pool - 1

(* A valid packet gets the last idle coroutine and a transmit buffer, and  *)
(* goes to the front of the deque: "prioritize new jobs".                  *)
Accept(w) ==
  /\ NextOfBurst(w)
  /\ tx_mbuf_pool > 0
  /\ LET idle_coro == Back(idle_coros[w])
     IN  /\ rx_mbuf' = [rx_mbuf EXCEPT ![w][idle_coro] = Back(burst[w])]
         /\ num_quanta' = [num_quanta EXCEPT ![w][idle_coro] = 0]
         /\ busy_coros' = [busy_coros EXCEPT ![w] = WithNewJob(w)]
  /\ idle_coros' = [idle_coros EXCEPT ![w] = PopBack(@)]
  /\ tx_mbuf_pool' = TxPoolAfterAlloc
  /\ AfterTake(w)
  /\ UNCHANGED <<nic_tx, return_rx_bufs, fateVars>>

(* rte_pktmbuf_alloc fails; the assert behind it is not in the build, so   *)
(* the worker goes on with a null buffer and the process dies.             *)
AcceptWithoutBuffer(w) ==
  /\ w_pc[w] = "take"
  /\ tx_mbuf_pool = 0
  /\ Goto(w, "crashed")
  /\ UNCHANGED <<rx_mbuf_dispatch_q, counterVars, nicVars, coroVars, burst,
                 indexVars, tx_bufs, return_rx_bufs, fateVars, offered>>

(* Mutant of RoomToReturn: off by one.                                     *)
RoomToReturnOneMore(w) == Len(return_rx_bufs[w]) <= ReturnRingBurstSize

RoomToReturn(w) == Len(return_rx_bufs[w]) < ReturnRingBurstSize

(* An invalid packet joins return_rx_bufs while there is room; after that  *)
(* its buffer is forgotten.                                                *)
Discard(w) ==
  /\ NextOfBurst(w)
  /\ LET packet == Back(burst[w])
     IN  /\ invalid' = [invalid EXCEPT ![w] = @ \cup {packet}]
         /\ IF RoomToReturn(w)
              THEN /\ return_rx_bufs' =
                        [return_rx_bufs EXCEPT ![w] = Append(@, packet)]
                   /\ leaked' = leaked
              ELSE /\ leaked' = leaked \cup {packet}
                   /\ UNCHANGED return_rx_bufs
  /\ AfterTake(w)
  /\ UNCHANGED <<nicVars, coroVars, freed, sent, unsent>>

(* Mutant of TxDue: force_flush is ignored.                                *)
TxDueByPeriod(w) ==
  \/ flush_index[w] >= TxDequeuePeriod /\ tx_bufs[w] # <<>>
  \/ Len(tx_bufs[w]) = TxQueueBurstSize

(* "TX path": rte_eth_tx_burst takes what fits into the NIC's queue; the   *)
(* buffers it refuses are not kept, not retried and not freed.             *)
TxDue(w) ==
  \/ force_flush[w]
  \/ flush_index[w] >= TxDequeuePeriod /\ tx_bufs[w] # <<>>
  \/ Len(tx_bufs[w]) = TxQueueBurstSize

Transmit(w) ==
  IF TxDue(w)
    THEN LET nb_tx == Lesser(Len(tx_bufs[w]), TxRingSize - nic_tx[w])
         IN  /\ nic_tx' = [nic_tx EXCEPT ![w] = @ + nb_tx]
             /\ sent' = sent \cup Range(FirstOf(tx_bufs[w], nb_tx))
             /\ unsent' = unsent \cup Range(AllAfter(tx_bufs[w], nb_tx))
             /\ tx_bufs' = [tx_bufs EXCEPT ![w] = <<>>]
             /\ flush_index' = [flush_index EXCEPT ![w] = 0]
    ELSE UNCHANGED <<nic_tx, sent, unsent, tx_bufs, flush_index>>

(* Mutant of ReturnRxBufs: return_rx_buf_idx is not reset.                 *)
ReturnWithoutReset(w) ==
  /\ return_rx_bufs' = return_rx_bufs
  /\ freed' = IF force_flush[w] \/ Len(return_rx_bufs[w]) = ReturnRingBurstSize
                THEN freed \cup Range(return_rx_bufs[w]) ELSE freed

(* "return rx_mbuf": the gathered receive buffers are freed.               *)
ReturnRxBufs(w) ==
  IF force_flush[w] \/ Len(return_rx_bufs[w]) = ReturnRingBurstSize
    THEN /\ freed' = freed \cup Range(return_rx_bufs[w])
         /\ return_rx_bufs' = [return_rx_bufs EXCEPT ![w] = <<>>]
    ELSE UNCHANGED <<freed, return_rx_bufs>>

(* The last two stages of a turn; no thread looks at the state between     *)
(* them.                                                                   *)
Flush(w) ==
  /\ w_pc[w] = "flush"
  /\ Transmit(w)
  /\ ReturnRxBufs(w)
  /\ Goto(w, "run")
  /\ UNCHANGED <<rx_mbuf_dispatch_q, counterVars, tx_mbuf_pool, coroVars,
                 burst, dispatch_index, force_flush, invalid, leaked, offered>>

(* A crash of one thread ends the process.                                 *)
Alive == \A w \in Workers : w_pc[w] # "crashed"

WorkerNext(w) ==
  /\ Alive
  /\ \/ Preempt(w) \/ Finish(w) \/ Settle(w)
     \/ Poll(w) \/ Accept(w) \/ AcceptWithoutBuffer(w) \/ Discard(w)
     \/ Flush(w)

(* The NIC puts one response on the wire and its driver frees the buffer.  *)
NicSends(w) ==
  /\ nic_tx[w] > 0
  /\ nic_tx' = [nic_tx EXCEPT ![w] = @ - 1]
  /\ tx_mbuf_pool' = tx_mbuf_pool + 1
  /\ UNCHANGED <<rx_mbuf_dispatch_q, counterVars, workerVars, offered>>

(* What a worker may see a dispatcher do: handle the next n packets, of    *)
(* which the first k go to one worker's ring and the rest is dropped.      *)
EnvOffer(w) ==
  /\ Alive
  /\ \E n \in 1..(MaxPackets - offered) :
       \E k \in 0..EnqueueCount(rx_mbuf_dispatch_q[w], DispatchRingSize, n) :
         /\ rx_mbuf_dispatch_q' =
              [rx_mbuf_dispatch_q EXCEPT ![w] = @ \o [j \in 1..k |-> offered + j]]
         /\ offered' = offered + n
  /\ UNCHANGED <<counterVars, nicVars, workerVars>>

Next == \E w \in Workers : WorkerNext(w) \/ NicSends(w) \/ EnvOffer(w)

Spec == Init /\ [][Next]_vars

(* Every worker thread is pinned to a core of its own and never blocks.    *)
FairSpec == Spec /\ \A w \in Workers : WF_vars(WorkerNext(w))

--------------------------------------------------------------------------------
(* No write past an array and no pop of an empty vector: the packets of a  *)
(* burst still to examine have idle coroutines waiting for them, and the   *)
(* two buffers of the loop never overflow.                                 *)
BuffersFit ==
  \A w \in Workers :
    /\ Len(burst[w]) <= Len(idle_coros[w])
    /\ Len(tx_bufs[w]) <= TxQueueBurstSize
    /\ Len(return_rx_bufs[w]) <= ReturnRingBurstSize

(* Every coroutine of a worker is in exactly one of idle_coros and         *)
(* busy_coros, once.                                                       *)
CorosPartitioned ==
  \A w \in Workers : LET all == idle_coros[w] \o busy_coros[w]
                     IN  Len(all) = NumWorkerCoros /\ Range(all) = Coros

(* A worker that starts a turn with a response still unsent has a job to   *)
(* run and will send within the flush period: no response waits for the    *)
(* next request.                                                           *)
NoResponseStuck ==
  \A w \in Workers :
    w_pc[w] = "run" /\ tx_bufs[w] # <<>> =>
      busy_coros[w] # <<>> /\ flush_index[w] < TxDequeuePeriod

(* A worker that starts a turn with an idle coroutine polls its ring       *)
(* within the dequeue period.                                              *)
IdleCorosPollSoon ==
  \A w \in Workers :
    w_pc[w] = "run" /\ idle_coros[w] # <<>> =>
      dispatch_index[w] < DispatchRingDequeuePeriod

(* "prioritize new jobs": in the deque, jobs that never ran come before    *)
(* every job that was preempted.                                           *)
NewJobsFirst ==
  LAS \/ \A w \in Workers : \A i, j \in DOMAIN busy_coros[w] :
    i < j /\ num_quanta[w][busy_coros[w][j]] = 0 =>
      num_quanta[w][busy_coros[w][i]] = 0

(* The receive buffers in a worker's hands, and those of one coroutine set. *)
JobPackets(w) == [i \in DOMAIN busy_coros[w] |-> rx_mbuf[w][busy_coros[w][i]]]

Held(w) == rx_mbuf_dispatch_q[w] \o burst[w] \o JobPackets(w) \o return_rx_bufs[w]

(* A receive buffer is in one place only: it is never given to two jobs,   *)
(* never freed while something still uses it, never freed twice.           *)
OneHolderPerBuffer ==
  \A w \in Workers :
    /\ Cardinality(Range(Held(w))) = Len(Held(w))
    /\ Range(Held(w)) \cap (freed \cup leaked) = {}
    /\ \A v \in Workers \ {w} : Range(Held(v)) \cap Range(Held(w)) = {}

(* Transmit buffers are conserved: one that is not in the pool belongs to  *)
(* a job, waits in tx_bufs or in the NIC, or was refused by the NIC, and   *)
(* only the refused ones never come back.                                  *)
TxBuffersAccounted ==
  tx_mbuf_pool + Cardinality(unsent)
    + SumFunction([w \in Workers |->
               Len(busy_coros[w]) + Len(tx_bufs[w]) + nic_tx[w]])
  = TxMbufPoolSize

(* The coroutines of the jobs a worker has on its hands; a job that has    *)
(* just finished is still one until it is settled.                         *)
InService(w) ==
  Range(busy_coros[w])
    \cup IF w_pc[w] = "settle" THEN {Back(idle_coros[w])} ELSE {}

QuantaInService(w) ==
  SumFunction([c \in Coros |-> IF c \in InService(w) THEN num_quanta[w][c] ELSE 0])

(* curr_sizes[w].sq moves with the quanta received by the jobs in service, *)
(* so it is their sum up to the value the memory held at start.            *)
SqFollowsQuanta ==
  [][\A w \in Workers :
       curr_sq'[w] - curr_sq[w] = QuantaInService(w)' - QuantaInService(w)]_vars

(* Least attained service: although a job gets several quanta in a row,    *)
(* when it is preempted it is at most one quantum ahead of every other job *)
(* of its worker (num_assigned_quanta).                                    *)
LeastServedFirst ==
  [][\A w \in Workers : \A c, d \in Range(busy_coros[w]) :
       num_quanta'[w][c] > num_quanta[w][c] /\ c # d =>
         num_quanta'[w][c] <= num_quanta[w][d] + 1]_vars

(* The subtractions of num_assigned_quanta, an unsigned number, never pass *)
(* below 0, and it is 0 only when every coroutine has a job: only then     *)
(* does a job run to its end without preemption.                           *)
PreemptibleWhileIdle ==
  \A w \in Workers : w_pc[w] = "run" /\ busy_coros[w] # <<>> =>
    \A i \in NextCoros(w) :
      NumAssignedQuanta(w, i) >= IF idle_coros[w] = <<>> THEN 0 ELSE 1

(* Every packet on a ring is in the end found invalid, or its response is  *)
(* handed to the NIC, once no more packets come.                           *)
QueuedIsServed ==
  \A p \in Packets :
    (\E w \in Workers : p \in Range(rx_mbuf_dispatch_q[w])) ~>
      (p \in sent \cup unsent \cup UNION {invalid[w] : w \in Workers})

(* "invalid packet, free the rx_mbuf": no buffer is ever forgotten.        *)
InvalidPacketsFreed == leaked = {}

(* A worker dies for want of a transmit buffer only if the NIC has refused *)
(* responses before: what jobs, tx_bufs and the NIC's queues can hold is   *)
(* less than the pool (sanity_check and the queues' descriptors).          *)
DiesOnlyOfRefusals ==
  (\E w \in Workers : w_pc[w] = "crashed") => unsent # {}

(* assert(tx_mbuf != nullptr): with a pool larger than what sanity_check   *)
(* asks for, a worker never lacks a transmit buffer.                       *)
TxAllocSucceeds == \A w \in Workers : w_pc[w] # "crashed"
================================================================================
