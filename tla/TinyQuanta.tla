------------------------------ MODULE TinyQuanta ------------------------------
(***************************************************************************)
(* The server: the dispatcher thread, the worker threads and the NIC       *)
(* together.  They meet in the dispatch rings (the dispatcher enqueues,    *)
(* the worker dequeues) and in curr_sizes (the worker counts, the          *)
(* dispatcher reads).  Every step of Dispatcher.tla and of Worker.tla is   *)
(* taken as it is; their Env actions are replaced by the other component.  *)
(***************************************************************************)
EXTENDS Integers, FiniteSets, Functions, RteRing

CONSTANTS
  Workers, LAS, NumWorkerCoros, DispatchRingSize, U16, MaxPackets,
  RxQueueBurstSize, CheckInPeriod, Policy, IntMax,
  DispatchRingDequeuePeriod, TxQueueBurstSize, TxDequeuePeriod,
  ReturnRingBurstSize, TxRingSize, TxMbufPoolSize, ServicedQuanta, MaxQuanta

ASSUME ServerAssumption ==
  /\ IsFiniteSet(Workers) /\ Workers # {}
  /\ LAS \in BOOLEAN /\ Policy \in {"jsq", "random", "power_two"}
  /\ NumWorkerCoros \in Nat \ {0}
  /\ DispatchRingSize \in Nat /\ DispatchRingSize > 1
  /\ RxQueueBurstSize \in Nat \ {0} /\ CheckInPeriod \in Nat \ {0}
  /\ DispatchRingDequeuePeriod \in Nat \ {0} /\ TxDequeuePeriod \in Nat \ {0}
  /\ TxQueueBurstSize \in Nat \ {0} /\ ReturnRingBurstSize \in Nat \ {0}
  /\ TxRingSize \in Nat /\ TxMbufPoolSize \in Nat
  /\ U16 \in Nat /\ U16 > DispatchRingDequeuePeriod /\ U16 > TxDequeuePeriod
  /\ IntMax \in Nat \ {0} /\ ServicedQuanta \subseteq Int
  /\ MaxQuanta \in Nat /\ MaxPackets \in Nat

VARIABLES
  rx_mbuf_dispatch_q, curr_size, curr_sq,
  arrived, disp_pc, rx_bufs, max_dispatch_size, return_queue_checkin_idx,
  checked, tmp_w, version_number, num_running_jobs, serviced_quanta,
  prev_sizes, cur_version_number, total_return_size, total_running_jobs,
  dropped,
  tx_mbuf_pool, nic_tx, w_pc, busy_coros, idle_coros, rx_mbuf, num_quanta,
  burst, dispatch_index, flush_index, force_flush, tx_bufs, return_rx_bufs,
  invalid, freed, leaked, sent, unsent

(* The dispatcher's view of the workers, and the workers' of it.           *)
D == INSTANCE Dispatcher WITH
       inflight <- [w \in Workers |-> Len(burst[w]) + Len(busy_coros[w])],
       discarded <- [w \in Workers |-> Cardinality(invalid[w])],
       ServicedQuanta <- Int

W == INSTANCE Worker WITH offered <- arrived - Len(rx_bufs)

dispatcherVars ==
  <<arrived, disp_pc, rx_bufs, max_dispatch_size, return_queue_checkin_idx,
    checked, tmp_w, version_number, num_running_jobs, serviced_quanta,
    prev_sizes, cur_version_number, total_return_size, total_running_jobs,
    dropped>>
workerVars ==
  <<tx_mbuf_pool, nic_tx, w_pc, busy_coros, idle_coros, rx_mbuf, num_quanta,
    burst, dispatch_index, flush_index, force_flush, tx_bufs, return_rx_bufs,
    invalid, freed, leaked, sent, unsent>>
vars == <<rx_mbuf_dispatch_q, curr_size, curr_sq, dispatcherVars, workerVars>>

Init == W!WorkerInit /\ D!DispatcherInit

DispatcherStep ==
  W!Alive /\ UNCHANGED workerVars /\ D!DispatcherNext

WorkerStep(w) == UNCHANGED dispatcherVars /\ W!WorkerNext(w)

NicStep(w) == UNCHANGED dispatcherVars /\ W!NicSends(w)

Next == DispatcherStep \/ \E w \in Workers : WorkerStep(w) \/ NicStep(w)

Spec == Init /\ [][Next]_vars

(* The dispatcher and every worker are threads pinned to cores of their    *)
(* own that never block.  Nothing is assumed of the NIC.                   *)
FairSpec ==
  /\ Spec
  /\ WF_vars(DispatcherStep)
  /\ \A w \in Workers : WF_vars(WorkerStep(w))

--------------------------------------------------------------------------------
(* Where a packet is, and what has been recorded of it.                    *)
IsWaiting(p) ==
  \/ p \in Range(rx_bufs)
  \/ \E w \in Workers : p \in Range(rx_mbuf_dispatch_q[w]) \/ p \in Range(burst[w])
IsRunning(p) ==
  \E w \in Workers : \E i \in DOMAIN busy_coros[w] :
    rx_mbuf[w][busy_coros[w][i]] = p
IsDone(p) == \E w \in Workers : p \in Range(tx_bufs[w])
IsInvalid(p) == \E w \in Workers : p \in invalid[w]

Outcome(p) ==
  CASE p \in dropped -> "dropped"
    [] p \in sent -> "answered"
    [] p \in unsent -> "lost"
    [] IsInvalid(p) -> "invalid"
    [] OTHER -> "none"

Place(p) ==
  IF IsWaiting(p) THEN "waiting"
  ELSE IF IsRunning(p) THEN "running"
  ELSE IF IsDone(p) THEN "done" ELSE "none"

(* The status of a request.  A packet that is nowhere, or that is still    *)
(* somewhere after its outcome, has no status the promise knows.           *)
StatusOf(p) ==
  IF p > arrived THEN "unseen"
  ELSE IF Outcome(p) = "none" THEN Place(p)
  ELSE IF Place(p) = "none" THEN Outcome(p) ELSE "astray"

Status == [p \in 1..MaxPackets |-> StatusOf(p)]

J == INSTANCE JobService WITH Requests <- 1..MaxPackets, status <- Status

(* The server keeps the promise of JobService: no request is forgotten,    *)
(* run twice, answered twice, or both dropped and run.                     *)
KeepsPromise == J!Spec

(* What Dispatcher.tla assumes of the workers holds of the workers.        *)
DispatcherSpec == D!Spec

(* What Worker.tla assumes of the dispatcher holds of the dispatcher.      *)
WorkerSpec == W!Spec

(* Every receive buffer is in exactly one place: in the dispatcher's       *)
(* batch, on a ring, with a worker, freed by one of them, or forgotten.    *)
EveryBufferAccounted ==
  /\ 1..arrived = Range(rx_bufs) \cup dropped \cup freed \cup leaked
       \cup UNION {Range(W!Held(w)) : w \in Workers}
  /\ \A p \in dropped : p \notin freed \cup leaked /\ ~IsWaiting(p)

(* Every request that reaches the server comes to an outcome, once no      *)
(* more of them come.                                                      *)
EveryRequestSettled ==
  \A p \in 1..MaxPackets :
    (p <= arrived) ~> (StatusOf(p) \in J!Outcomes)
================================================================================
