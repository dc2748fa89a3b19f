---------------------------- MODULE DispatcherProofs ----------------------------
(***************************************************************************)
(* Proofs about Dispatcher.tla, for any number of workers, any ring size,  *)
(* any dispatch policy and any number of packets.                          *)
(***************************************************************************)
EXTENDS Dispatcher, RteRingProofs, SumProofs

USE DispatcherAssumption

(* The chunk size of a non-empty batch is positive.                        *)
LEMMA CeilDivType ==
  ASSUME NEW m \in Nat \ {0}, NEW n \in Nat \ {0}
  PROVE  CeilDiv(m, n) \in Nat \ {0}
  BY DEF CeilDiv

(* A remainder is in range and not larger than the number divided.         *)
LEMMA ModProperties ==
  ASSUME NEW m \in Nat, NEW n \in Nat \ {0}
  PROVE  m % n \in 0..(n - 1) /\ m % n <= m
  OBVIOUS

LEMMA WorkersCount == Cardinality(Workers) \in Nat \ {0}
  BY FS_CardinalityType, FS_EmptySet

--------------------------------------------------------------------------------
(* The inductive invariant.  An estimate can only shrink by what its       *)
(* worker has completed since the last reading, so besides the estimates   *)
(* it says that a reading is never ahead of the counter; the rest bounds   *)
(* the loops.                                                              *)
IInv ==
  /\ TypeOK
  /\ \A w \in Workers : Len(rx_mbuf_dispatch_q[w]) <= DispatchRingSize - 1
  /\ \A w \in Workers : prev_sizes[w] <= curr_size[w]
  /\ NeverUnderestimates
  /\ disp_pc \in {"checkin", "quanta"} => checked < Cardinality(Workers)

(* An upper bound stays one when as much is added to it as to one term.    *)
LEMMA AddToBoth ==
  ASSUME NEW x \in Int, NEW l \in Int, NEW i \in Int, NEW d \in Int,
         NEW n \in Int, x >= l + i + d
  PROVE  x + n >= l + n + i + d
  OBVIOUS

(* The numbers that an estimate is compared with.                          *)
LEMMA CountTypes ==
  ASSUME IInv, NEW v \in Workers
  PROVE  /\ num_running_jobs[v] \in Int /\ inflight[v] \in Nat
         /\ curr_size[v] \in Nat /\ prev_sizes[v] \in Nat
         /\ Len(rx_mbuf_dispatch_q[v]) \in Nat
  <1>1. TypeOK
    BY DEF IInv
  <1>2. /\ num_running_jobs[v] \in Int /\ inflight[v] \in Nat
        /\ curr_size[v] \in Nat /\ prev_sizes[v] \in Nat
    BY <1>1 DEF TypeOK
  <1>3. rx_mbuf_dispatch_q[v] \in Seq(1..MaxPackets)
    BY <1>1 DEF TypeOK
  <1> QED
    BY <1>2, <1>3

LEMMA InitIInv == Init => IInv
  <1> SUFFICES ASSUME Init PROVE IInv
    OBVIOUS
  <1> USE DEF Init, DispatcherInit
  <1>1. rx_mbuf_dispatch_q \in [Workers -> Seq(1..MaxPackets)]
    OBVIOUS
  <1>2. rx_bufs \in Seq(1..MaxPackets)
    OBVIOUS
  <1>3. curr_sq \in [Workers -> Int]
    BY ZenonT(30)
  <1>4. checked \in 0..Cardinality(Workers)
    BY WorkersCount
  <1>5. TypeOK
    BY <1>1, <1>2, <1>3, <1>4 DEF TypeOK
  <1>6. \A w \in Workers : Len(rx_mbuf_dispatch_q[w]) = 0
    OBVIOUS
  <1>7. NeverUnderestimates
    BY <1>6 DEF NeverUnderestimates, Outstanding
  <1> QED
    BY <1>5, <1>6, <1>7 DEF IInv

LEMMA RxBurstIInv == IInv /\ RxBurst => IInv'
  <1> SUFFICES ASSUME IInv, RxBurst PROVE IInv'
    OBVIOUS
  <1>1. PICK nb_rx \in 1..Lesser(RxQueueBurstSize, MaxPackets - arrived) :
          /\ arrived' = arrived + nb_rx
          /\ rx_bufs' = [k \in 1..nb_rx |-> arrived + k]
          /\ max_dispatch_size' = CeilDiv(nb_rx, Cardinality(Workers))
    BY DEF RxBurst
  <1>2. nb_rx \in 1..Lesser(RxQueueBurstSize, MaxPackets - arrived)
    BY <1>1
  <1>3. nb_rx \in Nat \ {0} /\ arrived + nb_rx <= MaxPackets
    <2>1. arrived \in 0..MaxPackets
      BY DEF IInv, TypeOK
    <2> QED
      BY <1>2, <2>1, LesserProperties
  <1>4. rx_bufs' \in Seq(1..MaxPackets)
    BY <1>1, <1>3 DEF IInv, TypeOK
  <1>5. max_dispatch_size' \in Nat
    BY <1>1, <1>3, WorkersCount, CeilDivType
  <1>6. arrived' \in 0..MaxPackets
    BY <1>1, <1>3 DEF IInv, TypeOK
  <1> USE DEF IInv, RxBurst, infoVars, checkInVars, counterVars, envVars
  <1>7. TypeOK'
    BY ZenonT(30), <1>4, <1>5, <1>6 DEF TypeOK
  <1> QED
    BY <1>7 DEF NeverUnderestimates, Outstanding

(* A chunk is a part of the batch, its ring takes a part of the chunk, and *)
(* takes less than the chunk only when it has no room for all of it.       *)
LEMMA ChunkBounds ==
  ASSUME IInv, NEW w \in Workers
  PROVE  /\ DispatchSize \in 0..Len(rx_bufs)
         /\ DispatchSize <= max_dispatch_size
         /\ NbReturn(w) \in 0..DispatchSize
         /\ NbReturn(w) \in 0..Len(rx_bufs)
         /\ Len(rx_mbuf_dispatch_q[w]) + NbReturn(w) <= DispatchRingSize - 1
         /\ NbReturn(w) < DispatchSize =>
              Len(rx_mbuf_dispatch_q[w]) + DispatchSize >= DispatchRingSize
  <1>1. TypeOK /\ Len(rx_mbuf_dispatch_q[w]) <= DispatchRingSize - 1
    BY DEF IInv
  <1>2. /\ rx_mbuf_dispatch_q[w] \in Seq(1..MaxPackets)
        /\ Len(rx_bufs) \in Nat /\ max_dispatch_size \in Nat
    BY <1>1 DEF TypeOK
  <1>3. /\ DispatchSize \in Nat /\ DispatchSize <= Len(rx_bufs)
        /\ DispatchSize <= max_dispatch_size
    <2>1. Len(rx_bufs) \in Nat /\ max_dispatch_size \in Nat
      BY <1>2
    <2> QED
      BY <2>1 DEF DispatchSize, Lesser
  <1>4. /\ NbReturn(w) \in 0..DispatchSize
        /\ Len(rx_mbuf_dispatch_q[w]) + NbReturn(w) <= DispatchRingSize - 1
        /\ NbReturn(w) < DispatchSize =>
             Len(rx_mbuf_dispatch_q[w]) + DispatchSize >= DispatchRingSize
    BY ZenonT(30), <1>1, <1>2, <1>3, EnqueueCountProperties DEF NbReturn
  <1>5. Len(rx_bufs) \in Nat
    BY <1>2
  <1> QED
    BY <1>3, <1>4, <1>5

LEMMA DispatchIInv == IInv /\ Dispatch => IInv'
  <1> SUFFICES ASSUME IInv, Dispatch PROVE IInv'
    OBVIOUS
  <1>1. PICK w \in Workers : DispatchTo(w)
    BY DEF Dispatch, Targets, HeapTops
  <1> DEFINE ds == DispatchSize
             nb == NbReturn(w)
  <1>2. /\ rx_mbuf_dispatch_q \in [Workers -> Seq(1..MaxPackets)]
        /\ rx_mbuf_dispatch_q[w] \in Seq(1..MaxPackets)
        /\ rx_bufs \in Seq(1..MaxPackets)
    BY DEF IInv, TypeOK
  <1>3. ds \in 0..Len(rx_bufs) /\ nb \in 0..ds /\ nb \in 0..Len(rx_bufs)
    BY ChunkBounds
  <1>4. Len(rx_mbuf_dispatch_q[w]) + nb <= DispatchRingSize - 1
    BY ChunkBounds
  <1>5. /\ rx_mbuf_dispatch_q' =
             [rx_mbuf_dispatch_q EXCEPT ![w] = @ \o FirstOf(rx_bufs, nb)]
        /\ dropped' = dropped \cup {rx_bufs[k] : k \in (nb + 1)..ds}
        /\ num_running_jobs' = [num_running_jobs EXCEPT ![w] = @ + nb]
        /\ total_running_jobs' = total_running_jobs + nb
        /\ return_queue_checkin_idx' =
             return_queue_checkin_idx + (IF nb = ds THEN ds ELSE 0)
        /\ rx_bufs' = AllAfter(rx_bufs, ds)
    BY <1>1 DEF DispatchTo, Refused, CountJobs
  <1> HIDE DEF ds, nb
  <1>6. /\ FirstOf(rx_bufs, nb) \in Seq(1..MaxPackets)
        /\ Len(FirstOf(rx_bufs, nb)) = nb
        /\ AllAfter(rx_bufs, ds) \in Seq(1..MaxPackets)
    BY <1>2, <1>3, FirstOfProperties, AllAfterProperties, Zenon
  <1>7. /\ rx_mbuf_dispatch_q' \in [Workers -> Seq(1..MaxPackets)]
        /\ Len(rx_mbuf_dispatch_q'[w]) = Len(rx_mbuf_dispatch_q[w]) + nb
        /\ \A v \in Workers \ {w} :
             rx_mbuf_dispatch_q'[v] = rx_mbuf_dispatch_q[v]
    <2> DEFINE q == rx_mbuf_dispatch_q[w] \o FirstOf(rx_bufs, nb)
    <2>1. q \in Seq(1..MaxPackets) /\ Len(q) = Len(rx_mbuf_dispatch_q[w]) + nb
      BY ZenonT(30), <1>2, <1>6, ConcatFacts
    <2>2. rx_mbuf_dispatch_q' = [rx_mbuf_dispatch_q EXCEPT ![w] = q]
      BY <1>5
    <2> HIDE DEF q
    <2> QED
      BY <1>2, <2>1, <2>2
  <1>8. dropped' \subseteq 1..MaxPackets
    <2>1. \A k \in (nb + 1)..ds : rx_bufs[k] \in 1..MaxPackets
      BY <1>2, <1>3
    <2> QED
      BY ZenonT(30), <1>5, <2>1 DEF IInv, TypeOK
  <1>9. /\ num_running_jobs' \in [Workers -> Int]
        /\ num_running_jobs'[w] = num_running_jobs[w] + nb
        /\ \A v \in Workers \ {w} : num_running_jobs'[v] = num_running_jobs[v]
    <2>1. num_running_jobs \in [Workers -> Int] /\ nb \in Int
      BY <1>3 DEF IInv, TypeOK
    <2> QED
      BY <1>5, <2>1
  <1>10. return_queue_checkin_idx' \in Nat /\ total_running_jobs' \in Int
    <2>1. return_queue_checkin_idx \in Nat /\ total_running_jobs \in Int
      BY DEF IInv, TypeOK
    <2>2. ds \in Nat /\ nb \in Nat
      BY <1>2, <1>3
    <2> QED
      BY <1>5, <2>1, <2>2
  <1>11. /\ checked' \in 0..Cardinality(Workers)
         /\ total_return_size' \in 0..(U16 - 1)
         /\ disp_pc' \in {"rx", "dispatch", "checkin", "quanta"}
         /\ disp_pc' \in {"checkin", "quanta"} => checked' < Cardinality(Workers)
    BY WorkersCount DEF IInv, TypeOK, Dispatch
  <1> USE DEF Dispatch, counterVars, envVars
  <1>12. TypeOK'
    BY ZenonT(30), <1>5, <1>6, <1>7, <1>8, <1>9, <1>10, <1>11 DEF IInv, TypeOK
  <1>13. \A v \in Workers : Len(rx_mbuf_dispatch_q'[v]) <= DispatchRingSize - 1
    BY ZenonT(30), <1>4, <1>7 DEF IInv
  <1>14. NeverUnderestimates'
    <2> SUFFICES ASSUME NEW v \in Workers
                 PROVE  num_running_jobs'[v] >= Outstanding(v)'
      BY DEF NeverUnderestimates
    <2>1. /\ num_running_jobs[v] \in Int /\ inflight[v] \in Nat
          /\ curr_size[v] \in Nat /\ prev_sizes[v] \in Nat
      BY DEF IInv, TypeOK
    <2>2. num_running_jobs[v] >= Outstanding(v)
      BY DEF IInv, NeverUnderestimates
    <2>3. Len(rx_mbuf_dispatch_q[v]) \in Nat /\ nb \in Nat
      BY <1>2, <1>3
    <2>4. UNCHANGED <<inflight, curr_size, prev_sizes>>
      OBVIOUS
    <2>5. CASE v = w
      <3>1. /\ num_running_jobs'[v] = num_running_jobs[v] + nb
            /\ Len(rx_mbuf_dispatch_q'[v]) = Len(rx_mbuf_dispatch_q[v]) + nb
        BY <1>7, <1>9, <2>5
      <3> HIDE DEF Dispatch
      <3>2. Outstanding(v)' = Len(rx_mbuf_dispatch_q[v]) + nb + inflight[v]
                                + (curr_size[v] - prev_sizes[v])
        BY <2>4, <3>1 DEF Outstanding
      <3>3. num_running_jobs[v] + nb >= Len(rx_mbuf_dispatch_q[v]) + nb + inflight[v]
                                          + (curr_size[v] - prev_sizes[v])
        <4>1. num_running_jobs[v] >= Len(rx_mbuf_dispatch_q[v]) + inflight[v]
                                       + (curr_size[v] - prev_sizes[v])
          BY <2>2 DEF Outstanding
        <4>2. /\ num_running_jobs[v] \in Int /\ inflight[v] \in Int
              /\ Len(rx_mbuf_dispatch_q[v]) \in Int /\ nb \in Int
              /\ curr_size[v] - prev_sizes[v] \in Int
          BY <2>1, <2>3
        <4> QED
          BY SMTT(30), <4>1, <4>2, AddToBoth
      <3> QED
        BY <3>1, <3>2, <3>3
    <2>6. CASE v # w
      BY SMTT(30), <1>7, <1>9, <2>2, <2>4, <2>6 DEF Outstanding
    <2> QED
      BY <2>5, <2>6
  <1> QED
    BY <1>11, <1>12, <1>13, <1>14 DEF IInv

(* What a check-in subtracts is at most what the worker completed since    *)
(* the last reading, even when return_size is cut to 16 bits.              *)
LEMMA CheckInIInv == IInv /\ CheckIn => IInv'
  <1> SUFFICES ASSUME IInv, CheckIn PROVE IInv'
    OBVIOUS
  <1>1. PICK w \in Workers : CheckInWith(w)
    BY DEF CheckIn, CheckInTops, HeapTops, OldestVersions
  <1> DEFINE r == ReturnSize(w)
  <1>2. /\ num_running_jobs \in [Workers -> Int]
        /\ version_number \in [Workers -> Int]
        /\ prev_sizes \in [Workers -> Nat]
        /\ curr_size \in [Workers -> Nat]
        /\ inflight \in [Workers -> Nat]
        /\ total_return_size \in 0..(U16 - 1)
    BY ZenonT(30) DEF IInv, TypeOK
  <1>3. \A v \in Workers : prev_sizes[v] <= curr_size[v]
    BY DEF IInv
  <1>4. r \in Nat /\ r <= curr_size[w] - prev_sizes[w]
    <2>1. curr_size[w] - prev_sizes[w] \in Nat
      BY <1>2, <1>3
    <2> QED
      BY <2>1, ModProperties DEF ReturnSize
  <1>5. /\ tmp_w' = w
        /\ prev_sizes' = [prev_sizes EXCEPT ![w] = curr_size[w]]
        /\ total_return_size' = (total_return_size + r) % U16
        /\ num_running_jobs' = [num_running_jobs EXCEPT ![w] = @ - r]
        /\ version_number' = [version_number EXCEPT ![w] = IncInt(@)]
    BY <1>1 DEF CheckInWith
  <1> HIDE DEF r
  <1>6. /\ num_running_jobs' \in [Workers -> Int]
        /\ num_running_jobs'[w] = num_running_jobs[w] - r
        /\ \A v \in Workers \ {w} : num_running_jobs'[v] = num_running_jobs[v]
    BY <1>2, <1>4, <1>5
  <1>7. /\ prev_sizes' \in [Workers -> Nat]
        /\ prev_sizes'[w] = curr_size[w]
        /\ \A v \in Workers \ {w} : prev_sizes'[v] = prev_sizes[v]
    BY <1>2, <1>5
  <1>8. total_return_size' \in 0..(U16 - 1)
    <2>1. total_return_size + r \in Nat
      BY <1>2, <1>4
    <2> QED
      BY <1>5, <2>1, ModProperties
  <1>9. version_number' \in [Workers -> Int]
    BY <1>2, <1>5 DEF IncInt
  <1> USE DEF CheckIn, counterVars, envVars
  <1>10. TypeOK'
    BY ZenonT(30), <1>5, <1>6, <1>7, <1>8, <1>9 DEF IInv, TypeOK
  <1>11. \A v \in Workers : prev_sizes'[v] <= curr_size'[v]
    BY <1>2, <1>3, <1>7
  <1>12. NeverUnderestimates'
    <2> SUFFICES ASSUME NEW v \in Workers
                 PROVE  num_running_jobs'[v] >= Outstanding(v)'
      BY DEF NeverUnderestimates
    <2>1. num_running_jobs[v] >= Outstanding(v)
      BY DEF IInv, NeverUnderestimates
    <2>3. UNCHANGED <<inflight, curr_size, rx_mbuf_dispatch_q>>
      OBVIOUS
    <2> HIDE DEF CheckIn
    <2>4. CASE v = w
      <3>1. /\ num_running_jobs'[v] = num_running_jobs[v] - r
            /\ prev_sizes'[v] = curr_size[v]
            /\ r \in Nat /\ r <= curr_size[v] - prev_sizes[v]
        BY SMTT(30), <1>4, <1>6, <1>7, <2>4
      <3>2. Outstanding(v)' = Len(rx_mbuf_dispatch_q[v]) + inflight[v]
                                + (curr_size[v] - curr_size[v])
        BY <2>3, <3>1 DEF Outstanding
      <3>3. num_running_jobs[v] - r >= Len(rx_mbuf_dispatch_q[v]) + inflight[v]
                                         + (curr_size[v] - curr_size[v])
        BY SMTT(30), <2>1, <3>1, CountTypes DEF Outstanding
      <3> QED
        BY <3>1, <3>2, <3>3
    <2>5. CASE v # w
      BY <1>6, <1>7, <2>1, <2>3, <2>5 DEF Outstanding
    <2> QED
      BY <2>4, <2>5
  <1> QED
    BY <1>10, <1>11, <1>12 DEF IInv

LEMMA ReadQuantaIInv == IInv /\ ReadQuanta => IInv'
  <1> SUFFICES ASSUME IInv, ReadQuanta PROVE IInv'
    OBVIOUS
  <1> USE DEF ReadQuanta, counterVars, envVars
  <1>1. serviced_quanta' \in [Workers -> Int]
    BY DEF IInv, TypeOK
  <1>2. /\ checked' \in 0..Cardinality(Workers)
        /\ disp_pc' \in {"checkin", "quanta"} => checked' < Cardinality(Workers)
    <2>1. checked \in Nat /\ checked < Cardinality(Workers)
      <3>1. checked \in 0..Cardinality(Workers) /\ checked < Cardinality(Workers)
        BY DEF IInv, TypeOK
      <3> QED
        BY <3>1
    <2> QED
      BY <2>1, WorkersCount DEF MoreWorkers
  <1>3. disp_pc' \in {"rx", "dispatch", "checkin", "quanta"}
    OBVIOUS
  <1>4. /\ return_queue_checkin_idx' \in Nat
        /\ cur_version_number' \in Int
        /\ total_running_jobs' \in Int
    <2>1. /\ return_queue_checkin_idx \in Nat /\ cur_version_number \in Int
          /\ total_running_jobs \in Int /\ total_return_size \in 0..(U16 - 1)
      BY DEF IInv, TypeOK
    <2>2. IncInt(cur_version_number) \in Int
      BY <2>1 DEF IncInt
    <2> QED
      BY <2>1, <2>2
  <1>5. TypeOK'
    BY ZenonT(30), <1>1, <1>2, <1>3, <1>4 DEF IInv, TypeOK
  <1> QED
    BY <1>2, <1>5 DEF IInv, NeverUnderestimates, Outstanding

LEMMA EnvTakeIInv ==
  ASSUME IInv, NEW w \in Workers, EnvTake(w)
  PROVE  IInv'
  <1> USE DEF EnvTake, counterVars, dispatcherVars, infoVars, checkInVars, batchVars
  <1>1. PICK n \in 1..DequeueCount(rx_mbuf_dispatch_q[w],
                                   NumWorkerCoros - inflight[w]) :
          /\ rx_mbuf_dispatch_q' =
               [rx_mbuf_dispatch_q EXCEPT ![w] = AllAfter(@, n)]
          /\ inflight' = [inflight EXCEPT ![w] = @ + n]
    BY ZenonT(30)
  <1>2. /\ rx_mbuf_dispatch_q \in [Workers -> Seq(1..MaxPackets)]
        /\ rx_mbuf_dispatch_q[w] \in Seq(1..MaxPackets)
    BY DEF IInv, TypeOK
  <1>3. inflight \in [Workers -> Nat]
    BY DEF IInv, TypeOK
  <1>4. n \in Nat /\ n \in 0..Len(rx_mbuf_dispatch_q[w])
    <2>1. n \in 1..DequeueCount(rx_mbuf_dispatch_q[w], NumWorkerCoros - inflight[w])
      BY <1>1
    <2>2. NumWorkerCoros - inflight[w] \in Int
      BY <1>3
    <2> HIDE DEF EnvTake
    <2>3. /\ DequeueCount(rx_mbuf_dispatch_q[w], NumWorkerCoros - inflight[w]) \in Int
          /\ DequeueCount(rx_mbuf_dispatch_q[w], NumWorkerCoros - inflight[w])
               <= Len(rx_mbuf_dispatch_q[w])
      BY ZenonT(30), <1>2, <2>2, DequeueCountProperties
    <2> QED
      BY <1>2, <2>1, <2>3
  <1>5. /\ rx_mbuf_dispatch_q' \in [Workers -> Seq(1..MaxPackets)]
        /\ Len(rx_mbuf_dispatch_q'[w]) = Len(rx_mbuf_dispatch_q[w]) - n
        /\ \A v \in Workers \ {w} :
             rx_mbuf_dispatch_q'[v] = rx_mbuf_dispatch_q[v]
    <2> DEFINE q == AllAfter(rx_mbuf_dispatch_q[w], n)
    <2>1. q \in Seq(1..MaxPackets) /\ Len(q) = Len(rx_mbuf_dispatch_q[w]) - n
      BY <1>2, <1>4, AllAfterProperties
    <2>2. rx_mbuf_dispatch_q' = [rx_mbuf_dispatch_q EXCEPT ![w] = q]
      BY ZenonT(30), <1>1
    <2> HIDE DEF q, EnvTake
    <2> QED
      BY <1>2, <2>1, <2>2
  <1>6. /\ inflight' \in [Workers -> Nat]
        /\ inflight'[w] = inflight[w] + n
        /\ \A v \in Workers \ {w} : inflight'[v] = inflight[v]
    BY <1>1, <1>3, <1>4
  <1>7. TypeOK'
    BY ZenonT(30), <1>5, <1>6 DEF IInv, TypeOK
  <1>8. \A v \in Workers : Len(rx_mbuf_dispatch_q[v]) \in Nat
    BY <1>2
  <1>9. \A v \in Workers : Len(rx_mbuf_dispatch_q'[v]) <= DispatchRingSize - 1
    <2> HIDE DEF EnvTake
    <2> SUFFICES ASSUME NEW v \in Workers
                 PROVE  Len(rx_mbuf_dispatch_q'[v]) <= DispatchRingSize - 1
      OBVIOUS
    <2>1. /\ Len(rx_mbuf_dispatch_q[v]) <= DispatchRingSize - 1
          /\ Len(rx_mbuf_dispatch_q[v]) \in Nat
      BY <1>8 DEF IInv
    <2>2. CASE v = w
      <3>1. n \in Nat /\ Len(rx_mbuf_dispatch_q'[v]) = Len(rx_mbuf_dispatch_q[v]) - n
        BY <1>4, <1>5, <2>2
      <3> QED
        BY <2>1, <3>1
    <2>3. CASE v # w
      BY <1>5, <2>1, <2>3
    <2> QED
      BY <2>2, <2>3
  <1>10. NeverUnderestimates'
    <2> SUFFICES ASSUME NEW v \in Workers
                 PROVE  num_running_jobs'[v] >= Outstanding(v)'
      BY DEF NeverUnderestimates
    <2>1. num_running_jobs[v] >= Outstanding(v)
      BY DEF IInv, NeverUnderestimates
    <2>2. UNCHANGED <<num_running_jobs, curr_size, prev_sizes>>
      OBVIOUS
    <2> HIDE DEF EnvTake
    <2>3. Outstanding(v)' = Outstanding(v)
      <3>1. CASE v = w
        <4>1. /\ Len(rx_mbuf_dispatch_q'[w]) = Len(rx_mbuf_dispatch_q[w]) - n
              /\ inflight'[w] = inflight[w] + n
              /\ n \in Nat
          BY SMTT(30), <1>4, <1>5, <1>6
        <4>2. Outstanding(v)' = (Len(rx_mbuf_dispatch_q[v]) - n) + (inflight[v] + n)
                                  + (curr_size[v] - prev_sizes[v])
          BY <2>2, <3>1, <4>1 DEF Outstanding
        <4> QED
          BY SMTT(30), <4>1, <4>2, CountTypes DEF Outstanding
      <3>2. CASE v # w
        BY SMTT(30), <1>5, <1>6, <2>2, <3>2 DEF Outstanding
      <3> QED
        BY SMTT(30), <3>1, <3>2
    <2> QED
      BY <2>1, <2>2, <2>3
  <1> QED
    BY <1>7, <1>9, <1>10 DEF IInv

LEMMA EnvDiscardIInv ==
  ASSUME IInv, NEW w \in Workers, EnvDiscard(w)
  PROVE  IInv'
  <1> USE DEF EnvDiscard, counterVars, dispatcherVars, infoVars, checkInVars, batchVars
  <1>1. /\ inflight' \in [Workers -> Nat] /\ discarded' \in [Workers -> Nat]
        /\ \A v \in Workers : inflight'[v] <= inflight[v]
    <2>1. inflight \in [Workers -> Nat] /\ discarded \in [Workers -> Nat]
      BY ZenonT(30) DEF IInv, TypeOK
    <2> QED
      BY <2>1
  <1>2. TypeOK'
    BY ZenonT(30), <1>1 DEF IInv, TypeOK
  <1>3. NeverUnderestimates'
    <2> SUFFICES ASSUME NEW v \in Workers
                 PROVE  num_running_jobs'[v] >= Outstanding(v)'
      BY DEF NeverUnderestimates
    <2>1. num_running_jobs[v] >= Outstanding(v)
      BY Zenon DEF IInv, NeverUnderestimates
    <2>2. UNCHANGED <<num_running_jobs, curr_size, prev_sizes, rx_mbuf_dispatch_q>>
      OBVIOUS
    <2>3. inflight'[v] <= inflight[v] /\ inflight'[v] \in Nat
      BY <1>1
    <2> HIDE DEF EnvDiscard
    <2> QED
      BY SMTT(30), <2>1, <2>2, <2>3, CountTypes DEF Outstanding
  <1> QED
    BY <1>2, <1>3 DEF IInv

LEMMA EnvCompleteIInv ==
  ASSUME IInv, NEW w \in Workers, EnvComplete(w)
  PROVE  IInv'
  <1> USE DEF EnvComplete, dispatcherVars, infoVars, checkInVars, batchVars
  <1>1. /\ inflight' \in [Workers -> Nat] /\ curr_size' \in [Workers -> Nat]
        /\ inflight'[w] = inflight[w] - 1 /\ curr_size'[w] = curr_size[w] + 1
        /\ \A v \in Workers \ {w} :
             inflight'[v] = inflight[v] /\ curr_size'[v] = curr_size[v]
    <2>1. inflight \in [Workers -> Nat] /\ curr_size \in [Workers -> Nat]
      BY ZenonT(30) DEF IInv, TypeOK
    <2> QED
      BY <2>1
  <1>2. TypeOK'
    BY ZenonT(30), <1>1 DEF IInv, TypeOK
  <1>3. \A v \in Workers : prev_sizes'[v] <= curr_size'[v]
    <2> SUFFICES ASSUME NEW v \in Workers PROVE prev_sizes'[v] <= curr_size'[v]
      OBVIOUS
    <2>1. prev_sizes'[v] = prev_sizes[v] /\ prev_sizes[v] <= curr_size[v]
      BY DEF IInv
    <2>2. curr_size'[v] = curr_size[v] \/ curr_size'[v] = curr_size[v] + 1
      BY <1>1
    <2> QED
      BY <2>1, <2>2, CountTypes
  <1>4. NeverUnderestimates'
    <2> SUFFICES ASSUME NEW v \in Workers
                 PROVE  num_running_jobs'[v] >= Outstanding(v)'
      BY DEF NeverUnderestimates
    <2>1. num_running_jobs[v] >= Outstanding(v)
      BY DEF IInv, NeverUnderestimates
    <2>2. UNCHANGED <<num_running_jobs, prev_sizes, rx_mbuf_dispatch_q>>
      OBVIOUS
    <2>3. \/ inflight'[v] = inflight[v] /\ curr_size'[v] = curr_size[v]
          \/ inflight'[v] = inflight[v] - 1 /\ curr_size'[v] = curr_size[v] + 1
      BY SMTT(30), <1>1
    <2> HIDE DEF EnvComplete
    <2>4. Outstanding(v)' = Outstanding(v)
      <3>1. /\ inflight[v] \in Nat /\ curr_size[v] \in Nat /\ prev_sizes[v] \in Nat
            /\ Len(rx_mbuf_dispatch_q[v]) \in Nat
        BY CountTypes
      <3> QED
        BY SMTT(30), <2>2, <2>3, <3>1 DEF Outstanding
    <2> QED
      BY <2>1, <2>2, <2>4
  <1> QED
    BY <1>2, <1>3, <1>4 DEF IInv

LEMMA EnvQuantaIInv ==
  ASSUME IInv, NEW w \in Workers, EnvQuanta(w)
  PROVE  IInv'
  <1> USE DEF EnvQuanta, envVars, dispatcherVars, infoVars, checkInVars, batchVars
  <1>1. curr_sq' \in [Workers -> Int]
    BY ZenonT(30)
  <1>2. TypeOK'
    BY ZenonT(30), <1>1 DEF IInv, TypeOK
  <1> QED
    BY <1>2 DEF IInv, NeverUnderestimates, Outstanding

LEMMA StutterIInv == IInv /\ UNCHANGED vars => IInv'
  BY ZenonT(30) DEF IInv, TypeOK, NeverUnderestimates, Outstanding, vars, counterVars, envVars,
     dispatcherVars, infoVars, checkInVars, batchVars

LEMMA NextIInv == IInv /\ [Next]_vars => IInv'
  <1> SUFFICES ASSUME IInv, [Next]_vars PROVE IInv'
    OBVIOUS
  <1>1. CASE DispatcherNext
    BY <1>1, RxBurstIInv, DispatchIInv, CheckInIInv, ReadQuantaIInv DEF DispatcherNext
  <1>2. CASE \E w \in Workers : EnvNext(w)
    BY <1>2, EnvTakeIInv, EnvDiscardIInv, EnvCompleteIInv, EnvQuantaIInv DEF EnvNext
  <1>3. CASE UNCHANGED vars
    BY <1>3, StutterIInv
  <1> QED
    BY <1>1, <1>2, <1>3 DEF Next

(* The inductive invariant holds in every reachable state.                 *)
LEMMA InvariantIInv == Spec => []IInv
  BY InitIInv, NextIInv, PTL DEF Spec

(* Type correctness: the dispatcher's counters keep their ranges whatever  *)
(* the workers do (run_server).                                            *)
THEOREM TypeCorrect == Spec => []TypeOK
  <1>1. IInv => TypeOK
    BY DEF IInv
  <1> QED
    BY <1>1, InvariantIInv, PTL

(* The dispatcher never believes a worker to have fewer jobs than it has:  *)
(* stale reads of the completion counters, short enqueues, invalid packets *)
(* and the 16-bit return_size only ever err on the safe side (run_server,  *)
(* num_running_jobs).                                                      *)
THEOREM EstimateIsUpperBound == Spec => []NeverUnderestimates
  <1>1. IInv => NeverUnderestimates
    BY DEF IInv
  <1> QED
    BY <1>1, InvariantIInv, PTL

--------------------------------------------------------------------------------
(* The version numbers make a heap serve as a queue for the check-in: for  *)
(* any number of workers, and as long as no version number overflows, each *)
(* round visits every worker exactly once, and so the top of the heap is   *)
(* the least loaded worker whenever a chunk is dispatched.                 *)

(* The workers that the running check-in round has already visited.        *)
CheckedIn == {w \in Workers : version_number[w] # cur_version_number}

(* Every round needs at least one dispatched packet, which bounds the      *)
(* version number by the packets that arrived; during a round the visited  *)
(* workers are one version ahead and there are as many of them as the loop *)
(* counter says.                                                           *)
VInv ==
  /\ cur_version_number \in Nat
  /\ cur_version_number + return_queue_checkin_idx + Len(rx_bufs) <= arrived
  /\ disp_pc \in {"checkin", "quanta"} => return_queue_checkin_idx > 0
  /\ \A w \in Workers :
       version_number[w] \in {cur_version_number, cur_version_number + 1}
  /\ disp_pc \in {"rx", "dispatch"} => CheckedIn = {}
  /\ disp_pc = "checkin" => Cardinality(CheckedIn) = checked
  /\ disp_pc = "quanta" => Cardinality(CheckedIn) = checked + 1

LEMMA CheckedInFinite ==
  /\ CheckedIn \subseteq Workers /\ IsFiniteSet(CheckedIn)
  /\ Cardinality(CheckedIn) \in Nat
  /\ Cardinality(CheckedIn) = Cardinality(Workers) => CheckedIn = Workers
  <1>1. CheckedIn \in SUBSET Workers
    BY DEF CheckedIn
  <1>2. IsFiniteSet(Workers)
    OBVIOUS
  <1>3. /\ IsFiniteSet(CheckedIn)
        /\ Cardinality(Workers) = Cardinality(CheckedIn) => Workers = CheckedIn
    BY <1>1, <1>2, FS_Subset
  <1> QED
    BY <1>1, <1>3, FS_CardinalityType

LEMMA InitVInv == Init => VInv
  <1> SUFFICES ASSUME Init PROVE VInv
    OBVIOUS
  <1> USE DEF Init, DispatcherInit
  <1>1. CheckedIn = {}
    BY DEF CheckedIn
  <1>2. Len(rx_bufs) = 0
    OBVIOUS
  <1> QED
    BY <1>1, <1>2 DEF VInv

LEMMA RxBurstVInv == IInv /\ VInv /\ RxBurst => VInv'
  <1> SUFFICES ASSUME IInv, VInv, RxBurst PROVE VInv'
    OBVIOUS
  <1>1. PICK nb_rx \in 1..Lesser(RxQueueBurstSize, MaxPackets - arrived) :
          /\ arrived' = arrived + nb_rx
          /\ rx_bufs' = [k \in 1..nb_rx |-> arrived + k]
    BY DEF RxBurst
  <1>2. nb_rx \in Nat /\ arrived \in Nat /\ return_queue_checkin_idx \in Nat
    <2>1. arrived \in 0..MaxPackets /\ return_queue_checkin_idx \in Nat
      BY DEF IInv, TypeOK
    <2>2. nb_rx \in 1..Lesser(RxQueueBurstSize, MaxPackets - arrived)
      BY <1>1
    <2> QED
      BY <2>1, <2>2, LesserProperties
  <1>3. Len(rx_bufs') = nb_rx
    BY <1>1, <1>2
  <1>4. Len(rx_bufs) \in Nat
    BY DEF IInv, TypeOK
  <1>5. UNCHANGED <<cur_version_number, version_number, return_queue_checkin_idx>>
    BY DEF RxBurst, infoVars, checkInVars
  <1>6. cur_version_number' + return_queue_checkin_idx' + Len(rx_bufs') <= arrived'
    <2>1. /\ cur_version_number \in Nat
          /\ cur_version_number + return_queue_checkin_idx + Len(rx_bufs) <= arrived
      BY DEF VInv
    <2>2. arrived' = arrived + nb_rx
      BY <1>1
    <2> QED
      BY <1>2, <1>3, <1>4, <1>5, <2>1, <2>2
  <1>7. CheckedIn' = CheckedIn
    BY <1>5 DEF CheckedIn
  <1>8. disp_pc = "rx" /\ disp_pc' = "dispatch"
    BY DEF RxBurst
  <1>9. CheckedIn = {} /\ cur_version_number' \in Nat
    BY <1>5, <1>8 DEF VInv
  <1>10. \A w \in Workers : version_number'[w] \in {cur_version_number',
                                                  cur_version_number' + 1}
    BY <1>5 DEF VInv
  <1> QED
    BY <1>6, <1>7, <1>8, <1>9, <1>10 DEF VInv

LEMMA DispatchVInv == IInv /\ VInv /\ Dispatch => VInv'
  <1> SUFFICES ASSUME IInv, VInv, Dispatch PROVE VInv'
    OBVIOUS
  <1>1. PICK w \in Workers : DispatchTo(w)
    BY DEF Dispatch, Targets, HeapTops
  <1>2. /\ return_queue_checkin_idx' = return_queue_checkin_idx +
             (IF NbReturn(w) = DispatchSize THEN DispatchSize ELSE 0)
        /\ rx_bufs' = AllAfter(rx_bufs, DispatchSize)
    BY <1>1 DEF DispatchTo
  <1>3. DispatchSize \in 0..Len(rx_bufs)
    BY ChunkBounds
  <1>4. rx_bufs \in Seq(1..MaxPackets)
    BY DEF IInv, TypeOK
  <1>5. Len(rx_bufs') = Len(rx_bufs) - DispatchSize /\ Len(rx_bufs) \in Nat
    BY <1>2, <1>3, <1>4, AllAfterProperties
  <1>6. return_queue_checkin_idx \in Nat /\ arrived \in 0..MaxPackets
    BY DEF IInv, TypeOK
  <1>7. UNCHANGED <<cur_version_number, version_number, arrived>>
    BY DEF Dispatch
  <1>8. cur_version_number' + return_queue_checkin_idx' + Len(rx_bufs') <= arrived'
    <2>1. /\ cur_version_number \in Nat
          /\ cur_version_number + return_queue_checkin_idx + Len(rx_bufs) <= arrived
      BY DEF VInv
    <2>2. return_queue_checkin_idx' = return_queue_checkin_idx + DispatchSize \/
          return_queue_checkin_idx' = return_queue_checkin_idx
      BY <1>2, <1>6
    <2> QED
      BY <1>3, <1>5, <1>6, <1>7, <2>1, <2>2
  <1>9. CheckedIn = {} /\ CheckedIn' = CheckedIn
    BY <1>7 DEF CheckedIn, VInv, Dispatch
  <1>10. /\ disp_pc' \in {"rx", "dispatch", "checkin"}
         /\ disp_pc' = "checkin" =>
              return_queue_checkin_idx' >= CheckInPeriod /\ checked' = 0
    BY DEF Dispatch
  <1>11. disp_pc' \in {"checkin", "quanta"} => return_queue_checkin_idx' > 0
    <2>1. return_queue_checkin_idx' \in Nat
      <3>1. IInv'
        BY DispatchIInv
      <3> QED
        BY <3>1 DEF IInv, TypeOK
    <2> QED
      BY <1>10, <2>1
  <1> QED
    BY <1>7, <1>8, <1>9, <1>10, <1>11, FS_EmptySet DEF VInv

(* A worker that the round has not visited yet exists as long as the loop  *)
(* runs, and no visited worker comes before it on the heap.                *)
LEMMA TopIsCurrent == IInv /\ VInv => CheckInSeesCurrentVersion
  <1> SUFFICES ASSUME IInv, VInv, disp_pc = "checkin", NEW w \in CheckInTops
               PROVE  version_number[w] = cur_version_number
    BY DEF CheckInSeesCurrentVersion
  <1>1. Cardinality(CheckedIn) < Cardinality(Workers)
    BY DEF IInv, VInv
  <1>2. CheckedIn # Workers
    BY <1>1, WorkersCount
  <1>3. PICK u \in Workers : version_number[u] = cur_version_number
    BY <1>2 DEF CheckedIn
  <1>4. w \in Workers
    BY DEF CheckInTops, HeapTops, OldestVersions
  <1>5. ~ (version_number[u] < version_number[w])
    <2>1. CASE Policy = "jsq"
      BY <2>1 DEF CheckInTops, HeapTops, Before
    <2>2. CASE Policy # "jsq"
      <3>1. version_number[w] <= version_number[u]
        BY <2>2 DEF CheckInTops, OldestVersions
      <3>2. version_number[w] \in Int /\ version_number[u] \in Int
        BY <1>4 DEF IInv, TypeOK
      <3> QED
        BY <3>1, <3>2
    <2> QED
      BY <2>1, <2>2
  <1>6. /\ version_number[w] = cur_version_number \/
           version_number[w] = cur_version_number + 1
        /\ cur_version_number \in Nat
    BY <1>4 DEF VInv
  <1> QED
    BY <1>3, <1>5, <1>6

(* During a round the version number is below the packets that arrived.    *)
LEMMA NoOverflow ==
  ASSUME MaxPackets <= IntMax, IInv, VInv, disp_pc \in {"checkin", "quanta"}
  PROVE  /\ IncInt(cur_version_number) = cur_version_number + 1
         /\ cur_version_number + 1 + Len(rx_bufs) <= arrived
  <1>1. /\ return_queue_checkin_idx \in Nat /\ arrived \in 0..MaxPackets
        /\ rx_bufs \in Seq(1..MaxPackets)
    BY DEF IInv, TypeOK
  <1>2. Len(rx_bufs) \in Nat
    BY <1>1
  <1>3. arrived \in 0..MaxPackets /\ return_queue_checkin_idx \in Nat
    BY <1>1
  <1>4. /\ cur_version_number \in Nat
        /\ cur_version_number + return_queue_checkin_idx + Len(rx_bufs) <= arrived
        /\ return_queue_checkin_idx > 0
    BY DEF VInv
  <1>5. /\ cur_version_number < MaxPackets
        /\ cur_version_number + 1 + Len(rx_bufs) <= arrived
    BY <1>2, <1>3, <1>4
  <1> QED
    BY <1>4, <1>5 DEF IncInt

LEMMA CheckInVInv ==
  ASSUME MaxPackets <= IntMax, IInv, VInv, CheckIn
  PROVE  VInv'
  <1>1. PICK w \in CheckInTops : CheckInWith(w)
    BY DEF CheckIn
  <1>2. w \in Workers
    BY DEF CheckInTops, HeapTops, OldestVersions
  <1>3. version_number[w] = cur_version_number
    BY TopIsCurrent DEF CheckInSeesCurrentVersion, CheckIn
  <1>4. IncInt(cur_version_number) = cur_version_number + 1
    BY NoOverflow DEF CheckIn
  <1>5. version_number' = [version_number EXCEPT ![w] = cur_version_number + 1]
    BY <1>1, <1>3, <1>4 DEF CheckInWith
  <1>6. version_number \in [Workers -> Int] /\ cur_version_number \in Nat
    BY DEF IInv, TypeOK, VInv
  <1>7. /\ version_number'[w] = cur_version_number + 1
        /\ \A v \in Workers \ {w} : version_number'[v] = version_number[v]
    BY <1>2, <1>5, <1>6
  <1>8. /\ UNCHANGED <<cur_version_number, return_queue_checkin_idx, rx_bufs,
                       arrived, checked>>
        /\ disp_pc = "checkin" /\ disp_pc' = "quanta"
    BY DEF CheckIn
  <1>9. CheckedIn' = CheckedIn \cup {w}
    BY <1>2, <1>6, <1>7, <1>8 DEF CheckedIn
  <1>10. Cardinality(CheckedIn') = checked' + 1
    <2>1. w \notin CheckedIn
      BY <1>3 DEF CheckedIn
    <2>2. Cardinality(CheckedIn) = checked
      BY <1>8 DEF VInv
    <2>3. Cardinality(CheckedIn \cup {w}) = Cardinality(CheckedIn) + 1
      BY ZenonT(30), <2>1, CheckedInFinite, FS_AddElement
    <2> QED
      BY <1>8, <1>9, <2>2, <2>3
  <1>11. \A v \in Workers : version_number'[v] \in {cur_version_number',
                                                   cur_version_number' + 1}
    BY <1>7, <1>8 DEF VInv
  <1> QED
    BY <1>8, <1>10, <1>11 DEF VInv

LEMMA ReadQuantaVInv ==
  ASSUME MaxPackets <= IntMax, IInv, VInv, ReadQuanta
  PROVE  VInv'
  <1>1. /\ UNCHANGED <<version_number, rx_bufs, arrived>>
        /\ disp_pc = "quanta" /\ checked' = checked + 1
    BY DEF ReadQuanta
  <1>2. Cardinality(CheckedIn) = checked'
    BY <1>1 DEF VInv
  <1>3. CASE checked' < Cardinality(Workers)
    <2>1. /\ UNCHANGED <<cur_version_number, return_queue_checkin_idx>>
          /\ disp_pc' = "checkin"
      BY <1>1, <1>3 DEF ReadQuanta, MoreWorkers
    <2>2. CheckedIn' = CheckedIn
      BY <1>1, <2>1 DEF CheckedIn
    <2> QED
      BY <1>1, <1>2, <2>1, <2>2 DEF VInv
  <1>4. CASE ~ (checked' < Cardinality(Workers))
    <2>1. CheckedIn = Workers
      <3>1. checked < Cardinality(Workers) /\ checked \in 0..Cardinality(Workers)
        BY <1>1 DEF IInv, TypeOK
      <3>2. checked' = Cardinality(Workers)
        BY <1>1, <1>4, <3>1, WorkersCount
      <3> QED
        BY <1>2, <3>2, CheckedInFinite
    <2>2. /\ disp_pc' = "rx" /\ return_queue_checkin_idx' = 0
          /\ cur_version_number' = IncInt(cur_version_number)
      BY <1>1, <1>4 DEF ReadQuanta, MoreWorkers
    <2>3. \A v \in Workers : version_number[v] = cur_version_number + 1
      BY <2>1 DEF VInv, CheckedIn
    <2>4. /\ cur_version_number' = cur_version_number + 1
          /\ cur_version_number + 1 + Len(rx_bufs) <= arrived
          /\ cur_version_number \in Nat
      BY <1>1, <2>2, NoOverflow DEF VInv
    <2>5. CheckedIn' = {}
      BY <1>1, <2>3, <2>4 DEF CheckedIn
    <2>6. Len(rx_bufs) \in Nat
      BY DEF IInv, TypeOK
    <2>7. cur_version_number' + return_queue_checkin_idx' + Len(rx_bufs') <= arrived'
      BY <1>1, <2>2, <2>4, <2>6
    <2>8. \A v \in Workers : version_number'[v] \in {cur_version_number',
                                                    cur_version_number' + 1}
      BY <1>1, <2>3, <2>4
    <2> QED
      BY SMTT(30), <2>2, <2>4, <2>5, <2>7, <2>8 DEF VInv
  <1> QED
    BY <1>3, <1>4

LEMMA UnchangedVInv == VInv /\ UNCHANGED dispatcherVars => VInv'
  BY DEF VInv, CheckedIn, dispatcherVars, infoVars, checkInVars, batchVars

LEMMA NextVInv ==
  ASSUME MaxPackets <= IntMax, IInv, VInv, [Next]_vars
  PROVE  VInv'
  <1>1. CASE DispatcherNext
    BY SMTT(30), <1>1, RxBurstVInv, DispatchVInv, CheckInVInv, ReadQuantaVInv
       DEF DispatcherNext
  <1>2. CASE \E w \in Workers : EnvNext(w)
    BY <1>2, UnchangedVInv DEF EnvNext, EnvTake, EnvDiscard, EnvComplete, EnvQuanta
  <1>3. CASE UNCHANGED vars
    BY <1>3, UnchangedVInv DEF vars
  <1> QED
    BY <1>1, <1>2, <1>3 DEF Next

LEMMA InvariantVInv ==
  ASSUME MaxPackets <= IntMax
  PROVE  Spec => [](IInv /\ VInv)
  <1>1. Init => IInv /\ VInv
    BY InitIInv, InitVInv
  <1>2. IInv /\ VInv /\ [Next]_vars => (IInv /\ VInv)'
    BY NextIInv, NextVInv
  <1> QED
    BY <1>1, <1>2, PTL DEF Spec

(* Until INT_MAX packets have arrived, the assertion of the check-in loop  *)
(* holds under every policy: the heap yields each worker once a round      *)
(* (run_server, assert(tmp_w->version_number == cur_version_number)).      *)
THEOREM EachWorkerOncePerRound ==
  ASSUME MaxPackets <= IntMax
  PROVE  Spec => []CheckInSeesCurrentVersion
  BY InvariantVInv, TopIsCurrent, PTL

(* Until INT_MAX packets have arrived, join-shortest-queue drops a packet  *)
(* only when it has good reason to believe every ring full: the ring that  *)
(* came up short belongs to the least loaded worker, and estimates never   *)
(* fall below the length of a ring (run_server, the dispatch loop).        *)
THEOREM DropsOnlyWhenAllFull ==
  ASSUME MaxPackets <= IntMax, Policy = "jsq"
  PROVE  Spec => DropsOnlyUnderFullLoad
  <1> DEFINE Drop == dropped' # dropped =>
                       \A w \in Workers :
                         num_running_jobs[w] + max_dispatch_size >= DispatchRingSize
  <1>1. ASSUME IInv, VInv, Next, dropped' # dropped, NEW w \in Workers
        PROVE  num_running_jobs[w] + max_dispatch_size >= DispatchRingSize
    <2>1. Dispatch
      BY <1>1 DEF Next, DispatcherNext, EnvNext, RxBurst, CheckIn, ReadQuanta,
         EnvTake, EnvDiscard, EnvComplete, EnvQuanta, dispatcherVars, batchVars
    <2>2. PICK t \in HeapTops : DispatchTo(t)
      BY <2>1 DEF Dispatch, Targets
    <2>3. t \in Workers
      BY DEF HeapTops
    <2>4. NbReturn(t) < DispatchSize
      <3>1. dropped' = dropped \cup
              {rx_bufs[k] : k \in (NbReturn(t) + 1)..DispatchSize}
        BY <2>2, Zenon DEF DispatchTo, Refused
      <3>2. (NbReturn(t) + 1)..DispatchSize # {}
        BY <1>1, <3>1
      <3>3. NbReturn(t) \in Int /\ DispatchSize \in Int
        BY <1>1, <2>3, ChunkBounds
      <3> QED
        BY SMTT(30), <3>2, <3>3
    <2>5. /\ Len(rx_mbuf_dispatch_q[t]) + DispatchSize >= DispatchRingSize
          /\ DispatchSize <= max_dispatch_size /\ DispatchSize \in Int
      BY <1>1, <2>3, <2>4, ChunkBounds
    <2>6. num_running_jobs[t] >= Len(rx_mbuf_dispatch_q[t])
      <3>1. num_running_jobs[t] >= Outstanding(t) /\ prev_sizes[t] <= curr_size[t]
        BY <1>1, <2>3 DEF IInv, NeverUnderestimates
      <3> QED
        BY SMTT(30), <1>1, <2>3, <3>1, CountTypes DEF Outstanding
    <2>7. num_running_jobs[w] >= num_running_jobs[t]
      <3>1. version_number[w] = version_number[t]
        BY <1>1, <2>1, <2>3 DEF VInv, CheckedIn, Dispatch
      <3>2. ~ (num_running_jobs[w] < num_running_jobs[t])
        BY <1>1, <3>1 DEF HeapTops, Before
      <3> QED
        BY <1>1, <2>3, <3>2, CountTypes
    <2>8. max_dispatch_size \in Nat
      BY <1>1 DEF IInv, TypeOK
    <2> QED
      BY SMTT(30), <1>1, <2>3, <2>5, <2>6, <2>7, <2>8, CountTypes
  <1>2. IInv /\ VInv /\ [Next]_vars => [Drop]_vars
    BY <1>1
  <1> QED
    BY <1>2, InvariantVInv, PTL DEF Spec, DropsOnlyUnderFullLoad

--------------------------------------------------------------------------------
(* The dispatcher's counting of jobs.                                      *)
HIDE DispatcherAssumption

(* The packets that were ever put on the ring of worker w.                 *)
Handled(w) ==
  Len(rx_mbuf_dispatch_q[w]) + inflight[w] + curr_size[w] + discarded[w]

(* What a worker does moves packets between the terms of Handled, so the   *)
(* estimates are compared with it rather than with Outstanding.            *)
EstimateInv == \A w \in Workers : num_running_jobs[w] = Handled(w) - prev_sizes[w]

(* How a step keeps the two counts that the dispatcher makes.              *)
KeepsCounts == (EstimateInv => EstimateInv') /\ (TotalIsSum => TotalIsSum')

(* A number below the modulus is its own remainder.                        *)
LEMMA ModSmall ==
  ASSUME NEW n \in Nat, NEW m \in 0..(n - 1)
  PROVE  m % n = m
  OBVIOUS

(* What the counts are made of.                                            *)
LEMMA CountsAre ==
  ASSUME IInv
  PROVE  /\ IsFiniteSet(Workers)
         /\ curr_size \in [Workers -> Nat] /\ prev_sizes \in [Workers -> Nat]
         /\ num_running_jobs \in [Workers -> Int] /\ Len(rx_bufs) \in Nat
         /\ \A v \in Workers :
              /\ Len(rx_mbuf_dispatch_q[v]) \in Nat /\ inflight[v] \in Nat
              /\ curr_size[v] \in Nat /\ discarded[v] \in Nat
              /\ prev_sizes[v] \in Nat /\ num_running_jobs[v] \in Int
              /\ prev_sizes[v] <= curr_size[v]
              /\ Handled(v) \in Nat
<1>1. TypeOK /\ \A v \in Workers : prev_sizes[v] <= curr_size[v] BY DEF IInv
<1>2. /\ curr_size \in [Workers -> Nat] /\ prev_sizes \in [Workers -> Nat]
      /\ num_running_jobs \in [Workers -> Int]
      /\ inflight \in [Workers -> Nat] /\ discarded \in [Workers -> Nat]
      /\ rx_mbuf_dispatch_q \in [Workers -> Seq(1..MaxPackets)]
      /\ rx_bufs \in Seq(1..MaxPackets)
  BY <1>1, Zenon DEF TypeOK
<1>3. Len(rx_bufs) \in Nat BY <1>2
<1>4. ASSUME NEW v \in Workers
      PROVE  /\ Len(rx_mbuf_dispatch_q[v]) \in Nat /\ inflight[v] \in Nat
             /\ curr_size[v] \in Nat /\ discarded[v] \in Nat
             /\ prev_sizes[v] \in Nat /\ num_running_jobs[v] \in Int
  <2>1. rx_mbuf_dispatch_q[v] \in Seq(1..MaxPackets) BY <1>2
  <2> QED BY <2>1, <1>2
<1>5. ASSUME NEW v \in Workers PROVE Handled(v) \in Nat
  BY <1>4 DEF Handled
<1> QED BY <1>1, <1>2, <1>3, <1>4, <1>5, DispatcherAssumption, Zenon

--------------------------------------------------------------------------------
LEMMA InitCounts == Init => EstimateInv /\ TotalIsSum
<1> SUFFICES ASSUME Init PROVE EstimateInv /\ TotalIsSum OBVIOUS
<1> USE DEF Init, DispatcherInit
<1>1. IsFiniteSet(Workers) BY DispatcherAssumption
<1>2. num_running_jobs \in [Workers -> {0}] /\ prev_sizes \in [Workers -> {0}]
  OBVIOUS
<1>3. \A v \in Workers : Handled(v) = 0 BY DEF Handled
<1>4. SumFunction(num_running_jobs) = 0 BY <1>1, <1>2, SumOfZeros
<1>5. EstimateInv BY <1>2, <1>3 DEF EstimateInv
<1>6. TotalIsSum BY <1>4 DEF TotalIsSum
<1> QED BY <1>5, <1>6

(* What a worker does moves packets, and moves none in or out.             *)
LEMMA EnvCount ==
  ASSUME \A v \in Workers : Handled(v)' = Handled(v), UNCHANGED dispatcherVars
  PROVE  KeepsCounts
<1>1. /\ UNCHANGED <<disp_pc, total_return_size, prev_sizes>>
      /\ UNCHANGED <<num_running_jobs, total_running_jobs>>
  BY DEF dispatcherVars, infoVars, checkInVars, batchVars
<1>2. TotalIsSum => TotalIsSum' BY <1>1 DEF TotalIsSum
<1>3. EstimateInv => EstimateInv' BY <1>1 DEF EstimateInv
<1> QED BY <1>2, <1>3 DEF KeepsCounts

LEMMA EnvNextCounts ==
  ASSUME IInv, NEW w \in Workers, EnvNext(w)
  PROVE  KeepsCounts
<1> SUFFICES ASSUME NEW v \in Workers
             PROVE  Handled(v)' = Handled(v) /\ UNCHANGED dispatcherVars
  BY EnvCount
<1>0. /\ Len(rx_mbuf_dispatch_q[v]) \in Nat /\ inflight[v] \in Nat
      /\ curr_size[v] \in Nat /\ discarded[v] \in Nat
  BY CountsAre
<1>t. /\ inflight \in [Workers -> Nat] /\ discarded \in [Workers -> Nat]
      /\ curr_size \in [Workers -> Nat]
      /\ rx_mbuf_dispatch_q \in [Workers -> Seq(1..MaxPackets)]
  BY Zenon DEF IInv, TypeOK
<1>1. CASE EnvTake(w)
  <2>1. PICK n \in 1..DequeueCount(rx_mbuf_dispatch_q[w],
                                   NumWorkerCoros - inflight[w]) :
          /\ rx_mbuf_dispatch_q' =
               [rx_mbuf_dispatch_q EXCEPT ![w] = AllAfter(@, n)]
          /\ inflight' = [inflight EXCEPT ![w] = @ + n]
    BY <1>1, Zenon DEF EnvTake
  <2>2. UNCHANGED <<curr_size, dispatcherVars, discarded>>
    BY <1>1, ZenonT(30) DEF EnvTake, counterVars
  <2>3. CASE v = w
    <3>1. rx_mbuf_dispatch_q[v] \in Seq(1..MaxPackets) BY SMTT(30), <1>t
    <3>2. NumWorkerCoros - inflight[v] \in Int BY <1>0, DispatcherAssumption
    <3>3. n \in 0..Len(rx_mbuf_dispatch_q[v])
      <4>1. /\ DequeueCount(rx_mbuf_dispatch_q[v], NumWorkerCoros - inflight[v]) \in Int
            /\ DequeueCount(rx_mbuf_dispatch_q[v], NumWorkerCoros - inflight[v])
                 <= Len(rx_mbuf_dispatch_q[v])
        BY <3>1, <3>2, DequeueCountProperties, Zenon
      <4>2. n \in 1..DequeueCount(rx_mbuf_dispatch_q[v], NumWorkerCoros - inflight[v])
        BY SMTT(30), <2>1, <2>3
      <4> QED BY SMTT(30), <4>1, <4>2, <1>0
    <3>4. Len(AllAfter(rx_mbuf_dispatch_q[v], n)) = Len(rx_mbuf_dispatch_q[v]) - n
      BY <3>1, <3>3, AllAfterProperties
    <3>5. /\ rx_mbuf_dispatch_q'[v] = AllAfter(rx_mbuf_dispatch_q[v], n)
          /\ inflight'[v] = inflight[v] + n
      BY <2>1, <2>3, <1>t
    <3>6. Handled(v)' = (Len(rx_mbuf_dispatch_q[v]) - n) + (inflight[v] + n)
                          + curr_size[v] + discarded[v]
      BY <2>2, <3>4, <3>5 DEF Handled
    <3> QED BY <3>6, <3>3, <1>0, <2>2 DEF Handled
  <2>4. CASE v # w
    <3>1. rx_mbuf_dispatch_q'[v] = rx_mbuf_dispatch_q[v] /\ inflight'[v] = inflight[v]
      BY <2>1, <2>4, <1>t
    <3> QED BY <3>1, <2>2 DEF Handled
  <2> QED BY <2>3, <2>4
<1>2. CASE EnvDiscard(w)
  <2>1. /\ inflight' = [inflight EXCEPT ![w] = @ - 1]
        /\ discarded' = [discarded EXCEPT ![w] = @ + 1]
        /\ UNCHANGED <<rx_mbuf_dispatch_q, curr_size, dispatcherVars>>
    BY <1>2, Zenon DEF EnvDiscard, counterVars
  <2>2. \/ inflight'[v] = inflight[v] /\ discarded'[v] = discarded[v]
        \/ inflight'[v] = inflight[v] - 1 /\ discarded'[v] = discarded[v] + 1
    BY <2>1, <1>t
  <2>3. Handled(v)' = Len(rx_mbuf_dispatch_q[v]) + inflight'[v] + curr_size[v]
                        + discarded'[v]
    BY <2>1 DEF Handled
  <2>4. \/ Handled(v)' = Handled(v)
        \/ Handled(v)' = Len(rx_mbuf_dispatch_q[v]) + (inflight[v] - 1) + curr_size[v]
                             + (discarded[v] + 1)
    BY <2>1, <2>2, <2>3 DEF Handled
  <2>5. Handled(v) = Len(rx_mbuf_dispatch_q[v]) + (inflight[v] - 1) + curr_size[v]
                             + (discarded[v] + 1)
    <3>1. PICK l \in Nat, i \in Nat, c \in Nat, d \in Nat :
             /\ l = Len(rx_mbuf_dispatch_q[v]) /\ i = inflight[v]
             /\ c = curr_size[v] /\ d = discarded[v]
      BY <1>0, Zenon
    <3>2. Handled(v) = l + i + c + d BY <3>1, Zenon DEF Handled
    <3>3. l + i + c + d = l + (i - 1) + c + (d + 1) OBVIOUS
    <3> QED BY <3>1, <3>2, <3>3, Zenon
  <2> QED BY <2>1, <2>4, <2>5
<1>3. CASE EnvComplete(w)
  <2>1. /\ inflight' = [inflight EXCEPT ![w] = @ - 1]
        /\ curr_size' = [curr_size EXCEPT ![w] = @ + 1]
        /\ UNCHANGED <<rx_mbuf_dispatch_q, discarded, dispatcherVars>>
    BY <1>3, Zenon DEF EnvComplete
  <2>2. \/ inflight'[v] = inflight[v] /\ curr_size'[v] = curr_size[v]
        \/ inflight'[v] = inflight[v] - 1 /\ curr_size'[v] = curr_size[v] + 1
    BY <2>1, <1>t
  <2>3. Handled(v)' = Len(rx_mbuf_dispatch_q[v]) + inflight'[v] + curr_size'[v]
                        + discarded[v]
    BY <2>1 DEF Handled
  <2>4. \/ Handled(v)' = Handled(v)
        \/ Handled(v)' = Len(rx_mbuf_dispatch_q[v]) + (inflight[v] - 1) + (curr_size[v] + 1)
                             + discarded[v]
    BY <2>1, <2>2, <2>3 DEF Handled
  <2>5. Handled(v) = Len(rx_mbuf_dispatch_q[v]) + (inflight[v] - 1) + (curr_size[v] + 1)
                             + discarded[v]
    <3>1. PICK l \in Nat, i \in Nat, c \in Nat, d \in Nat :
             /\ l = Len(rx_mbuf_dispatch_q[v]) /\ i = inflight[v]
             /\ c = curr_size[v] /\ d = discarded[v]
      BY <1>0, Zenon
    <3>2. Handled(v) = l + i + c + d BY <3>1, Zenon DEF Handled
    <3>3. l + i + c + d = l + (i - 1) + (c + 1) + d OBVIOUS
    <3> QED BY <3>1, <3>2, <3>3, Zenon
  <2> QED BY <2>1, <2>4, <2>5
<1>4. CASE EnvQuanta(w)
  <2>1. UNCHANGED <<rx_mbuf_dispatch_q, curr_size, inflight, discarded, dispatcherVars>>
    BY <1>4, Zenon DEF EnvQuanta, envVars
  <2> QED BY <2>1 DEF Handled
<1> QED BY <1>1, <1>2, <1>3, <1>4 DEF EnvNext

LEMMA RxBurstCounts == RxBurst => KeepsCounts
<1> SUFFICES ASSUME RxBurst PROVE KeepsCounts OBVIOUS
<1>1. /\ UNCHANGED <<rx_mbuf_dispatch_q, inflight, curr_size, discarded>>
      /\ UNCHANGED <<prev_sizes, num_running_jobs, total_running_jobs, total_return_size>>
      /\ disp_pc = "rx" /\ disp_pc' = "dispatch"
  BY DEF RxBurst, envVars, counterVars, infoVars, checkInVars
<1>2. \A v \in Workers : Handled(v)' = Handled(v) BY <1>1 DEF Handled
<1>3. EstimateInv => EstimateInv' BY <1>1, <1>2 DEF EstimateInv
<1>4. TotalIsSum => TotalIsSum' BY <1>1 DEF TotalIsSum
<1> QED BY <1>3, <1>4 DEF KeepsCounts

(* A chunk of ds packets leaves the batch, and nb <= ds of them go to the  *)
(* ring of one worker and into both counts.                                *)
LEMMA DispatchCounts == IInv /\ Dispatch => KeepsCounts
<1> SUFFICES ASSUME IInv, Dispatch PROVE KeepsCounts OBVIOUS
<1>1. PICK w \in Workers : DispatchTo(w)
  BY DispatcherAssumption DEF Dispatch, Targets, HeapTops
<1> DEFINE ds == DispatchSize
           nb == NbReturn(w)
           more == FirstOf(rx_bufs, nb)
<1>2. /\ rx_mbuf_dispatch_q \in [Workers -> Seq(1..MaxPackets)]
      /\ rx_bufs \in Seq(1..MaxPackets)
  BY DEF IInv, TypeOK
<1>3. ds \in 0..Len(rx_bufs) /\ nb \in 0..ds /\ nb \in 0..Len(rx_bufs)
  BY ChunkBounds
<1>4. /\ rx_mbuf_dispatch_q' = [rx_mbuf_dispatch_q EXCEPT ![w] = @ \o more]
      /\ num_running_jobs' = [num_running_jobs EXCEPT ![w] = @ + nb]
      /\ total_running_jobs' = total_running_jobs + nb
  BY <1>1 DEF DispatchTo, CountJobs
<1>5. /\ UNCHANGED <<inflight, curr_size, discarded, prev_sizes>>
      /\ disp_pc = "dispatch" /\ disp_pc' \in {"dispatch", "checkin", "rx"}
      /\ disp_pc' = "checkin" => total_return_size' = 0
  BY DEF Dispatch, envVars, counterVars
<1> HIDE DEF ds, nb
<1>6. more \in Seq(1..MaxPackets) /\ Len(more) = nb
  BY <1>2, <1>3, FirstOfProperties, Zenon
<1> HIDE DEF more
<1>7. /\ Len(rx_mbuf_dispatch_q'[w]) = Len(rx_mbuf_dispatch_q[w]) + nb
      /\ \A v \in Workers \ {w} : rx_mbuf_dispatch_q'[v] = rx_mbuf_dispatch_q[v]
  <2>1. rx_mbuf_dispatch_q[w] \in Seq(1..MaxPackets) BY <1>2
  <2>2. Len(rx_mbuf_dispatch_q[w] \o more) = Len(rx_mbuf_dispatch_q[w]) + nb
    BY <2>1, <1>6, ConcatFacts, Zenon
  <2> QED BY <2>2, <1>2, <1>4
<1>8. nb \in Nat BY <1>3
<1>9. /\ Handled(w)' = Handled(w) + nb
      /\ \A v \in Workers \ {w} : Handled(v)' = Handled(v)
  <2>1. Handled(w)' = (Len(rx_mbuf_dispatch_q[w]) + nb) + inflight[w] + curr_size[w]
                        + discarded[w]
    BY <1>5, <1>7, Zenon DEF Handled
  <2>2. /\ Len(rx_mbuf_dispatch_q[w]) \in Nat /\ inflight[w] \in Nat
        /\ curr_size[w] \in Nat /\ discarded[w] \in Nat
    BY CountsAre
  <2>3. Handled(w)' = Handled(w) + nb
    <3> DEFINE a == Len(rx_mbuf_dispatch_q[w])
               i == inflight[w]
               c == curr_size[w]
               d == discarded[w]
    <3>1. Handled(w) = a + i + c + d /\ Handled(w)' = (a + nb) + i + c + d
      BY <2>1, Zenon DEF Handled
    <3> HIDE DEF a, i, c, d
    <3>2. (a + nb) + i + c + d = (a + i + c + d) + nb BY <2>2, <1>8 DEF a, i, c, d
    <3> QED BY <3>1, <3>2, Zenon
  <2>4. \A v \in Workers \ {w} : Handled(v)' = Handled(v) BY <1>5, <1>7, Zenon DEF Handled
  <2> QED BY <2>3, <2>4
<1>10. /\ num_running_jobs'[w] = num_running_jobs[w] + nb
       /\ \A v \in Workers \ {w} : num_running_jobs'[v] = num_running_jobs[v]
  BY <1>4, CountsAre, Zenon
<1>11. /\ num_running_jobs \in [Workers -> Int] /\ num_running_jobs' \in [Workers -> Int]
       /\ IsFiniteSet(Workers)
  BY SMTT(30), <1>4, <1>8, CountsAre
<1>12. SumFunction(num_running_jobs)' = SumFunction(num_running_jobs) + nb
  <2>1. SumFunction(num_running_jobs') =
          SumFunction(num_running_jobs) + (num_running_jobs'[w] - num_running_jobs[w])
    BY <1>10, <1>11, SumChanges, ZenonT(30)
  <2>2. num_running_jobs'[w] - num_running_jobs[w] = nb BY <1>8, <1>10, <1>11
  <2> QED BY <2>1, <2>2
<1>13. ASSUME EstimateInv PROVE EstimateInv'
  <2> SUFFICES ASSUME NEW v \in Workers
               PROVE  num_running_jobs'[v] = Handled(v)' - prev_sizes[v]
    BY <1>5 DEF EstimateInv
  <2>1. num_running_jobs[v] = Handled(v) - prev_sizes[v] BY <1>13 DEF EstimateInv
  <2>2. Handled(v) \in Nat /\ prev_sizes[v] \in Nat BY CountsAre
  <2>3. CASE v = w BY SMTT(30), <2>1, <2>2, <2>3, <1>8, <1>9, <1>10
  <2>4. CASE v # w BY <2>1, <2>4, <1>9, <1>10
  <2> QED BY <2>3, <2>4
<1>14. ASSUME TotalIsSum PROVE TotalIsSum'
  <2> DEFINE s == SumFunction(num_running_jobs)
  <2>1. s \in Int BY CountsAre, SumType
  <2>2. total_running_jobs = s
    <3>1. total_running_jobs = s + 0 BY <1>5, <1>14 DEF TotalIsSum
    <3> HIDE DEF s
    <3> QED BY <2>1, <3>1
  <2>3. s' = s + nb BY <1>12
  <2> HIDE DEF s
  <2>4. total_running_jobs' = s' + 0 BY <2>1, <2>2, <2>3, <1>4, <1>8
  <2>5. (IF disp_pc' \in {"checkin", "quanta"} THEN total_return_size' ELSE 0) = 0
    BY <1>5
  <2> QED BY <2>4, <2>5 DEF TotalIsSum, s
<1> QED BY <1>13, <1>14 DEF KeepsCounts

(* A check-in moves what return_size counts from the estimate of one       *)
(* worker to what the round has returned: both counts stay right unless    *)
(* the one or the other uint16_t overflows.                                *)
LEMMA CheckInCounts ==
  ASSUME IInv, CheckIn
  PROVE  /\ FewUnread /\ EstimateInv => EstimateInv'
         /\ RoundFits /\ TotalIsSum => TotalIsSum'
<1>1. PICK w \in CheckInTops : CheckInWith(w) BY DEF CheckIn
<1> DEFINE r == ReturnSize(w)
           s == SumFunction(num_running_jobs)
<1>2. w \in Workers BY DEF CheckInTops, HeapTops, OldestVersions
<1>3. /\ prev_sizes' = [prev_sizes EXCEPT ![w] = curr_size[w]]
      /\ total_return_size' = (total_return_size + r) % U16
      /\ num_running_jobs' = [num_running_jobs EXCEPT ![w] = @ - r]
  BY <1>1 DEF CheckInWith
<1>4. /\ UNCHANGED <<rx_mbuf_dispatch_q, inflight, curr_size, discarded>>
      /\ UNCHANGED total_running_jobs
      /\ disp_pc = "checkin" /\ disp_pc' = "quanta"
  BY DEF CheckIn, envVars, counterVars
<1>5. \A v \in Workers : Handled(v)' = Handled(v) BY <1>4 DEF Handled
<1>6. /\ curr_size[w] \in Nat /\ prev_sizes[w] \in Nat /\ prev_sizes[w] <= curr_size[w]
      /\ U16 \in Nat \ {0}
  BY <1>2, CountsAre, DispatcherAssumption
<1>7. r \in Nat
  <2>1. curr_size[w] - prev_sizes[w] \in Nat BY <1>6
  <2> QED BY <2>1, <1>6, ModProperties DEF ReturnSize
<1> HIDE DEF r
<1>8. /\ num_running_jobs \in [Workers -> Int] /\ num_running_jobs' \in [Workers -> Int]
      /\ prev_sizes \in [Workers -> Nat] /\ IsFiniteSet(Workers)
  <2>1. /\ num_running_jobs \in [Workers -> Int] /\ prev_sizes \in [Workers -> Nat]
        /\ IsFiniteSet(Workers)
    BY CountsAre
  <2>2. num_running_jobs' \in [Workers -> Int] BY <2>1, <1>2, <1>3, <1>7
  <2> QED BY <2>1, <2>2
<1>9. /\ prev_sizes'[w] = curr_size[w] /\ num_running_jobs'[w] = num_running_jobs[w] - r
      /\ \A v \in Workers \ {w} : /\ prev_sizes'[v] = prev_sizes[v]
                                   /\ num_running_jobs[v] = num_running_jobs'[v]
  BY <1>2, <1>3, <1>8
<1>10. ASSUME FewUnread, EstimateInv PROVE EstimateInv'
  <2>1. r = curr_size[w] - prev_sizes[w]
    <3>1. curr_size[w] - prev_sizes[w] < U16 BY <1>2, <1>10 DEF FewUnread
    <3>2. curr_size[w] - prev_sizes[w] \in 0..(U16 - 1) BY <3>1, <1>6
    <3> QED BY <3>2, <1>6, ModSmall DEF r, ReturnSize
  <2> SUFFICES ASSUME NEW v \in Workers
               PROVE  num_running_jobs'[v] = Handled(v) - prev_sizes'[v]
    BY <1>5 DEF EstimateInv
  <2>2. num_running_jobs[v] = Handled(v) - prev_sizes[v] BY <1>10 DEF EstimateInv
  <2>3. Handled(v) \in Nat BY CountsAre
  <2>4. CASE v = w BY SMTT(30), <2>1, <2>2, <2>3, <2>4, <1>6, <1>9
  <2>5. CASE v # w BY <2>2, <2>5, <1>9
  <2> QED BY <2>4, <2>5
<1>11. ASSUME RoundFits, TotalIsSum PROVE TotalIsSum'
  <2>1. total_return_size \in Nat
    <3>1. total_return_size \in 0..(U16 - 1) BY DEF IInv, TypeOK
    <3> QED BY <3>1, <1>6
  <2>2. total_return_size' = total_return_size + r
    <3>1. total_return_size + r < U16 BY <1>1, <1>4, <1>11 DEF RoundFits, r
    <3>2. total_return_size + r \in 0..(U16 - 1) BY <3>1, <2>1, <1>6, <1>7
    <3> QED BY <3>2, <1>3, <1>6, ModSmall
  <2>3. s' = s - r
    <3>1. SumFunction(num_running_jobs') =
            SumFunction(num_running_jobs) + (num_running_jobs'[w] - num_running_jobs[w])
      BY <1>2, <1>8, <1>9, SumChanges, ZenonT(30)
    <3>2. num_running_jobs[w] \in Int BY <1>2, <1>8
    <3>3. num_running_jobs'[w] - num_running_jobs[w] = -r BY <3>2, <1>7, <1>9
    <3>4. s' = s + (-r) BY <3>1, <3>3
    <3>5. s \in Int BY <1>8, SumType
    <3> HIDE DEF s
    <3> QED BY <3>4, <3>5, <1>7
  <2>4. s \in Int BY <1>8, SumType
  <2>5. total_running_jobs = s + total_return_size BY <1>4, <1>11 DEF TotalIsSum
  <2> HIDE DEF s
  <2>6. total_running_jobs' = s' + total_return_size'
    BY <2>1, <2>2, <2>3, <2>4, <2>5, <1>4, <1>7
  <2> QED BY <2>6, <1>4 DEF TotalIsSum, s
<1> QED BY <1>10, <1>11

(* The end of a round takes what it returned off the total.                *)
LEMMA ReadQuantaCounts == IInv /\ ReadQuanta => KeepsCounts
<1> SUFFICES ASSUME IInv, ReadQuanta PROVE KeepsCounts OBVIOUS
<1>1. /\ UNCHANGED <<rx_mbuf_dispatch_q, inflight, curr_size, discarded>>
      /\ UNCHANGED <<prev_sizes, num_running_jobs, total_return_size>>
      /\ disp_pc = "quanta"
      /\ \/ disp_pc' = "checkin" /\ total_running_jobs' = total_running_jobs
         \/ disp_pc' = "rx" /\ total_running_jobs' = total_running_jobs - total_return_size
  BY DEF ReadQuanta, envVars, counterVars
<1>2. \A v \in Workers : Handled(v)' = Handled(v) BY <1>1 DEF Handled
<1>3. EstimateInv => EstimateInv' BY <1>1, <1>2 DEF EstimateInv
<1>4. ASSUME TotalIsSum PROVE TotalIsSum'
  <2> DEFINE s == SumFunction(num_running_jobs)
  <2>1. s \in Int /\ total_return_size \in Int
    <3>1. total_return_size \in 0..(U16 - 1) BY DEF IInv, TypeOK
    <3> QED BY SMTT(30), <3>1, CountsAre, SumType, DispatcherAssumption
  <2>2. total_running_jobs = s + total_return_size BY <1>1, <1>4 DEF TotalIsSum
  <2>3. s' = s BY <1>1
  <2> HIDE DEF s
  <2>4. CASE disp_pc' = "checkin"
    <3>1. total_running_jobs' = s' + total_return_size' BY <2>2, <2>3, <2>4, <1>1
    <3> QED BY <3>1, <2>4 DEF TotalIsSum, s
  <2>5. CASE disp_pc' = "rx"
    <3>1. total_running_jobs' = s' + 0 BY <2>1, <2>2, <2>3, <2>5, <1>1
    <3> QED BY <3>1, <2>5 DEF TotalIsSum, s
  <2> QED BY <2>4, <2>5, <1>1
<1> QED BY <1>3, <1>4 DEF KeepsCounts

LEMMA NextCounts ==
  ASSUME IInv, [Next]_vars
  PROVE  /\ FewUnread /\ EstimateInv => EstimateInv'
         /\ RoundFits /\ TotalIsSum => TotalIsSum'
<1>1. CASE CheckIn BY <1>1, CheckInCounts
<1>2. CASE RxBurst \/ Dispatch \/ ReadQuanta
  BY <1>2, RxBurstCounts, DispatchCounts, ReadQuantaCounts DEF KeepsCounts
<1>3. CASE \E w \in Workers : EnvNext(w) BY <1>3, EnvNextCounts DEF KeepsCounts
<1>4. CASE UNCHANGED vars
  <2>1. /\ UNCHANGED <<rx_mbuf_dispatch_q, inflight, curr_size, discarded>>
        /\ UNCHANGED dispatcherVars
    BY <1>4 DEF vars, counterVars, envVars
  <2>2. \A v \in Workers : Handled(v)' = Handled(v) BY <2>1 DEF Handled
  <2> QED BY <2>1, <2>2, EnvCount DEF KeepsCounts
<1> QED BY <1>1, <1>2, <1>3, <1>4 DEF Next, DispatcherNext

(* However many packets come: as long as no worker completes 2^16 jobs     *)
(* between two readings of its counter, the dispatcher's estimate of every *)
(* worker is exact up to the invalid packets, which stay in it for good.   *)
(* Short enqueues, stale readings and the order of the check-ins cost      *)
(* nothing (run_server, num_running_jobs).                                 *)
THEOREM EstimatesAreExact == Spec /\ []FewUnread => []EstimateExact
<1>1. Init => IInv /\ EstimateInv BY InitIInv, InitCounts
<1>2. FewUnread /\ IInv /\ EstimateInv /\ [Next]_vars => IInv' /\ EstimateInv'
  BY NextIInv, NextCounts
<1>3. IInv /\ EstimateInv => EstimateExact
  <2> SUFFICES ASSUME IInv, EstimateInv, NEW v \in Workers
               PROVE  num_running_jobs[v] = Outstanding(v) + discarded[v]
    BY DEF EstimateExact
  <2>1. num_running_jobs[v] = Handled(v) - prev_sizes[v] BY DEF EstimateInv
  <2>2. /\ Len(rx_mbuf_dispatch_q[v]) \in Nat /\ inflight[v] \in Nat
        /\ curr_size[v] \in Nat /\ discarded[v] \in Nat /\ prev_sizes[v] \in Nat
    BY CountsAre
  <2> QED BY <2>1, <2>2 DEF Handled, Outstanding
<1> QED BY <1>1, <1>2, <1>3, PTL DEF Spec

(* However many packets come: as long as a round of check-ins returns      *)
(* fewer than 2^16 jobs in all, total_running_jobs is the sum of the       *)
(* workers' estimates, up to what the current round has returned           *)
(* (run_server, total_return_size).                                        *)
THEOREM TotalIsTheSum == Spec /\ []RoundFits => []TotalIsSum
<1>1. Init => IInv /\ TotalIsSum BY InitIInv, InitCounts
<1>2. RoundFits /\ IInv /\ TotalIsSum /\ [Next]_vars => IInv' /\ TotalIsSum'
  BY NextIInv, NextCounts
<1> QED BY <1>1, <1>2, PTL DEF Spec
================================================================================
