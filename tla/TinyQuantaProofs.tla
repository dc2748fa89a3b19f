---------------------------- MODULE TinyQuantaProofs ----------------------------
(***************************************************************************)
(* The server of TinyQuanta.tla does what Worker.tla expects of a          *)
(* dispatcher and what Dispatcher.tla expects of the workers, for every    *)
(* value of the constants, so that what is proved of the two parts holds   *)
(* of the server.  No receive buffer is ever lost sight of, and the server *)
(* keeps the promise of JobService.tla.                                    *)
(***************************************************************************)
EXTENDS TinyQuanta, RteRingProofs

Numbered == 1..MaxPackets

(* The parts count with the same operator.                                 *)
LEMMA SameCardinality ==
  ASSUME NEW S PROVE D!Cardinality(S) = Cardinality(S) /\ J!Cardinality(S) = Cardinality(S)
  BY DEF D!Cardinality, J!Cardinality, Cardinality

(* What is used of cardinalities.                                          *)
Counts ==
  /\ Cardinality({}) = 0 /\ \A x : Cardinality({x}) = 1
  /\ Cardinality(Workers) \in Nat \ {0}
  /\ \A S \in SUBSET Numbered : \A p \in Numbered \ S :
       Cardinality(S \cup {p}) = Cardinality(S) + 1

(* What the workers rely on: the batch holds the packets that arrived last, *)
(* in order, until each of them has been offered to a worker; no ring is   *)
(* overfull.                                                               *)
Offered == arrived - Len(rx_bufs)

Batch ==
  /\ arrived \in 0..MaxPackets /\ rx_bufs \in Seq(Numbered)
  /\ Len(rx_bufs) <= arrived
  /\ \A j \in 1..Len(rx_bufs) : rx_bufs[j] = Offered + j
  /\ disp_pc = "dispatch" => Len(rx_bufs) > 0 /\ max_dispatch_size \in Nat \ {0}
  /\ disp_pc # "dispatch" => rx_bufs = <<>>

Rings ==
  /\ rx_mbuf_dispatch_q \in [Workers -> Seq(Numbered)]
  /\ \A w \in Workers : Len(rx_mbuf_dispatch_q[w]) <= DispatchRingSize - 1

LEMMA InitServer == Init => W!Init /\ Batch /\ Rings
<1> SUFFICES ASSUME Init PROVE W!Init /\ Batch /\ Rings OBVIOUS
<1>1. arrived = 0 /\ rx_bufs = <<>> /\ disp_pc = "rx"
  BY DEF Init, D!DispatcherInit
<1>2. rx_mbuf_dispatch_q = [w \in Workers |-> <<>>] BY DEF Init, D!DispatcherInit
<1>3. arrived = 0 /\ Len(rx_bufs) = 0 BY <1>1
<1>4. arrived - Len(rx_bufs) = 0 BY <1>3
<1>5. W!Init BY <1>4 DEF Init, W!Init
<1>6. Batch BY <1>1, ServerAssumption DEF Batch
<1>7. Rings BY <1>2, ServerAssumption DEF Rings
<1> QED BY <1>5, <1>6, <1>7

(* The variables of the workers, when the dispatcher runs.                 *)
LEMMA WorkersStill ==
  ASSUME UNCHANGED workerVars, Offered' = Offered,
         UNCHANGED <<rx_mbuf_dispatch_q, curr_size, curr_sq>>
  PROVE  UNCHANGED W!vars
  BY DEF workerVars, Offered, W!vars, W!counterVars, W!nicVars, W!workerVars, W!coroVars,
     W!indexVars, W!fateVars

(* A burst from the NIC is not yet offered to anyone.                      *)
LEMMA RxBurstServer ==
  ASSUME Counts, Batch, Rings, D!RxBurst
  PROVE  /\ Offered' = Offered /\ Batch' /\ Rings' /\ arrived' >= arrived
         /\ UNCHANGED <<rx_mbuf_dispatch_q, curr_size, curr_sq, dropped>>
<1>1. \E nb_rx \in 1..D!Lesser(RxQueueBurstSize, MaxPackets - arrived) :
        /\ arrived' = arrived + nb_rx
        /\ rx_bufs' = [k \in 1..nb_rx |-> arrived + k]
        /\ max_dispatch_size' = D!CeilDiv(nb_rx, Cardinality(Workers))
  BY SameCardinality, Zenon DEF D!RxBurst
<1>2. /\ disp_pc = "rx" /\ disp_pc' = "dispatch"
      /\ UNCHANGED <<rx_mbuf_dispatch_q, curr_size, curr_sq, dropped>>
  BY DEF D!RxBurst, D!counterVars
<1>3. arrived \in 0..MaxPackets /\ rx_bufs = <<>> BY <1>2 DEF Batch
<1>4. PICK nb_rx \in 1..D!Lesser(RxQueueBurstSize, MaxPackets - arrived) :
        /\ arrived' = arrived + nb_rx
        /\ rx_bufs' = [k \in 1..nb_rx |-> arrived + k]
        /\ max_dispatch_size' = D!CeilDiv(nb_rx, Cardinality(Workers))
  BY <1>1
<1>5. nb_rx \in Nat \ {0} /\ nb_rx <= MaxPackets - arrived /\ MaxPackets \in Nat
  BY <1>3, ServerAssumption DEF D!Lesser
<1>6. rx_bufs' \in Seq(Numbered) /\ Len(rx_bufs') = nb_rx
  BY <1>3, <1>4, <1>5 DEF Numbered
<1>7. Offered' = Offered
  <2>1. Len(rx_bufs) = 0 BY <1>3
  <2>2. arrived' - Len(rx_bufs') = arrived BY <1>3, <1>4, <1>5, <1>6
  <2> QED BY <2>1, <2>2, <1>3 DEF Offered
<1>8. Cardinality(Workers) \in Nat \ {0} BY Zenon DEF Counts
<1>9. max_dispatch_size' \in Nat \ {0} BY <1>4, <1>5, <1>8 DEF D!CeilDiv
<1>10. Batch'
  <2>1. arrived' \in 0..MaxPackets /\ Len(rx_bufs') <= arrived'
    BY <1>3, <1>4, <1>5, <1>6
  <2>2. \A j \in 1..Len(rx_bufs') : rx_bufs'[j] = Offered' + j
    BY <1>3, <1>4, <1>5, <1>6 DEF Offered
  <2> QED BY <2>1, <2>2, <1>2, <1>5, <1>6, <1>9 DEF Batch
<1>11. Rings' BY <1>2 DEF Rings
<1> QED BY <1>2, <1>3, <1>4, <1>5, <1>7, <1>10, <1>11

(* A check-in is none of the workers' business.                            *)
LEMMA CheckInServer ==
  ASSUME Batch, Rings, D!CheckIn \/ D!ReadQuanta
  PROVE  /\ Batch' /\ Rings'
         /\ UNCHANGED <<rx_mbuf_dispatch_q, curr_size, curr_sq, arrived, rx_bufs, dropped>>
<1>1. UNCHANGED <<rx_mbuf_dispatch_q, curr_size, curr_sq, arrived, rx_bufs, dropped>>
  BY DEF D!CheckIn, D!ReadQuanta, D!counterVars
<1>2. disp_pc # "dispatch" /\ disp_pc' # "dispatch" BY DEF D!CheckIn, D!ReadQuanta
<1>3. Batch' BY <1>1, <1>2 DEF Batch, Offered
<1>4. Rings' BY <1>1 DEF Rings
<1> QED BY <1>1, <1>3, <1>4

(* A chunk is the next n packets, of which worker w gets the first k and   *)
(* nobody the others.                                                      *)
Chunk(w, n, k) ==
  /\ n \in 1..(MaxPackets - Offered)
  /\ k \in 0..W!EnqueueCount(rx_mbuf_dispatch_q[w], DispatchRingSize, n)
  /\ k <= n /\ arrived' = arrived /\ Offered' = Offered + n /\ Offered' <= arrived
  /\ rx_mbuf_dispatch_q' =
       [rx_mbuf_dispatch_q EXCEPT ![w] = @ \o [j \in 1..k |-> Offered + j]]
  /\ dropped' = dropped \cup ((Offered + k + 1)..(Offered + n))
  /\ UNCHANGED <<curr_size, curr_sq>>

LEMMA DispatchServer ==
  ASSUME Batch, Rings, D!Dispatch
  PROVE  Batch' /\ Rings' /\ \E w \in Workers, n, k \in Nat : Chunk(w, n, k)
<1>1. \E w \in D!Targets : D!DispatchTo(w) BY Zenon DEF D!Dispatch
<1>2. D!Targets \subseteq Workers BY ServerAssumption DEF D!Targets, D!HeapTops
<1>3. PICK w \in Workers : D!DispatchTo(w) BY <1>1, <1>2
<1> DEFINE n == D!DispatchSize
           k == D!NbReturn(w)
           q == rx_mbuf_dispatch_q[w]
<1>4. /\ disp_pc = "dispatch" /\ UNCHANGED <<arrived, curr_size, curr_sq, max_dispatch_size>>
      /\ disp_pc' = "dispatch" <=> rx_bufs' # <<>>
  BY DEF D!Dispatch, D!counterVars
<1>5. /\ arrived \in 0..MaxPackets /\ rx_bufs \in Seq(Numbered) /\ Len(rx_bufs) <= arrived
      /\ Len(rx_bufs) > 0 /\ max_dispatch_size \in Nat \ {0} /\ Len(rx_bufs) \in Nat
      /\ MaxPackets \in Nat /\ q \in Seq(Numbered) /\ DispatchRingSize \in Nat
      /\ Len(q) <= DispatchRingSize - 1 /\ Len(q) \in Nat
  BY <1>4, ServerAssumption DEF Batch, Rings
<1>6. \A j \in 1..Len(rx_bufs) : rx_bufs[j] = Offered + j BY DEF Batch
<1>7. n \in Nat /\ n >= 1 /\ n <= Len(rx_bufs) BY <1>5 DEF D!DispatchSize, D!Lesser
<1>8. /\ k = EnqueueCount(q, DispatchRingSize, n)
      /\ k = W!EnqueueCount(q, DispatchRingSize, n)
  BY DEF D!NbReturn, D!EnqueueCount, EnqueueCount, W!EnqueueCount, D!FreeCount, FreeCount,
     W!FreeCount, D!Lesser, Lesser, W!Lesser
<1>9. /\ rx_mbuf_dispatch_q' = [rx_mbuf_dispatch_q EXCEPT ![w] = @ \o FirstOf(rx_bufs, k)]
      /\ dropped' = dropped \cup {rx_bufs[j] : j \in (k + 1)..n}
      /\ rx_bufs' = AllAfter(rx_bufs, n)
  BY <1>3 DEF D!DispatchTo, D!Refused, D!FirstOf, FirstOf, D!AllAfter, AllAfter
<1> HIDE DEF n, k, q
<1>10. k \in 0..n /\ Len(q) + k <= DispatchRingSize - 1
  BY <1>5, <1>7, <1>8, EnqueueCountProperties, Zenon
<1>11. FirstOf(rx_bufs, k) = [j \in 1..k |-> Offered + j]
  <2>1. FirstOf(rx_bufs, k) = [j \in 1..k |-> rx_bufs[j]]
    BY <1>5, <1>7, <1>10 DEF FirstOf
  <2>2. \A j \in 1..k : rx_bufs[j] = Offered + j BY <1>6, <1>5, <1>7, <1>10
  <2> QED BY <2>1, <2>2
<1>12. {rx_bufs[j] : j \in (k + 1)..n} = (Offered + k + 1)..(Offered + n)
  <2>1. Offered \in Nat BY <1>5 DEF Offered
  <2>2. \A j \in (k + 1)..n : rx_bufs[j] = Offered + j BY <1>6, <1>5, <1>7, <1>10
  <2>3. \A j \in (k + 1)..n : rx_bufs[j] \in (Offered + k + 1)..(Offered + n)
    BY <2>1, <2>2, <1>7, <1>10
  <2>4. ASSUME NEW x \in (Offered + k + 1)..(Offered + n)
        PROVE  x \in {rx_bufs[j] : j \in (k + 1)..n}
    <3>1. x - Offered \in (k + 1)..n /\ Offered + (x - Offered) = x
      BY <2>1, <1>7, <1>10
    <3>2. rx_bufs[x - Offered] = x BY <3>1, <2>2
    <3> QED BY <3>1, <3>2
  <2> QED BY <2>3, <2>4
<1>13. rx_bufs' \in Seq(Numbered) /\ Len(rx_bufs') = Len(rx_bufs) - n
  BY <1>5, <1>7, <1>9, AllAfterProperties
<1>14. Offered \in Nat /\ Offered' = Offered + n /\ Offered' <= arrived
  BY <1>4, <1>5, <1>7, <1>13 DEF Offered
<1>15. Chunk(w, n, k)
  <2>1. n \in 1..(MaxPackets - Offered) BY <1>5, <1>7, <1>14
  <2>2. k \in 0..W!EnqueueCount(rx_mbuf_dispatch_q[w], DispatchRingSize, n)
    BY <1>8, <1>10 DEF q
  <2> QED BY <2>1, <2>2, <1>4, <1>9, <1>10, <1>11, <1>12, <1>14 DEF Chunk
<1>16. Batch'
  <2>1. \A j \in 1..Len(rx_bufs') : rx_bufs'[j] = Offered' + j
    <3> SUFFICES ASSUME NEW j \in 1..Len(rx_bufs') PROVE rx_bufs'[j] = Offered' + j
      OBVIOUS
    <3>1. j + n \in 1..Len(rx_bufs) /\ j \in Nat BY <1>5, <1>7, <1>13
    <3>2. rx_bufs'[j] = rx_bufs[j + n] BY <3>1, <1>5, <1>7, <1>9 DEF AllAfter
    <3> QED BY <3>1, <3>2, <1>6, <1>7, <1>14
  <2>2. rx_bufs' # <<>> => Len(rx_bufs') > 0 BY <1>13
  <2> QED BY <2>1, <2>2, <1>4, <1>5, <1>7, <1>13 DEF Batch
<1>17. Rings'
  <2>1. FirstOf(rx_bufs, k) \in Seq(Numbered) /\ Len(FirstOf(rx_bufs, k)) = k
    <3>1. rx_bufs \in Seq(Numbered) /\ k \in 0..Len(rx_bufs) BY <1>5, <1>7, <1>10
    <3> QED BY <3>1, FirstOfProperties, Zenon
  <2>2. /\ q \o FirstOf(rx_bufs, k) \in Seq(Numbered)
        /\ Len(q \o FirstOf(rx_bufs, k)) <= DispatchRingSize - 1
    BY <2>1, <1>5, <1>10
  <2>3. rx_mbuf_dispatch_q' = [rx_mbuf_dispatch_q EXCEPT ![w] = q \o FirstOf(rx_bufs, k)]
    BY <1>9 DEF q
  <2> QED BY <2>2, <2>3 DEF Rings
<1> QED BY <1>7, <1>10, <1>15, <1>16, <1>17

--------------------------------------------------------------------------------
(* Every step of the server is one that Worker.tla allows.                 *)
Stacks == idle_coros \in [Workers -> Seq(1..NumWorkerCoros)]

LEMMA ChunkIsOffered ==
  ASSUME W!Alive, UNCHANGED workerVars, NEW w \in Workers, NEW n, NEW k, Chunk(w, n, k)
  PROVE  W!EnvOffer(w)
<1>1. UNCHANGED <<W!counterVars, W!nicVars, W!workerVars>>
  BY DEF Chunk, workerVars, W!counterVars, W!nicVars, W!workerVars, W!coroVars,
     W!indexVars, W!fateVars
<1> QED BY <1>1, Zenon DEF Chunk, Offered, W!EnvOffer

(* A worker takes packets off its ring and puts none there.                *)
LEMMA RingShrinks ==
  ASSUME Stacks, Rings, NEW w \in Workers, W!WorkerNext(w)
  PROVE  Rings'
<1>1. W!Poll(w) \/ UNCHANGED rx_mbuf_dispatch_q
  BY Zenon DEF W!WorkerNext, W!Preempt, W!Finish, W!Settle, W!Accept, W!AcceptWithoutBuffer,
     W!Discard, W!NextOfBurst, W!Flush
<1>2. CASE W!Poll(w)
  <2> DEFINE q == rx_mbuf_dispatch_q[w]
             n == IF W!PollDue(w) THEN W!DequeueCount(q, Len(idle_coros[w])) ELSE 0
  <2>1. rx_mbuf_dispatch_q' = [rx_mbuf_dispatch_q EXCEPT ![w] = AllAfter(q, n)]
    BY <1>2 DEF W!Poll, W!AllAfter, AllAfter
  <2>2. q \in Seq(Numbered) /\ Len(q) \in Nat /\ Len(idle_coros[w]) \in Nat
    BY DEF Rings, Stacks
  <2>3. n \in 0..Len(q) BY <2>2 DEF W!DequeueCount, W!Lesser
  <2> HIDE DEF n, q
  <2>4. AllAfter(q, n) \in Seq(Numbered) /\ Len(AllAfter(q, n)) <= Len(q)
    BY <2>2, <2>3, AllAfterProperties
  <2>5. Len(q) <= DispatchRingSize - 1 BY DEF Rings, q
  <2>6. Len(AllAfter(q, n)) <= DispatchRingSize - 1
    BY <2>2, <2>4, <2>5, ServerAssumption
  <2> QED BY <2>1, <2>4, <2>6 DEF Rings
<1>3. CASE UNCHANGED rx_mbuf_dispatch_q BY <1>3 DEF Rings
<1> QED BY <1>1, <1>2, <1>3

LEMMA ServerStep ==
  ASSUME Counts, Stacks, Batch, Rings, [Next]_vars
  PROVE  [W!Next]_(W!vars) /\ Batch' /\ Rings'
<1>1. ASSUME UNCHANGED dispatcherVars PROVE Batch'
  BY <1>1 DEF dispatcherVars, Batch, Offered
<1>2. CASE UNCHANGED vars
  <2>1. UNCHANGED dispatcherVars /\ UNCHANGED workerVars
        /\ UNCHANGED <<rx_mbuf_dispatch_q, curr_size, curr_sq>>
    BY <1>2 DEF vars
  <2>2. Offered' = Offered /\ Rings' BY <2>1 DEF dispatcherVars, Offered, Rings
  <2> QED BY <2>1, <2>2, <1>1, WorkersStill, Zenon
<1>3. CASE DispatcherStep
  <2>1. W!Alive /\ UNCHANGED workerVars BY <1>3 DEF DispatcherStep
  <2>2. CASE D!RxBurst
    <3>1. /\ Offered' = Offered /\ Batch' /\ Rings'
          /\ UNCHANGED <<rx_mbuf_dispatch_q, curr_size, curr_sq>>
      BY <2>2, RxBurstServer
    <3> QED BY <3>1, <2>1, WorkersStill, Zenon
  <2>3. CASE D!CheckIn \/ D!ReadQuanta
    <3>1. /\ Batch' /\ Rings'
          /\ UNCHANGED <<rx_mbuf_dispatch_q, curr_size, curr_sq, arrived, rx_bufs>>
      BY <2>3, CheckInServer
    <3>2. Offered' = Offered BY <3>1 DEF Offered
    <3> QED BY <3>1, <3>2, <2>1, WorkersStill, Zenon
  <2>4. CASE D!Dispatch
    <3>1. Batch' /\ Rings' /\ \E w \in Workers, n, k \in Nat : Chunk(w, n, k)
      BY <2>4, DispatchServer
    <3>2. \E w \in Workers : W!EnvOffer(w) BY <3>1, <2>1, ChunkIsOffered, Zenon
    <3> QED BY <3>1, <3>2, Zenon DEF W!Next
  <2> QED BY <1>3, <2>2, <2>3, <2>4 DEF DispatcherStep, D!DispatcherNext
<1>4. ASSUME NEW w \in Workers, WorkerStep(w) PROVE W!Next /\ Batch' /\ Rings'
  <2>1. UNCHANGED dispatcherVars /\ W!WorkerNext(w) BY <1>4 DEF WorkerStep
  <2> QED BY <2>1, <1>1, RingShrinks, Zenon DEF W!Next
<1>5. ASSUME NEW w \in Workers, NicStep(w) PROVE W!Next /\ Batch' /\ Rings'
  <2>1. UNCHANGED dispatcherVars /\ W!NicSends(w) BY <1>5 DEF NicStep
  <2>2. Rings' BY <2>1 DEF Rings, W!NicSends
  <2> QED BY <2>1, <2>2, <1>1, Zenon DEF W!Next
<1> QED BY <1>2, <1>3, <1>4, <1>5, Zenon DEF Next

--------------------------------------------------------------------------------
(* Every step of the server is one that Dispatcher.tla allows.  What it    *)
(* takes of the workers: a coroutine is idle or has a job; a worker that   *)
(* runs a job or polls has examined its whole burst; a packet is not       *)
(* examined again once it was found invalid.                               *)
Loops ==
  /\ busy_coros \in [Workers -> Seq(1..NumWorkerCoros)] /\ Stacks
  /\ burst \in [Workers -> Seq(Numbered)] /\ invalid \in [Workers -> SUBSET Numbered]
  /\ curr_size \in [Workers -> Nat] /\ curr_sq \in [Workers -> Int]
  /\ \A w \in Workers :
       /\ Len(idle_coros[w]) + Len(busy_coros[w]) = NumWorkerCoros
       /\ w_pc[w] \in {"run", "poll"} => burst[w] = <<>>
       /\ w_pc[w] = "take" => burst[w] # <<>>
       /\ Range(burst[w]) \cap invalid[w] = {}

(* What the dispatcher cannot see of a worker.                             *)
Inflight == [w \in Workers |-> Len(burst[w]) + Len(busy_coros[w])]
Discarded == [w \in Workers |-> Cardinality(invalid[w])]

LEMMA LoopNumbers ==
  ASSUME Loops, NEW w \in Workers
  PROVE  /\ idle_coros[w] \in Seq(1..NumWorkerCoros) /\ burst[w] \in Seq(Numbered)
         /\ Len(burst[w]) \in Nat /\ Len(idle_coros[w]) \in Nat /\ NumWorkerCoros \in Nat
         /\ Inflight[w] = Len(burst[w]) + (NumWorkerCoros - Len(idle_coros[w]))
<1> DEFINE idle == Len(idle_coros[w])
           busy == Len(busy_coros[w])
           taken == Len(burst[w])
<1>1. idle + busy = NumWorkerCoros BY DEF Loops
<1>2. /\ idle_coros[w] \in Seq(1..NumWorkerCoros) /\ burst[w] \in Seq(Numbered)
      /\ busy_coros[w] \in Seq(1..NumWorkerCoros)
  BY DEF Loops, Stacks
<1>3. idle \in Nat /\ busy \in Nat /\ taken \in Nat BY <1>2
<1>4. Inflight[w] = taken + busy BY DEF Inflight
<1>5. NumWorkerCoros \in Nat BY ServerAssumption
<1> HIDE DEF idle, busy, taken
<1>6. Inflight[w] = taken + (NumWorkerCoros - idle) BY <1>1, <1>3, <1>4, <1>5
<1> QED BY <1>2, <1>3, <1>5, <1>6, Zenon DEF idle, taken

(* The burst and the stack of idle coroutines of one worker decide.        *)
LEMMA InflightChange ==
  ASSUME Loops, Loops', NEW w \in Workers, NEW b, NEW s, NEW d \in Int,
         burst' = [burst EXCEPT ![w] = b], idle_coros' = [idle_coros EXCEPT ![w] = s],
         Len(b) - Len(s) = Len(burst[w]) - Len(idle_coros[w]) + d
  PROVE  /\ Inflight'[w] = Inflight[w] + d
         /\ \A v \in Workers \ {w} : Inflight'[v] = Inflight[v]
<1>1. NumWorkerCoros \in Nat BY ServerAssumption
<1>2. /\ burst'[w] = b /\ idle_coros'[w] = s
      /\ \A v \in Workers \ {w} : burst'[v] = burst[v] /\ idle_coros'[v] = idle_coros[v]
  BY DEF Loops, Stacks
<1>3. ASSUME NEW v \in Workers
      PROVE  /\ Len(burst'[v]) \in Nat /\ Len(idle_coros'[v]) \in Nat
             /\ Inflight'[v] = Len(burst'[v]) + (NumWorkerCoros - Len(idle_coros'[v]))
  <2> DEFINE idle == Len(idle_coros'[v])
             busy == Len(busy_coros'[v])
             taken == Len(burst'[v])
  <2>1. idle + busy = NumWorkerCoros BY DEF Loops
  <2>2. /\ idle_coros'[v] \in Seq(1..NumWorkerCoros) /\ burst'[v] \in Seq(Numbered)
        /\ busy_coros'[v] \in Seq(1..NumWorkerCoros)
    BY Zenon DEF Loops, Stacks
  <2>3. idle \in Nat /\ busy \in Nat /\ taken \in Nat BY <2>2
  <2>4. Inflight'[v] = taken + busy BY DEF Inflight
  <2> HIDE DEF idle, busy, taken
  <2>5. Inflight'[v] = taken + (NumWorkerCoros - idle) BY <2>1, <2>3, <2>4, <1>1
  <2> QED BY <2>3, <2>5, Zenon DEF idle, taken
<1>4. Inflight'[w] = Inflight[w] + d
  <2> DEFINE i == Len(idle_coros[w])
             t == Len(burst[w])
             j == Len(s)
             u == Len(b)
  <2>1. i \in Nat /\ t \in Nat /\ Inflight[w] = t + (NumWorkerCoros - i) BY LoopNumbers
  <2>2. j \in Nat /\ u \in Nat /\ Inflight'[w] = u + (NumWorkerCoros - j)
    BY <1>2, <1>3, Zenon
  <2>3. u - j = t - i + d OBVIOUS
  <2> HIDE DEF i, t, j, u
  <2> QED BY <2>1, <2>2, <2>3, <1>1
<1>5. \A v \in Workers \ {w} : Inflight'[v] = Inflight[v] BY <1>2, <1>3, LoopNumbers, Zenon
<1> QED BY <1>4, <1>5

LEMMA InflightStays ==
  ASSUME Loops, Loops', NEW w \in Workers, NEW b, NEW s,
         burst' = [burst EXCEPT ![w] = b], idle_coros' = [idle_coros EXCEPT ![w] = s],
         Len(b) - Len(s) = Len(burst[w]) - Len(idle_coros[w])
  PROVE  Inflight' = Inflight
<1>1. Len(b) - Len(s) = Len(burst[w]) - Len(idle_coros[w]) + 0 BY LoopNumbers
<1>2. /\ Inflight'[w] = Inflight[w] + 0
      /\ \A v \in Workers \ {w} : Inflight'[v] = Inflight[v]
  <2>1. 0 \in Int OBVIOUS
  <2> QED BY <1>1, <2>1, InflightChange, Zenon
<1>3. Inflight[w] \in Int BY LoopNumbers
<1>4. \A v \in Workers : Inflight'[v] = Inflight[v] BY <1>2, <1>3
<1> QED BY <1>4, Zenon DEF Inflight

LEMMA InflightSame ==
  ASSUME Loops, Loops', UNCHANGED <<burst, idle_coros>> PROVE Inflight' = Inflight
<1>1. PICK w \in Workers : TRUE BY ServerAssumption
<1>2. burst' = [burst EXCEPT ![w] = burst[w]] BY DEF Loops
<1>3. idle_coros' = [idle_coros EXCEPT ![w] = idle_coros[w]] BY DEF Loops, Stacks
<1> QED BY <1>2, <1>3, InflightStays, Zenon

LEMMA ServerUnseen ==
  ASSUME UNCHANGED dispatcherVars,
         UNCHANGED <<rx_mbuf_dispatch_q, curr_size, curr_sq, Inflight, Discarded>>
  PROVE  UNCHANGED D!vars
  BY Zenon DEF dispatcherVars, Inflight, Discarded, D!vars, D!counterVars, D!dispatcherVars,
     D!infoVars, D!checkInVars, D!batchVars, D!envVars

LEMMA QuantaSeen ==
  ASSUME Loops, Loops', UNCHANGED dispatcherVars, NEW w \in Workers,
         W!Preempt(w) \/ W!Settle(w)
  PROVE  D!EnvQuanta(w)
<1>1. UNCHANGED <<burst, idle_coros, invalid, rx_mbuf_dispatch_q, curr_size>>
  BY DEF W!Preempt, W!Settle, W!coroVars, W!fateVars
<1>2. \A u \in Workers \ {w} : curr_sq'[u] = curr_sq[u]
  BY DEF W!Preempt, W!Settle, Loops
<1>3. curr_sq' \in [Workers -> Int] BY DEF Loops
<1>4. UNCHANGED <<Inflight, Discarded>> BY <1>1, InflightSame DEF Discarded
<1>5. UNCHANGED D!dispatcherVars
  BY DEF dispatcherVars, D!dispatcherVars, D!infoVars, D!checkInVars, D!batchVars
<1>6. UNCHANGED D!envVars BY <1>4, Zenon DEF D!envVars, Inflight, Discarded
<1> QED BY <1>1, <1>2, <1>3, <1>5, <1>6 DEF D!EnvQuanta

LEMMA CompletionSeen ==
  ASSUME Loops, Loops', UNCHANGED dispatcherVars, NEW w \in Workers, W!Finish(w)
  PROVE  D!EnvComplete(w)
<1>1. /\ UNCHANGED <<burst, invalid, rx_mbuf_dispatch_q, curr_sq>>
      /\ curr_size' = [curr_size EXCEPT ![w] = @ + 1]
      /\ w_pc[w] = "run" /\ busy_coros[w] # <<>>
  BY Zenon DEF W!Finish, W!fateVars, W!CountCompletion
<1>2. PICK c : idle_coros' = [idle_coros EXCEPT ![w] = Append(@, c)] BY Zenon DEF W!Finish
<1>3. Len(Append(idle_coros[w], c)) = Len(idle_coros[w]) + 1
  BY LoopNumbers
<1>4. burst' = [burst EXCEPT ![w] = burst[w]] BY <1>1 DEF Loops
<1>5. /\ Inflight'[w] = Inflight[w] + (-1)
      /\ \A v \in Workers \ {w} : Inflight'[v] = Inflight[v]
  <2>1. Len(burst[w]) - Len(Append(idle_coros[w], c)) =
          Len(burst[w]) - Len(idle_coros[w]) + (-1)
    BY <1>3, LoopNumbers
  <2>2. -1 \in Int OBVIOUS
  <2> QED BY <2>1, <2>2, <1>2, <1>4, InflightChange, Zenon
<1>6. Inflight[w] \in Int /\ Inflight[w] > 0
  <2>1. busy_coros[w] \in Seq(1..NumWorkerCoros) BY DEF Loops
  <2>2. Len(busy_coros[w]) > 0 /\ Len(busy_coros[w]) \in Nat BY <2>1, <1>1
  <2>3. Inflight[w] = Len(burst[w]) + Len(busy_coros[w]) BY DEF Inflight
  <2>4. Len(burst[w]) \in Nat BY LoopNumbers
  <2>5. \A m, n \in Nat : n > 0 => m + n \in Int /\ m + n > 0 OBVIOUS
  <2> QED BY <2>2, <2>3, <2>4, <2>5, Zenon
<1>7. Inflight' = [Inflight EXCEPT ![w] = @ - 1]
  <2>1. Inflight'[w] = Inflight[w] - 1 BY <1>5, <1>6
  <2> QED BY <2>1, <1>5, Zenon DEF Inflight
<1>8. UNCHANGED Discarded BY <1>1 DEF Discarded
<1>9. UNCHANGED D!dispatcherVars
  BY DEF dispatcherVars, D!dispatcherVars, D!infoVars, D!checkInVars, D!batchVars
<1> QED BY <1>1, <1>6, <1>7, <1>8, <1>9, Zenon DEF D!EnvComplete, Inflight, Discarded

LEMMA TakeSeen ==
  ASSUME Loops, Loops', Rings, UNCHANGED dispatcherVars, NEW w \in Workers, W!Poll(w)
  PROVE  D!EnvTake(w) \/ UNCHANGED D!vars
<1> DEFINE q == rx_mbuf_dispatch_q[w]
           m == Len(idle_coros[w])
           n == IF W!PollDue(w) THEN W!DequeueCount(q, m) ELSE 0
<1>1. /\ burst' = [burst EXCEPT ![w] = FirstOf(q, n)]
      /\ rx_mbuf_dispatch_q' = [rx_mbuf_dispatch_q EXCEPT ![w] = AllAfter(q, n)]
  BY Zenon DEF W!Poll, W!FirstOf, W!AllAfter, FirstOf, AllAfter
<1>2. /\ UNCHANGED <<curr_size, curr_sq, idle_coros, invalid>>
      /\ w_pc[w] \in {"run", "poll"}
  BY Zenon DEF W!Poll, W!counterVars, W!coroVars, W!fateVars
<1>3. burst[w] = <<>> BY <1>2 DEF Loops
<1>4. q \in Seq(Numbered) /\ Len(q) \in Nat /\ m \in Nat /\ NumWorkerCoros \in Nat
  BY LoopNumbers DEF Rings
<1>5. n \in 0..Len(q) /\ n <= m /\ n \in Nat BY <1>4 DEF W!DequeueCount, W!Lesser
<1>6. Inflight[w] = NumWorkerCoros - m /\ Inflight[w] \in Int
  <2>1. Len(burst[w]) = 0 BY <1>3
  <2>2. Inflight[w] = Len(burst[w]) + (NumWorkerCoros - m) BY LoopNumbers
  <2> HIDE DEF m
  <2> QED BY <2>1, <2>2, <1>4
<1>7. UNCHANGED Discarded BY <1>2 DEF Discarded
<1>8. idle_coros' = [idle_coros EXCEPT ![w] = idle_coros[w]] BY <1>2 DEF Loops, Stacks
<1> HIDE DEF n, q
<1>9. Len(FirstOf(q, n)) = n BY <1>4, <1>5, FirstOfProperties, Zenon
<1>10. /\ Inflight'[w] = Inflight[w] + n
       /\ \A v \in Workers \ {w} : Inflight'[v] = Inflight[v]
  <2>1. Len(FirstOf(q, n)) - m = Len(burst[w]) - m + n
    <3>1. Len(burst[w]) = 0 BY <1>3
    <3> HIDE DEF m
    <3> QED BY <3>1, <1>4, <1>5, <1>9
  <2>2. n \in Int BY <1>5
  <2> QED BY <2>1, <2>2, <1>1, <1>8, InflightChange, Zenon
<1> HIDE DEF m
<1>11. CASE n = 0
  <2>1. UNCHANGED rx_mbuf_dispatch_q
    <3>1. AllAfter(q, 0) = q BY <1>4 DEF AllAfter
    <3> QED BY <3>1, <1>1, <1>11 DEF Rings, q
  <2>2. Inflight' = Inflight
    <3>1. Inflight'[w] = Inflight[w] BY <1>6, <1>10, <1>11
    <3> QED BY <3>1, <1>10, Zenon DEF Inflight
  <2> QED BY <2>1, <2>2, <1>2, <1>7, ServerUnseen, Zenon
<1>12. CASE n # 0
  <2>1. n \in 1..D!DequeueCount(q, NumWorkerCoros - Inflight[w])
    BY <1>4, <1>5, <1>6, <1>12 DEF D!DequeueCount, D!Lesser
  <2>2. rx_mbuf_dispatch_q' = [rx_mbuf_dispatch_q EXCEPT ![w] = D!AllAfter(@, n)]
    BY <1>1 DEF q, AllAfter, D!AllAfter
  <2>3. Inflight' = [Inflight EXCEPT ![w] = @ + n] BY <1>10, Zenon DEF Inflight
  <2>4. UNCHANGED D!dispatcherVars
    BY DEF dispatcherVars, D!dispatcherVars, D!infoVars, D!checkInVars, D!batchVars
  <2>5. UNCHANGED D!counterVars BY <1>2 DEF D!counterVars
  <2> QED BY <2>1, <2>2, <2>3, <2>4, <2>5, <1>7, Zenon
          DEF D!EnvTake, q, Inflight, Discarded
<1> QED BY <1>11, <1>12

(* Popping the burst.                                                      *)
LEMMA BurstPops ==
  ASSUME Loops, NEW w \in Workers, w_pc[w] = "take"
  PROVE  /\ W!PopBack(burst[w]) \in Seq(Numbered)
         /\ Len(W!PopBack(burst[w])) = Len(burst[w]) - 1
         /\ W!Back(burst[w]) \in Range(burst[w]) /\ Len(burst[w]) >= 1
<1> DEFINE s == burst[w]
<1>1. s \in Seq(Numbered) /\ s # <<>> BY LoopNumbers DEF Loops
<1>2. Len(s) \in Nat /\ Len(s) >= 1 BY <1>1
<1>3. W!PopBack(s) = FirstOf(s, Len(s) - 1) BY DEF W!PopBack, W!FirstOf, FirstOf
<1>4. Len(s) - 1 \in 0..Len(s) BY <1>2
<1>5. s[Len(s)] \in Range(s) BY <1>1, <1>2 DEF Range
<1> HIDE DEF s
<1>6. /\ FirstOf(s, Len(s) - 1) \in Seq(Numbered)
      /\ Len(FirstOf(s, Len(s) - 1)) = Len(s) - 1
  BY <1>1, <1>4, FirstOfProperties, Zenon
<1> QED BY <1>2, <1>3, <1>5, <1>6, Zenon DEF s, W!Back

LEMMA AcceptUnseen ==
  ASSUME Loops, Loops', UNCHANGED dispatcherVars, NEW w \in Workers, W!Accept(w)
  PROVE  UNCHANGED D!vars
<1>1. /\ burst' = [burst EXCEPT ![w] = W!PopBack(burst[w])]
      /\ idle_coros' = [idle_coros EXCEPT ![w] = W!PopBack(idle_coros[w])]
      /\ w_pc[w] = "take"
      /\ UNCHANGED <<rx_mbuf_dispatch_q, curr_size, curr_sq, invalid>>
  BY DEF W!Accept, W!NextOfBurst, W!counterVars, W!fateVars
<1>2. /\ Len(W!PopBack(burst[w])) = Len(burst[w]) - 1
      /\ Len(burst[w]) \in Nat /\ Len(idle_coros[w]) \in Nat
  BY <1>1, BurstPops, LoopNumbers
<1>3. Len(W!PopBack(idle_coros[w])) = Len(idle_coros[w]) - 1
  <2>1. idle_coros'[w] = W!PopBack(idle_coros[w]) BY <1>1 DEF Loops, Stacks
  <2>2. busy_coros'[w] = <<W!Back(idle_coros[w])>> \o busy_coros[w]
    BY DEF W!Accept, W!WithNewJob, Loops
  <2>3. /\ busy_coros[w] \in Seq(1..NumWorkerCoros)
        /\ busy_coros'[w] \in Seq(1..NumWorkerCoros)
        /\ idle_coros'[w] \in Seq(1..NumWorkerCoros)
    BY Zenon DEF Loops, Stacks
  <2>4. Len(busy_coros'[w]) = Len(busy_coros[w]) + 1 BY <2>2, <2>3
  <2>5. /\ Len(idle_coros[w]) + Len(busy_coros[w]) = NumWorkerCoros
        /\ Len(idle_coros'[w]) + Len(busy_coros'[w]) = NumWorkerCoros
    BY DEF Loops
  <2> DEFINE i == Len(idle_coros[w])
             j == Len(idle_coros'[w])
             k == Len(busy_coros[w])
             l == Len(busy_coros'[w])
  <2>6. i \in Nat /\ j \in Nat /\ k \in Nat /\ l \in Nat BY <2>3, LoopNumbers
  <2>7. l = k + 1 /\ i + k = j + l BY <2>4, <2>5, Zenon
  <2> HIDE DEF i, j, k, l
  <2>8. j = i - 1 BY <2>6, <2>7
  <2> QED BY <2>1, <2>8 DEF i, j
<1>4. Len(W!PopBack(burst[w])) - Len(W!PopBack(idle_coros[w])) =
        Len(burst[w]) - Len(idle_coros[w])
  <2> DEFINE i == Len(idle_coros[w])
             t == Len(burst[w])
  <2>1. i \in Nat /\ t \in Nat BY <1>2
  <2>2. t - 1 - (i - 1) = t - i BY <2>1
  <2> QED BY <2>2, <1>2, <1>3
<1>5. Inflight' = Inflight BY <1>1, <1>4, InflightStays, Zenon
<1>6. UNCHANGED Discarded BY <1>1 DEF Discarded
<1> QED BY <1>1, <1>5, <1>6, ServerUnseen, Zenon

LEMMA DiscardSeen ==
  ASSUME Counts, Loops, Loops', UNCHANGED dispatcherVars, NEW w \in Workers, W!Discard(w)
  PROVE  D!EnvDiscard(w)
<1> DEFINE p == W!Back(burst[w])
<1>1. /\ burst' = [burst EXCEPT ![w] = W!PopBack(burst[w])]
      /\ invalid' = [invalid EXCEPT ![w] = @ \cup {p}] /\ w_pc[w] = "take"
      /\ UNCHANGED <<rx_mbuf_dispatch_q, curr_size, curr_sq, idle_coros>>
  BY DEF W!Discard, W!NextOfBurst, W!counterVars, W!coroVars
<1>2. /\ Len(W!PopBack(burst[w])) = Len(burst[w]) - 1 /\ Len(burst[w]) >= 1
      /\ Len(burst[w]) \in Nat /\ Len(idle_coros[w]) \in Nat
      /\ p \in Range(burst[w])
  BY <1>1, BurstPops, LoopNumbers
<1>3. p \notin invalid[w] /\ invalid[w] \subseteq Numbered BY <1>2 DEF Loops
<1> HIDE DEF p
<1>4. p \in Numbered
  <2>1. burst[w] \in Seq(Numbered) BY DEF Loops
  <2> QED BY <2>1, <1>2 DEF Range
<1>5. Cardinality(invalid[w] \cup {p}) = Cardinality(invalid[w]) + 1
  BY <1>3, <1>4, Zenon DEF Counts
<1>6. Discarded' = [Discarded EXCEPT ![w] = @ + 1]
  <2>1. /\ invalid'[w] = invalid[w] \cup {p}
        /\ \A v \in Workers \ {w} : invalid'[v] = invalid[v]
    BY <1>1, Zenon DEF Loops
  <2>2. /\ Discarded'[w] = Discarded[w] + 1
        /\ \A v \in Workers \ {w} : Discarded'[v] = Discarded[v]
    BY <2>1, <1>5 DEF Discarded
  <2> QED BY <2>2, Zenon DEF Discarded
<1>7. /\ Inflight'[w] = Inflight[w] + (-1)
      /\ \A v \in Workers \ {w} : Inflight'[v] = Inflight[v]
  <2>1. Len(W!PopBack(burst[w])) - Len(idle_coros[w]) =
          Len(burst[w]) - Len(idle_coros[w]) + (-1)
    <3> DEFINE i == Len(idle_coros[w])
               t == Len(burst[w])
    <3>1. i \in Nat /\ t \in Nat BY <1>2
    <3>2. t - 1 - i = t - i + (-1) BY <3>1
    <3> QED BY <3>2, <1>2
  <2>2. idle_coros' = [idle_coros EXCEPT ![w] = idle_coros[w]] BY <1>1 DEF Loops, Stacks
  <2>3. -1 \in Int OBVIOUS
  <2> QED BY <2>1, <2>2, <2>3, <1>1, InflightChange, Zenon
<1>8. Inflight[w] \in Int /\ Inflight[w] > 0
  <2>1. busy_coros[w] \in Seq(1..NumWorkerCoros) BY DEF Loops
  <2>2. Len(busy_coros[w]) \in Nat BY <2>1
  <2>3. Inflight[w] = Len(burst[w]) + Len(busy_coros[w]) BY DEF Inflight
  <2>4. \A m, n \in Nat : m >= 1 => m + n \in Int /\ m + n > 0 OBVIOUS
  <2> QED BY <2>2, <2>3, <2>4, <1>2, Zenon
<1>9. Inflight' = [Inflight EXCEPT ![w] = @ - 1]
  <2>1. Inflight'[w] = Inflight[w] - 1 BY <1>7, <1>8
  <2> QED BY <2>1, <1>7, Zenon DEF Inflight
<1>10. UNCHANGED D!dispatcherVars
  BY DEF dispatcherVars, D!dispatcherVars, D!infoVars, D!checkInVars, D!batchVars
<1>11. UNCHANGED D!counterVars BY <1>1 DEF D!counterVars
<1> QED BY <1>1, <1>6, <1>8, <1>9, <1>10, <1>11, Zenon
        DEF D!EnvDiscard, Inflight, Discarded

LEMMA SeenStep ==
  ASSUME Counts, Loops, Loops', Rings, [Next]_vars
  PROVE  [D!Next]_(D!vars)
<1>1. ASSUME UNCHANGED dispatcherVars, UNCHANGED <<burst, idle_coros, invalid>>,
             UNCHANGED <<rx_mbuf_dispatch_q, curr_size, curr_sq>>
      PROVE  UNCHANGED D!vars
  <2>1. Inflight' = Inflight BY <1>1, InflightSame
  <2>2. Discarded' = Discarded BY <1>1 DEF Discarded
  <2> QED BY <1>1, <2>1, <2>2, ServerUnseen, Zenon
<1>2. CASE UNCHANGED vars BY <1>2, <1>1 DEF vars, workerVars
<1>3. CASE DispatcherStep BY <1>3 DEF DispatcherStep, D!Next
<1>4. ASSUME NEW w \in Workers, NicStep(w) PROVE UNCHANGED D!vars
  <2>1. /\ UNCHANGED dispatcherVars
        /\ UNCHANGED <<burst, idle_coros, invalid, rx_mbuf_dispatch_q, curr_size, curr_sq>>
    BY <1>4 DEF NicStep, W!NicSends, W!counterVars, W!workerVars, W!coroVars, W!fateVars
  <2> QED BY <2>1, <1>1
<1>5. ASSUME NEW w \in Workers, WorkerStep(w) PROVE D!EnvNext(w) \/ UNCHANGED D!vars
  <2>1. UNCHANGED dispatcherVars /\ W!WorkerNext(w) BY <1>5 DEF WorkerStep
  <2>2. CASE W!AcceptWithoutBuffer(w) \/ W!Flush(w)
    <3>1. UNCHANGED <<burst, idle_coros, invalid, rx_mbuf_dispatch_q, curr_size, curr_sq>>
      BY <2>2 DEF W!AcceptWithoutBuffer, W!Flush, W!counterVars, W!coroVars, W!fateVars
    <3> QED BY <3>1, <2>1, <1>1
  <2>3. CASE W!Preempt(w) \/ W!Settle(w)
    BY <2>1, <2>3, QuantaSeen, Zenon DEF D!EnvNext
  <2>4. CASE W!Finish(w) BY <2>1, <2>4, CompletionSeen, Zenon DEF D!EnvNext
  <2>5. CASE W!Poll(w) BY <2>1, <2>5, TakeSeen, Zenon DEF D!EnvNext
  <2>6. CASE W!Accept(w) BY <2>1, <2>6, AcceptUnseen, Zenon
  <2>7. CASE W!Discard(w) BY <2>1, <2>7, DiscardSeen, Zenon DEF D!EnvNext
  <2> QED BY <2>1, <2>2, <2>3, <2>4, <2>5, <2>6, <2>7, Zenon DEF W!WorkerNext
<1> QED BY <1>2, <1>3, <1>4, <1>5, Zenon DEF Next, D!Next

LEMMA InitSeen ==
  ASSUME Counts, Init PROVE D!Init
<1>1. \A w \in Workers : burst[w] = <<>> /\ busy_coros[w] = <<>> /\ invalid[w] = {}
  BY DEF Init, W!WorkerInit
<1>2. \A w \in Workers : Len(burst[w]) = 0 /\ Len(busy_coros[w]) = 0 BY <1>1
<1>3. Inflight = [w \in Workers |-> 0]
  <2>1. 0 + 0 = 0 OBVIOUS
  <2>2. \A w \in Workers : Len(burst[w]) + Len(busy_coros[w]) = 0 BY <1>2, <2>1, Zenon
  <2> QED BY <2>2, Zenon DEF Inflight
<1>4. Discarded = [w \in Workers |-> 0] BY <1>1, Zenon DEF Discarded, Counts
<1> QED BY <1>3, <1>4, Zenon DEF Init, D!Init, Inflight, Discarded

--------------------------------------------------------------------------------
(* Where the requests are.  Those of the batch, on the rings and in the    *)
(* bursts wait.                                                            *)
Queued == UNION {Range(rx_mbuf_dispatch_q[w]) \cup Range(burst[w]) : w \in Workers}
Waits == ((Offered + 1)..arrived) \cup Queued
Runs == UNION {{rx_mbuf[w][c] : c \in Range(busy_coros[w])} : w \in Workers}
Dones == UNION {Range(tx_bufs[w]) : w \in Workers}
Invalids == UNION {invalid[w] : w \in Workers}

(* The requests the workers know of, and that each of them is in one place. *)
Known == Queued \cup Runs \cup Dones \cup Invalids \cup sent \cup unsent

Fates ==
  /\ Queued \cap (Runs \cup Dones \cup Invalids \cup sent \cup unsent) = {}
  /\ Runs \cap (Dones \cup Invalids \cup sent \cup unsent) = {}
  /\ Dones \cap (Invalids \cup sent \cup unsent) = {}
  /\ Invalids \cap (sent \cup unsent) = {} /\ sent \cap unsent = {}
  /\ Known \subseteq 1..Offered

(* A request that was offered and that no worker knows was dropped.        *)
Drops == dropped = (1..Offered) \ Known

(* The status of a request says in which of the places it is.              *)
Board ==
  /\ Status \in [Numbered -> J!Statuses]
  /\ \A p \in Numbered :
       /\ Status[p] = "unseen" <=> p > arrived
       /\ Status[p] = "waiting" <=> p \in Waits
       /\ Status[p] = "dropped" <=> p \in dropped
       /\ Status[p] = "running" <=> p \in Runs
       /\ Status[p] = "done" <=> p \in Dones
       /\ Status[p] = "invalid" <=> p \in Invalids
       /\ Status[p] = "answered" <=> p \in sent
       /\ Status[p] = "lost" <=> p \in unsent

LEMMA BatchIs == Batch => Range(rx_bufs) = (Offered + 1)..arrived
<1> SUFFICES ASSUME Batch PROVE Range(rx_bufs) = (Offered + 1)..arrived OBVIOUS
<1> DEFINE n == Len(rx_bufs)
<1>1. /\ arrived \in Nat /\ n \in Nat /\ Offered = arrived - n /\ DOMAIN rx_bufs = 1..n
      /\ \A j \in 1..n : rx_bufs[j] = Offered + j
  BY ServerAssumption DEF Batch, Offered
<1> HIDE DEF n
<1>2. \A j \in 1..n : rx_bufs[j] \in (Offered + 1)..arrived BY <1>1
<1>3. ASSUME NEW x \in (Offered + 1)..arrived PROVE \E j \in 1..n : rx_bufs[j] = x
  <2>1. x - Offered \in 1..n /\ Offered + (x - Offered) = x BY <1>1
  <2> QED BY <2>1, <1>1, Zenon
<1> QED BY <1>1, <1>2, <1>3, Zenon DEF Range

LEMMA PlacesAre ==
  ASSUME Batch, NEW p
  PROVE  /\ IsWaiting(p) <=> p \in Waits
         /\ IsRunning(p) <=> p \in Runs
         /\ IsDone(p) <=> p \in Dones
         /\ IsInvalid(p) <=> p \in Invalids
<1>1. IsWaiting(p) <=> p \in Waits BY BatchIs DEF IsWaiting, Waits, Queued
<1>2. IsRunning(p) <=> p \in Runs BY DEF IsRunning, Runs, Range
<1>3. IsDone(p) <=> p \in Dones BY DEF IsDone, Dones
<1>4. IsInvalid(p) <=> p \in Invalids BY DEF IsInvalid, Invalids
<1> QED BY <1>1, <1>2, <1>3, <1>4

LEMMA BoardIs == Batch /\ Fates /\ Drops => Board
<1> SUFFICES ASSUME Batch, Fates, Drops PROVE Board OBVIOUS
<1>1. arrived \in Nat /\ Offered \in Nat /\ Offered <= arrived
  BY ServerAssumption DEF Batch, Offered
<1>2. ASSUME NEW p \in Numbered
      PROVE  /\ StatusOf(p) \in J!Statuses
             /\ StatusOf(p) = "unseen" <=> p > arrived
             /\ StatusOf(p) = "waiting" <=> p \in Waits
             /\ StatusOf(p) = "dropped" <=> p \in dropped
             /\ StatusOf(p) = "running" <=> p \in Runs
             /\ StatusOf(p) = "done" <=> p \in Dones
             /\ StatusOf(p) = "invalid" <=> p \in Invalids
             /\ StatusOf(p) = "answered" <=> p \in sent
             /\ StatusOf(p) = "lost" <=> p \in unsent
  <2>1. p \in Nat /\ p >= 1 BY ServerAssumption DEF Numbered
  <2>2. /\ Place(p) = IF p \in Waits THEN "waiting"
                      ELSE IF p \in Runs THEN "running"
                      ELSE IF p \in Dones THEN "done" ELSE "none"
        /\ p \in Invalids <=> IsInvalid(p)
    BY PlacesAre, Zenon DEF Place
  <2>3. /\ p \in Waits <=> p \in (Offered + 1)..arrived \/ p \in Queued
        /\ p \in dropped <=> p \in 1..Offered /\ p \notin Known
        /\ p \in Known => p \in 1..Offered
    BY Zenon DEF Waits, Drops, Fates
  <2>4. CASE p > arrived
    <3>1. p \notin Waits /\ p \notin dropped /\ p \notin Known BY <2>1, <2>3, <2>4, <1>1 DEF Known
    <3> QED BY <3>1, <2>4 DEF StatusOf, Known, J!Statuses
  <2>5. CASE p <= arrived /\ p > Offered
    <3>1. p \in Waits /\ p \notin dropped /\ p \notin Known BY <2>1, <2>3, <2>5, <1>1
    <3>2. Outcome(p) = "none" BY <3>1, <2>2 DEF Outcome, Known
    <3> QED BY SMTT(30), <3>1, <3>2, <2>1, <2>2, <2>5, <1>1 DEF StatusOf, Known, J!Statuses
  <2>6. CASE p <= Offered
    <3>1. p \in 1..Offered /\ ~(p > arrived) /\ (p \in Waits <=> p \in Queued)
      BY <2>1, <2>3, <2>6, <1>1
    <3>2. CASE p \in dropped
      BY <3>1, <3>2, <2>2, <2>3 DEF StatusOf, Outcome, Known, J!Statuses
    <3>3. CASE p \in Known
      <4>1. p \notin dropped BY <3>3, <2>3
      <4> QED BY <4>1, <3>1, <3>3, <2>2 DEF StatusOf, Outcome, Known, Fates, J!Statuses
    <3> QED BY <3>1, <3>2, <3>3, <2>3
  <2> QED BY SMTT(30), <2>1, <2>4, <2>5, <2>6, <1>1
<1> QED BY <1>2 DEF Board, Status, Numbered

(* The same of the next state.                                             *)
LEMMA BoardNext == (Batch /\ Fates /\ Drops)' => Board'
  BY BoardIs, PTL

(* What a step of the server does to the places.                           *)
Arrive ==
  Waits \subseteq Waits' /\ UNCHANGED <<Runs, Dones, Invalids, sent, unsent, dropped>>
Drop ==
  /\ Waits' \subseteq Waits /\ dropped \subseteq dropped'
  /\ UNCHANGED <<arrived, Runs, Dones, Invalids, sent, unsent>>
Reject(p) ==
  /\ p \in Waits /\ Waits' = Waits \ {p} /\ Invalids' = Invalids \cup {p}
  /\ UNCHANGED <<arrived, Runs, Dones, sent, unsent, dropped>>
Start(p) ==
  /\ p \in Waits /\ Waits' = Waits \ {p} /\ Runs' = Runs \cup {p}
  /\ UNCHANGED <<arrived, Dones, Invalids, sent, unsent, dropped>>
Complete(p) ==
  /\ p \in Runs /\ Runs' = Runs \ {p} /\ Dones' = Dones \cup {p}
  /\ UNCHANGED <<arrived, Waits, Invalids, sent, unsent, dropped>>
Reply ==
  /\ Dones' \subseteq Dones /\ sent \subseteq sent' /\ unsent \subseteq unsent'
  /\ UNCHANGED <<arrived, Waits, Runs, Invalids, dropped>>

Moved ==
  Arrive \/ Drop \/ Reply \/ \E p \in Numbered : Reject(p) \/ Start(p) \/ Complete(p)

(* Each of these is a step of JobService.                                  *)
LEMMA PromiseStep ==
  ASSUME Counts, Board, Board', Moved PROVE J!Next
<1> DEFINE s == Status
           t == Status'
<1>1. /\ s \in [Numbered -> J!Statuses]
      /\ \A p \in Numbered :
           /\ s[p] = "unseen" <=> p > arrived
           /\ s[p] = "waiting" <=> p \in Waits
           /\ s[p] = "dropped" <=> p \in dropped
           /\ s[p] = "running" <=> p \in Runs
           /\ s[p] = "done" <=> p \in Dones
           /\ s[p] = "invalid" <=> p \in Invalids
           /\ s[p] = "answered" <=> p \in sent
           /\ s[p] = "lost" <=> p \in unsent
  BY Zenon DEF Board
<1>2. /\ t \in [Numbered -> J!Statuses]
      /\ \A p \in Numbered :
           /\ t[p] = "unseen" <=> p > arrived'
           /\ t[p] = "waiting" <=> p \in Waits'
           /\ t[p] = "dropped" <=> p \in dropped'
           /\ t[p] = "running" <=> p \in Runs'
           /\ t[p] = "done" <=> p \in Dones'
           /\ t[p] = "invalid" <=> p \in Invalids'
           /\ t[p] = "answered" <=> p \in sent'
           /\ t[p] = "lost" <=> p \in unsent'
  BY Zenon DEF Board
<1> HIDE DEF s, t
<1>3. \A p \in Numbered : s[p] \in J!Statuses /\ t[p] \in J!Statuses BY <1>1, <1>2
<1>4. SUFFICES J!Step(s, t)
  <2>1. t \in [1..MaxPackets -> J!Statuses] BY <1>2 DEF Numbered
  <2> QED BY <1>4, <2>1, Zenon DEF J!Next, s, t
<1>5. CASE Arrive
  <2>1. \A p \in Numbered : t[p] # s[p] => s[p] = "unseen" /\ t[p] = "waiting"
    BY <1>1, <1>2, <1>3, <1>5 DEF Arrive, J!Statuses
  <2> QED BY <2>1 DEF J!Step, J!Move, J!Moved, Numbered
<1>6. CASE Drop
  <2>1. \A p \in Numbered : t[p] # s[p] => s[p] = "waiting" /\ t[p] = "dropped"
    BY <1>1, <1>2, <1>3, <1>6 DEF Drop, J!Statuses
  <2> QED BY <2>1 DEF J!Step, J!Move, J!Moved, Numbered
<1>7. CASE Reply
  <2>1. \A p \in Numbered : t[p] # s[p] => s[p] = "done" /\ t[p] \in {"answered", "lost"}
    BY <1>1, <1>2, <1>3, <1>7 DEF Reply, J!Statuses
  <2> QED BY <2>1 DEF J!Step, J!Move, J!Moved, Numbered
<1>8. ASSUME NEW p \in Numbered, NEW from, NEW to, from # to,
             s[p] = from, t[p] = to, \A q \in Numbered \ {p} : t[q] = s[q]
      PROVE  J!MoveOne(s, t, from, {to})
  <2>1. J!Moved(s, t) = {p} BY <1>8 DEF J!Moved, Numbered
  <2>2. J!Cardinality(J!Moved(s, t)) = 1 BY <2>1, SameCardinality, Zenon DEF Counts
  <2>3. J!Move(s, t, from, {to}) BY <2>1, <1>8 DEF J!Move
  <2> QED BY <2>2, <2>3, Zenon DEF J!MoveOne
<1>9. ASSUME NEW p \in Numbered, Reject(p) PROVE J!Step(s, t)
  <2>1. s[p] = "waiting" /\ t[p] = "invalid" /\ \A q \in Numbered \ {p} : t[q] = s[q]
    BY <1>1, <1>2, <1>3, <1>9 DEF Reject, J!Statuses
  <2>2. J!MoveOne(s, t, "waiting", {"invalid"}) BY <2>1, <1>8
  <2> QED BY <2>2, Zenon DEF J!Step
<1>10. ASSUME NEW p \in Numbered, Start(p) PROVE J!Step(s, t)
  <2>1. s[p] = "waiting" /\ t[p] = "running" /\ \A q \in Numbered \ {p} : t[q] = s[q]
    BY <1>1, <1>2, <1>3, <1>10 DEF Start, J!Statuses
  <2>2. J!MoveOne(s, t, "waiting", {"running"}) BY <2>1, <1>8
  <2> QED BY <2>2, Zenon DEF J!Step
<1>11. ASSUME NEW p \in Numbered, Complete(p) PROVE J!Step(s, t)
  <2>1. s[p] = "running" /\ t[p] = "done" /\ \A q \in Numbered \ {p} : t[q] = s[q]
    BY <1>1, <1>2, <1>3, <1>11 DEF Complete, J!Statuses
  <2>2. J!MoveOne(s, t, "running", {"done"}) BY <2>1, <1>8
  <2> QED BY <2>2, Zenon DEF J!Step
<1> QED BY <1>5, <1>6, <1>7, <1>9, <1>10, <1>11, Zenon DEF Moved

--------------------------------------------------------------------------------
(* What a worker does to the requests it knows.                            *)
WorkerMoves ==
  \/ UNCHANGED <<Queued, Runs, Dones, Invalids, sent, unsent>>
  \/ \E p \in Runs :
       /\ Runs' = Runs \ {p} /\ Dones' = Dones \cup {p}
       /\ UNCHANGED <<Queued, Invalids, sent, unsent>>
  \/ \E p \in Queued :
       /\ Queued' = Queued \ {p} /\ Runs' = Runs \cup {p}
       /\ UNCHANGED <<Dones, Invalids, sent, unsent>>
  \/ \E p \in Queued :
       /\ Queued' = Queued \ {p} /\ Invalids' = Invalids \cup {p}
       /\ UNCHANGED <<Runs, Dones, sent, unsent>>
  \/ /\ Dones' \subseteq Dones /\ sent \subseteq sent' /\ unsent \subseteq unsent'
     /\ UNCHANGED <<Queued, Runs, Invalids>>

LEMMA WorkerMoved ==
  ASSUME Batch, Fates, Drops, UNCHANGED dispatcherVars, WorkerMoves, Known' = Known
  PROVE  Drops' /\ Moved
<1>1. UNCHANGED <<arrived, Offered, dropped>> BY DEF dispatcherVars, Offered
<1>2. Drops' BY <1>1 DEF Drops
<1>3. arrived \in Nat /\ Offered \in Nat /\ Offered <= arrived /\ MaxPackets \in Nat
      /\ arrived <= MaxPackets
  BY ServerAssumption DEF Batch, Offered
<1>4. \A p \in Known : p \in Numbered /\ p \notin (Offered + 1)..arrived
  <2>1. Known \subseteq 1..Offered BY DEF Fates
  <2> QED BY <2>1, <1>3 DEF Numbered
<1>5. Queued \subseteq Known /\ Runs \subseteq Known BY DEF Known
<1>6. Waits' = ((Offered + 1)..arrived) \cup Queued' BY <1>1 DEF Waits
<1>7. CASE UNCHANGED <<Queued, Runs, Dones, Invalids, sent, unsent>>
  <2>1. Arrive BY <1>1, <1>6, <1>7 DEF Arrive, Waits
  <2> QED BY <2>1, <1>2 DEF Moved
<1>8. ASSUME NEW p \in Runs, Runs' = Runs \ {p}, Dones' = Dones \cup {p},
             UNCHANGED <<Queued, Invalids, sent, unsent>>
      PROVE  Moved
  <2>1. Complete(p) BY <1>1, <1>6, <1>8 DEF Complete, Waits
  <2> QED BY <2>1, <1>4, <1>5, <1>8 DEF Moved
<1>9. ASSUME NEW p \in Queued, Queued' = Queued \ {p}
      PROVE  p \in Numbered /\ p \in Waits /\ Waits' = Waits \ {p}
  BY <1>4, <1>5, <1>6, <1>9 DEF Waits
<1>10. ASSUME NEW p \in Queued, Queued' = Queued \ {p}, Runs' = Runs \cup {p},
              UNCHANGED <<Dones, Invalids, sent, unsent>>
       PROVE  Moved
  <2>1. Start(p) BY <1>1, <1>9, <1>10 DEF Start
  <2> QED BY <2>1, <1>9, <1>10 DEF Moved
<1>11. ASSUME NEW p \in Queued, Queued' = Queued \ {p}, Invalids' = Invalids \cup {p},
              UNCHANGED <<Runs, Dones, sent, unsent>>
       PROVE  Moved
  <2>1. Reject(p) BY <1>1, <1>9, <1>11 DEF Reject
  <2> QED BY <2>1, <1>9, <1>11 DEF Moved
<1>12. CASE /\ Dones' \subseteq Dones /\ sent \subseteq sent' /\ unsent \subseteq unsent'
            /\ UNCHANGED <<Queued, Runs, Invalids>>
  <2>1. Reply BY <1>1, <1>6, <1>12 DEF Reply, Waits
  <2> QED BY <2>1, <1>2 DEF Moved
<1> QED BY <1>2, <1>7, <1>8, <1>10, <1>11, <1>12, Zenon DEF WorkerMoves

(* A step that the workers do not notice.                                  *)
LEMMA QuietMoved ==
  ASSUME Batch, Drops, UNCHANGED <<Queued, Runs, Dones, Invalids, sent, unsent, dropped>>,
         Offered' = Offered, arrived' \in Nat, arrived' >= arrived
  PROVE  Drops' /\ Moved
<1>1. arrived \in Nat /\ Offered \in Nat BY ServerAssumption DEF Batch, Offered
<1>2. Known' = Known BY DEF Known
<1>3. Drops' BY <1>2 DEF Drops
<1>4. (Offered + 1)..arrived \subseteq (Offered + 1)..arrived' BY <1>1
<1>5. Waits \subseteq Waits' BY <1>4 DEF Waits
<1>6. Arrive BY <1>5 DEF Arrive
<1> QED BY <1>3, <1>6 DEF Moved

(* A chunk: its first packets go on waiting and the others are dropped.    *)
LEMMA ChunkMoved ==
  ASSUME Batch, Fates, Drops, NEW w \in Workers, NEW n \in Nat, NEW k \in Nat, Chunk(w, n, k),
         Queued' = Queued \cup ((Offered + 1)..(Offered + k)),
         UNCHANGED <<Runs, Dones, Invalids, sent, unsent>>
  PROVE  Drops' /\ Moved
<1>1. arrived \in Nat /\ Offered \in Nat BY ServerAssumption DEF Batch, Offered
<1>2. /\ k <= n /\ arrived' = arrived /\ Offered' = Offered + n /\ Offered + n <= arrived
      /\ dropped' = dropped \cup ((Offered + k + 1)..(Offered + n))
  BY DEF Chunk
<1>3. Known' = Known \cup ((Offered + 1)..(Offered + k)) BY DEF Known
<1>4. Drops'
  <2>1. dropped = (1..Offered) \ Known /\ Known \subseteq 1..Offered BY DEF Drops, Fates
  <2>2. \A x \in (Offered + k + 1)..(Offered + n) :
          x \in 1..(Offered + n) /\ x \notin 1..Offered /\ x \notin (Offered + 1)..(Offered + k)
    BY <1>1, <1>2
  <2>3. \A x \in 1..(Offered + n) :
          \/ x \in 1..Offered \/ x \in (Offered + 1)..(Offered + k)
          \/ x \in (Offered + k + 1)..(Offered + n)
    BY <1>1, <1>2
  <2>4. \A x \in 1..Offered : x \in 1..(Offered + n) /\ x \notin (Offered + 1)..(Offered + k)
    BY <1>1, <1>2
  <2> QED BY <2>1, <2>2, <2>3, <2>4, <1>2, <1>3, Zenon DEF Drops
<1>5. Waits' \subseteq Waits
  <2>1. /\ (Offered + 1)..(Offered + k) \subseteq (Offered + 1)..arrived
        /\ (Offered' + 1)..arrived' \subseteq (Offered + 1)..arrived
    BY <1>1, <1>2
  <2> QED BY <2>1 DEF Waits
<1>6. Drop BY <1>2, <1>5 DEF Drop
<1> QED BY <1>4, <1>6 DEF Moved

(* A chunk that worker w gets joins the packets that wait for a worker.    *)
LEMMA ChunkQueued ==
  ASSUME Batch, Rings, UNCHANGED workerVars, NEW w \in Workers, NEW n \in Nat, NEW k \in Nat,
         Chunk(w, n, k)
  PROVE  /\ Queued' = Queued \cup ((Offered + 1)..(Offered + k))
         /\ UNCHANGED <<Runs, Dones, Invalids, sent, unsent>>
<1> DEFINE q == rx_mbuf_dispatch_q[w]
           new == [j \in 1..k |-> Offered + j]
           C == (Offered + 1)..(Offered + k)
<1>1. arrived \in Nat /\ Offered \in Nat BY ServerAssumption DEF Batch, Offered
<1>2. /\ rx_mbuf_dispatch_q'[w] = q \o new
      /\ \A v \in Workers \ {w} : rx_mbuf_dispatch_q'[v] = rx_mbuf_dispatch_q[v]
  BY DEF Chunk, Rings
<1>3. UNCHANGED <<burst, busy_coros, rx_mbuf, tx_bufs, invalid, sent, unsent>>
  BY DEF workerVars
<1>4. q \in Seq(Nat) /\ new \in Seq(Nat)
  <2>1. q \in Seq(Numbered) BY DEF Rings
  <2>2. q \in Seq(Nat) BY <2>1, ServerAssumption DEF Numbered
  <2> QED BY <2>2, <1>1
<1>5. Range(new) = C
  <2>1. ASSUME NEW x \in C PROVE x \in Range(new)
    <3>1. x - Offered \in 1..k /\ Offered + (x - Offered) = x BY <1>1
    <3> QED BY <3>1 DEF Range
  <2>2. \A x \in Range(new) : x \in C BY <1>1 DEF Range
  <2> QED BY <2>1, <2>2, Zenon
<1> HIDE DEF q, new, C
<1>6. Range(rx_mbuf_dispatch_q'[w]) = Range(q) \cup C
  BY <1>2, <1>4, <1>5, RangeConcat, ZenonT(30)
<1>7. \A x : x \in Queued <=> \E v \in Workers : x \in Range(rx_mbuf_dispatch_q[v])
                                               \/ x \in Range(burst[v])
  BY DEF Queued
<1>8. \A x : x \in Queued' <=> \E v \in Workers : x \in Range(rx_mbuf_dispatch_q'[v])
                                                \/ x \in Range(burst[v])
  BY <1>3 DEF Queued
<1>9. ASSUME NEW x \in Queued' PROVE x \in Queued \cup C
  <2>1. PICK v \in Workers : x \in Range(rx_mbuf_dispatch_q'[v]) \/ x \in Range(burst[v])
    BY <1>8
  <2>2. CASE v = w BY <2>1, <2>2, <1>6, <1>7 DEF q
  <2>3. CASE v # w BY <2>1, <2>3, <1>2, <1>7
  <2> QED BY <2>2, <2>3
<1>10. ASSUME NEW x \in Queued PROVE x \in Queued'
  <2>1. PICK v \in Workers : x \in Range(rx_mbuf_dispatch_q[v]) \/ x \in Range(burst[v])
    BY <1>7
  <2>2. CASE v = w BY <2>1, <2>2, <1>6, <1>8 DEF q
  <2>3. CASE v # w BY <2>1, <2>3, <1>2, <1>8
  <2> QED BY <2>2, <2>3
<1>11. \A x \in C : x \in Queued' BY <1>6, <1>8
<1>12. Queued' = Queued \cup C BY <1>9, <1>10, <1>11
<1>13. UNCHANGED <<Runs, Dones, Invalids, sent, unsent>> BY <1>3 DEF Runs, Dones, Invalids
<1> QED BY <1>12, <1>13 DEF C

(* A step of anyone but a worker.                                          *)
LEMMA OthersMoved ==
  ASSUME Counts, Batch, Batch', Rings, Fates, Drops,
         DispatcherStep \/ UNCHANGED vars \/ \E w \in Workers : NicStep(w)
  PROVE  Drops' /\ Moved
<1>1. UNCHANGED <<rx_mbuf_dispatch_q, burst, busy_coros, rx_mbuf, tx_bufs, invalid, sent, unsent>>
        => UNCHANGED <<Queued, Runs, Dones, Invalids, sent, unsent>>
  <2>1. rx_mbuf_dispatch_q' = rx_mbuf_dispatch_q /\ burst' = burst => Queued' = Queued
    BY Zenon DEF Queued
  <2>2. busy_coros' = busy_coros /\ rx_mbuf' = rx_mbuf => Runs' = Runs BY SMTT(30) DEF Runs
  <2>3. tx_bufs' = tx_bufs => Dones' = Dones BY Zenon DEF Dones
  <2>4. invalid' = invalid => Invalids' = Invalids BY Zenon DEF Invalids
  <2> QED BY <2>1, <2>2, <2>3, <2>4
<1>2. arrived \in Nat /\ arrived' \in Nat BY ServerAssumption DEF Batch
<1>3. ASSUME UNCHANGED <<rx_mbuf_dispatch_q, burst, busy_coros, rx_mbuf, tx_bufs, invalid, sent,
                         unsent, arrived, rx_bufs, dropped>>
      PROVE  Drops' /\ Moved
  <2>1. Offered' = Offered /\ arrived' >= arrived BY <1>2, <1>3 DEF Offered
  <2> QED BY <2>1, <1>1, <1>2, <1>3, QuietMoved, Zenon
<1>4. CASE UNCHANGED vars BY <1>3, <1>4 DEF vars, dispatcherVars, workerVars
<1>5. ASSUME NEW w \in Workers, NicStep(w) PROVE Drops' /\ Moved
  BY <1>3, <1>5 DEF NicStep, dispatcherVars, W!NicSends, W!workerVars, W!coroVars, W!fateVars
<1>6. CASE DispatcherStep
  <2>1. UNCHANGED workerVars BY <1>6 DEF DispatcherStep
  <2>2. UNCHANGED <<burst, busy_coros, rx_mbuf, tx_bufs, invalid, sent, unsent>>
    BY <2>1 DEF workerVars
  <2>3. CASE D!RxBurst
    <3>1. Offered' = Offered /\ arrived' >= arrived /\ UNCHANGED <<rx_mbuf_dispatch_q, dropped>>
      BY <2>3, RxBurstServer
    <3> QED BY <3>1, <2>2, <1>1, <1>2, QuietMoved, Zenon
  <2>4. CASE D!CheckIn \/ D!ReadQuanta
    <3>1. UNCHANGED <<rx_mbuf_dispatch_q, arrived, rx_bufs, dropped>> BY <2>4, CheckInServer
    <3> QED BY <3>1, <2>2, <1>3, Zenon
  <2>5. CASE D!Dispatch
    <3>1. PICK w \in Workers, n \in Nat, k \in Nat : Chunk(w, n, k) BY <2>5, DispatchServer
    <3> QED BY <3>1, <2>1, ChunkQueued, ChunkMoved, Zenon
  <2> QED BY <1>6, <2>3, <2>4, <2>5 DEF DispatcherStep, D!DispatcherNext
<1> QED BY <1>4, <1>5, <1>6

(* The receive buffers, when those the workers have or had are the packets *)
(* they know.                                                              *)
LEMMA AccountedFor ==
  ASSUME Batch, Fates, Drops,
         Known = freed \cup leaked \cup UNION {Range(W!Held(w)) : w \in Workers}
  PROVE  EveryBufferAccounted
<1> DEFINE H == UNION {Range(W!Held(w)) : w \in Workers}
<1>1. /\ Range(rx_bufs) = (Offered + 1)..arrived /\ dropped = (1..Offered) \ Known
      /\ Known \subseteq 1..Offered /\ Queued \subseteq Known
  BY BatchIs, Zenon DEF Fates, Drops, Known
<1>2. arrived \in Nat /\ Offered \in Nat /\ Offered <= arrived
  BY ServerAssumption DEF Batch, Offered
<1>3. \A x : x \in 1..arrived <=> x \in 1..Offered \/ x \in (Offered + 1)..arrived BY <1>2
<1>4. \A x \in 1..Offered : x \notin (Offered + 1)..arrived BY <1>2
<1>5. Known = freed \cup leaked \cup H OBVIOUS
<1> HIDE DEF H
<1>6. 1..arrived = Range(rx_bufs) \cup dropped \cup freed \cup leaked \cup H
  BY <1>1, <1>3, <1>5
<1>7. \A p \in dropped : p \notin freed \cup leaked /\ ~IsWaiting(p)
  <2>1. \A p \in dropped : p \notin Known /\ p \notin (Offered + 1)..arrived BY <1>1, <1>4
  <2>2. \A p \in dropped : p \notin Waits BY <2>1, <1>1 DEF Waits
  <2> QED BY <2>1, <2>2, <1>5, PlacesAre
<1> QED BY <1>6, <1>7, Zenon DEF EveryBufferAccounted, H

LEMMA BurstsValid ==
  ASSUME Fates, NEW w \in Workers PROVE Range(burst[w]) \cap invalid[w] = {}
<1>1. Queued \cap Invalids = {} BY Zenon DEF Fates
<1>2. \A x \in Range(burst[w]) : x \in Queued BY Zenon DEF Queued
<1>3. \A x \in invalid[w] : x \in Invalids BY Zenon DEF Invalids
<1> QED BY <1>1, <1>2, <1>3

LEMMA DropsInit == Init => Drops
<1> SUFFICES ASSUME Init PROVE Drops OBVIOUS
<1>1. dropped = {} /\ arrived = 0 /\ rx_bufs = <<>> BY DEF Init, D!DispatcherInit
<1>2. Len(rx_bufs) = 0 BY <1>1
<1>3. Offered = 0
  <2>1. 0 - 0 = 0 OBVIOUS
  <2> QED BY <2>1, <1>1, <1>2, Zenon DEF Offered
<1>4. 1..Offered = {} BY <1>3
<1> QED BY <1>1, <1>4 DEF Drops

LEMMA PromiseInit == Init => J!Init
<1> SUFFICES ASSUME Init PROVE J!Init OBVIOUS
<1>1. arrived = 0 BY DEF Init, D!DispatcherInit
<1>2. \A p \in 1..MaxPackets : StatusOf(p) = "unseen" BY SMTT(30), <1>1, ServerAssumption DEF StatusOf
<1> QED BY <1>2, Zenon DEF J!Init, Status

(* What the argument takes of the workers: in each state, and in each of   *)
(* their steps.                                                            *)
Facts ==
  /\ Loops /\ Batch /\ Rings /\ Fates
  /\ Known = freed \cup leaked \cup UNION {Range(W!Held(w)) : w \in Workers}

Walks == \A w \in Workers : WorkerStep(w) => WorkerMoves /\ Known' = Known

LEMMA ServerMoves ==
  ASSUME Counts, Facts, Facts', Drops, [Next]_vars, [Walks]_vars PROVE Drops' /\ Moved
<1>1. Batch /\ Batch' /\ Rings /\ Fates BY Zenon DEF Facts
<1>2. CASE UNCHANGED vars BY <1>1, <1>2, OthersMoved, Zenon
<1>3. ASSUME NEW w \in Workers, WorkerStep(w), Walks PROVE Drops' /\ Moved
  <2>1. UNCHANGED dispatcherVars /\ WorkerMoves /\ Known' = Known
    BY <1>3, Zenon DEF WorkerStep, Walks
  <2> QED BY <1>1, <2>1, WorkerMoved, Zenon
<1> QED BY <1>1, <1>2, <1>3, OthersMoved, Zenon DEF Next

LEMMA FactsSuffice ==
  ASSUME Counts
  PROVE  Spec /\ []Facts /\ [][Walks]_vars =>
           DispatcherSpec /\ []EveryBufferAccounted /\ KeepsPromise
<1>1. Facts /\ Facts' /\ [Next]_vars => [D!Next]_(D!vars) BY SeenStep, Zenon DEF Facts
<1>2. Facts /\ Facts' /\ Drops /\ [Next]_vars /\ [Walks]_vars => Drops' /\ Moved
  BY ServerMoves, Zenon
<1>3. Facts /\ Drops => Board BY BoardIs, Zenon DEF Facts
<1>4. Facts /\ Drops => EveryBufferAccounted BY AccountedFor, Zenon DEF Facts
<1>5. Board /\ Board' /\ Moved => J!Next BY PromiseStep
<1>6. Init => D!Init /\ Drops /\ J!Init BY InitSeen, DropsInit, PromiseInit
<1>7. Spec /\ []Facts /\ [][Walks]_vars => []Drops BY <1>2, <1>6, PTL DEF Spec
<1>8. Spec /\ []Facts => DispatcherSpec BY <1>1, <1>6, PTL DEF Spec, DispatcherSpec, D!Spec
<1>9. Spec /\ []Facts /\ [][Walks]_vars /\ []Drops => KeepsPromise
  BY <1>2, <1>3, <1>5, <1>6, PTL DEF Spec, KeepsPromise, J!Spec
<1> QED BY <1>4, <1>7, <1>8, <1>9, PTL

--------------------------------------------------------------------------------
(* The workers once more, with what is proved of them.                     *)
WP == INSTANCE BufferProofs WITH offered <- arrived - Len(rx_bufs)

LEMMA WorkerAssumed == WP!WorkerAssumption
  BY ServerAssumption DEF IsFiniteSet, WP!IsFiniteSet

(* W and WP are two names of the same workers.                             *)
LEMMA SameInit == W!Init <=> WP!Init
  BY DEF W!Init, WP!Init, W!WorkerInit, WP!WorkerInit, W!Coros, WP!Coros

LEMMA SameNext == [W!Next]_(W!vars) <=> [WP!Next]_(WP!vars)
  BY Zenon DEF W!Accept, WP!Accept, W!AcceptWithoutBuffer, WP!AcceptWithoutBuffer, W!Add16,
     WP!Add16, W!AfterTake, WP!AfterTake, W!Alive, WP!Alive, W!AllAfter, WP!AllAfter,
     W!Back, WP!Back, W!CountCompletion, WP!CountCompletion, W!CountQuanta, WP!CountQuanta,
     W!DequeueCount, WP!DequeueCount, W!Discard, WP!Discard, W!EnqueueCount,
     WP!EnqueueCount, W!EnvOffer, WP!EnvOffer, W!Erase, WP!Erase, W!Finish, WP!Finish,
     W!FirstOf, WP!FirstOf, W!Flush, WP!Flush, W!FreeCount, WP!FreeCount, W!Goto, WP!Goto,
     W!LastQuanta, WP!LastQuanta, W!Lesser, WP!Lesser, W!Next, WP!Next, W!NextCoros,
     WP!NextCoros, W!NextOfBurst, WP!NextOfBurst, W!NicSends, WP!NicSends,
     W!NumAssignedQuanta, WP!NumAssignedQuanta, W!Poll, WP!Poll, W!PollDue, WP!PollDue,
     W!PopBack, WP!PopBack, W!Preempt, WP!Preempt, W!QuantaAt, WP!QuantaAt, W!QuantaBehind,
     WP!QuantaBehind, W!QuantaOfFinished, WP!QuantaOfFinished, W!Requeued, WP!Requeued,
     W!ReturnRxBufs, WP!ReturnRxBufs, W!RoomToReturn, WP!RoomToReturn, W!Settle, WP!Settle,
     W!Transmit, WP!Transmit, W!TxDue, WP!TxDue, W!TxPoolAfterAlloc, WP!TxPoolAfterAlloc,
     W!WithNewJob, WP!WithNewJob, W!WorkerNext, WP!WorkerNext, W!coroVars, WP!coroVars,
     W!counterVars, WP!counterVars, W!fateVars, WP!fateVars, W!indexVars, WP!indexVars,
     W!nicVars, WP!nicVars, W!vars, WP!vars, W!workerVars, WP!workerVars, W!Range,
     WP!Range, W!Min, WP!Min

LEMMA SameWorkers == ASSUME NEW w PROVE W!WorkerNext(w) <=> WP!WorkerNext(w)
  BY Zenon DEF W!Accept, WP!Accept, W!AcceptWithoutBuffer, WP!AcceptWithoutBuffer, W!Add16,
     WP!Add16, W!AfterTake, WP!AfterTake, W!Alive, WP!Alive, W!AllAfter, WP!AllAfter,
     W!Back, WP!Back, W!CountCompletion, WP!CountCompletion, W!CountQuanta, WP!CountQuanta,
     W!DequeueCount, WP!DequeueCount, W!Discard, WP!Discard, W!EnqueueCount,
     WP!EnqueueCount, W!Erase, WP!Erase, W!Finish, WP!Finish, W!FirstOf, WP!FirstOf,
     W!Flush, WP!Flush, W!FreeCount, WP!FreeCount, W!Goto, WP!Goto, W!LastQuanta,
     WP!LastQuanta, W!Lesser, WP!Lesser, W!NextCoros, WP!NextCoros, W!NextOfBurst,
     WP!NextOfBurst, W!NumAssignedQuanta, WP!NumAssignedQuanta, W!Poll, WP!Poll, W!PollDue,
     WP!PollDue, W!PopBack, WP!PopBack, W!Preempt, WP!Preempt, W!QuantaAt, WP!QuantaAt,
     W!QuantaBehind, WP!QuantaBehind, W!QuantaOfFinished, WP!QuantaOfFinished, W!Requeued,
     WP!Requeued, W!ReturnRxBufs, WP!ReturnRxBufs, W!RoomToReturn, WP!RoomToReturn,
     W!Settle, WP!Settle, W!Transmit, WP!Transmit, W!TxDue, WP!TxDue, W!TxPoolAfterAlloc,
     WP!TxPoolAfterAlloc, W!WithNewJob, WP!WithNewJob, W!WorkerNext, WP!WorkerNext,
     W!coroVars, WP!coroVars, W!counterVars, WP!counterVars, W!fateVars, WP!fateVars,
     W!indexVars, WP!indexVars, W!nicVars, WP!nicVars, W!workerVars, WP!workerVars,
     W!Range, WP!Range, W!Min, WP!Min

LEMMA ServerTurns ==
  ASSUME Counts PROVE Spec => [](WP!TurnInv /\ Batch /\ Rings) /\ W!Spec
<1>1. Init => WP!TurnInv /\ W!Init /\ Batch /\ Rings
  BY InitServer, SameInit, WP!TurnInit, WorkerAssumed, Zenon
<1>2. WP!TurnInv /\ Batch /\ Rings /\ [Next]_vars =>
        [W!Next]_(W!vars) /\ WP!TurnInv' /\ Batch' /\ Rings'
  <2>1. WP!TurnInv => Stacks BY Zenon DEF WP!TurnInv, WP!LoopTypeOK, WP!Coros, Stacks
  <2>2. Stacks /\ Batch /\ Rings /\ [Next]_vars => [W!Next]_(W!vars) /\ Batch' /\ Rings'
    BY ServerStep, Zenon
  <2> QED BY <2>1, <2>2, SameNext, WP!TurnStep, WorkerAssumed, Zenon
<1> QED BY <1>1, <1>2, PTL DEF Spec, W!Spec

(* What holds of the workers of Worker.tla, and of the dispatcher's batch. *)
ServerInv ==
  /\ WP!TurnInv /\ WP!NicFits /\ WP!BInv /\ WP!FInv /\ WP!CountTypeOK
  /\ Batch /\ Rings

LEMMA ServerInvariant ==
  ASSUME Counts PROVE Spec => []ServerInv
<1>1. /\ WP!Spec => [](WP!TurnInv /\ WP!NicFits /\ WP!BInv /\ WP!FInv)
      /\ WP!Spec => []WP!CountTypeOK
  BY WP!InvariantF, WP!InvariantCounts, WorkerAssumed
<1> QED BY <1>1, SameInit, SameNext, ServerTurns, PTL DEF ServerInv, W!Spec, WP!Spec

LEMMA SameFates ==
  /\ Queued = WP!Waiting /\ Runs = WP!Running /\ Dones = WP!Ready /\ Invalids = WP!Invalid
  /\ Queued' = WP!Waiting' /\ Runs' = WP!Running' /\ Dones' = WP!Ready'
  /\ Invalids' = WP!Invalid'
  BY Zenon DEF Queued, Runs, Dones, Invalids, WP!Waiting, WP!Running, WP!Ready, WP!Invalid,
     WP!WaitOf, WP!RingOf, WP!BurstOf, WP!JobsOf, WP!TxOf, Range, WP!Range

LEMMA FatesHold == ServerInv => Fates /\ Known = WP!Kept
<1>1. WP!BInv /\ WP!FInv =>
        /\ Queued \cap Runs = {} /\ Queued \cap Dones = {} /\ Runs \cap Dones = {}
        /\ (Queued \cup Runs \cup Dones) \cap (sent \cup unsent) = {}
        /\ WP!Kept \subseteq 1..Offered
  BY WP!FatesApart, WorkerAssumed, SameFates, Zenon DEF Offered
<1>2. WP!FInv =>
        /\ sent \cap unsent = {}
        /\ Invalids \cap (Queued \cup Runs \cup Dones \cup sent \cup unsent) = {}
        /\ WP!Kept = Queued \cup Runs \cup Dones \cup Invalids \cup sent \cup unsent
  BY SameFates, Zenon DEF WP!FInv
<1> QED BY <1>1, <1>2 DEF Fates, Known, ServerInv

LEMMA LoopsHold == ServerInv => Loops
<1>1. ServerInv =>
        /\ busy_coros \in [Workers -> Seq(1..NumWorkerCoros)] /\ Stacks
        /\ burst \in [Workers -> Seq(Numbered)] /\ invalid \in [Workers -> SUBSET Numbered]
        /\ curr_size \in [Workers -> Nat] /\ curr_sq \in [Workers -> Int]
  BY Zenon DEF ServerInv, WP!TurnInv, WP!LoopTypeOK, WP!CountTypeOK, WP!Coros, WP!Packets,
     Numbered, Stacks
<1>2. ServerInv => \A w \in Workers :
        /\ Len(idle_coros[w]) + Len(busy_coros[w]) = NumWorkerCoros
        /\ w_pc[w] \in {"run", "poll"} => burst[w] = <<>>
        /\ w_pc[w] = "take" => burst[w] # <<>>
  BY Zenon DEF ServerInv, WP!TurnInv, WP!Turn, WP!BInv, WP!Own
<1>3. ServerInv => \A w \in Workers : Range(burst[w]) \cap invalid[w] = {}
  BY FatesHold, BurstsValid, Zenon
<1> QED BY <1>1, <1>2, <1>3, Zenon DEF Loops

(* So the facts hold, and every step of a worker is as they say.           *)
LEMMA FactsHold == ServerInv => Facts
<1>1. ServerInv => \A w \in Workers : Range(W!Held(w)) = WP!Open(w) \cup WP!DoneOf(w)
  BY WP!HeldIs, WorkerAssumed, Zenon
     DEF ServerInv, W!Held, WP!Held, W!JobPackets, WP!JobPackets, Range, WP!Range
<1>2. ServerInv => WP!Kept = freed \cup leaked \cup UNION {Range(W!Held(w)) : w \in Workers}
  BY <1>1 DEF WP!Kept
<1> QED BY <1>2, FatesHold, LoopsHold, Zenon DEF Facts, ServerInv

LEMMA WalksHold ==
  ASSUME ServerInv, ServerInv', Known = WP!Kept, (Known = WP!Kept)' PROVE Walks
<1> SUFFICES ASSUME NEW w \in Workers, WorkerStep(w) PROVE WorkerMoves /\ Known' = Known
  BY Zenon DEF Walks
<1>1. WP!PacketMoves /\ WP!Kept' = WP!Kept
  BY SameWorkers, WP!WorkerMoves, WP!FateStep, WorkerAssumed, Zenon DEF ServerInv, WorkerStep
<1> QED BY <1>1, SameFates DEF WP!PacketMoves, WorkerMoves

LEMMA ServerFacts ==
  ASSUME Counts PROVE Spec => []Facts /\ [][Walks]_vars
<1>1. ServerInv => Known = WP!Kept BY FatesHold
<1>2. ServerInv /\ ServerInv' /\ Known = WP!Kept /\ (Known = WP!Kept)' => Walks
  BY WalksHold
<1> QED BY <1>1, <1>2, ServerInvariant, FactsHold, PTL

--------------------------------------------------------------------------------
SP == INSTANCE SumProofs

LEMMA Counting == Counts
<1>1. /\ \A S : SP!Cardinality(S) = Cardinality(S)
      /\ \A S : SP!IsFiniteSet(S) <=> IsFiniteSet(S)
  BY DEF SP!Cardinality, Cardinality, SP!IsFiniteSet, IsFiniteSet
<1>2. /\ SP!Cardinality({}) = 0 /\ \A x : SP!Cardinality({x}) = 1
      /\ SP!Cardinality(Workers) \in Nat \ {0}
      /\ \A S \in SUBSET (1..MaxPackets) : \A p \in (1..MaxPackets) \ S :
           SP!Cardinality(S \cup {p}) = SP!Cardinality(S) + 1
  BY <1>1, ServerAssumption, SP!CountFacts, Zenon
<1> QED BY <1>1, <1>2, Zenon DEF Counts, Numbered

(* Whatever the dispatcher does, the workers see what Worker.tla expects:  *)
(* numbered packets, each offered once and in order, at most as many as    *)
(* the ring has room for.  So what is proved of the workers of Worker.tla  *)
(* holds of the workers of the server.                                     *)
THEOREM ServerImplementsWorker == Spec => WorkerSpec
  BY Counting, ServerTurns, PTL DEF WorkerSpec

(* Whatever the workers do, the dispatcher sees what Dispatcher.tla        *)
(* expects: counters that only its own packets move, completions only of   *)
(* what was taken, quanta only of workers.  So what is proved of the       *)
(* dispatcher of Dispatcher.tla holds of the dispatcher of the server.     *)
THEOREM ServerImplementsDispatcher == Spec => DispatcherSpec
  BY Counting, ServerFacts, FactsSuffice, PTL

(* No receive buffer is ever lost sight of, for any number of workers,     *)
(* packets and buffers: each packet that arrived is in the batch, on a     *)
(* ring, with a worker, freed, or one of those Worker::discard() leaks;    *)
(* and one the dispatcher dropped, it alone freed.                         *)
THEOREM ServerAccountsForBuffers == Spec => []EveryBufferAccounted
  BY Counting, ServerFacts, FactsSuffice, PTL

(* The server keeps the promise of JobService.tla, for any number of       *)
(* workers, packets and buffers and every dispatch policy: a request that  *)
(* arrived waits, runs and is answered once, or is dropped, found invalid  *)
(* or lost once; no step of any thread forgets it or takes it back.        *)
THEOREM ServerKeepsPromise == Spec => KeepsPromise
  BY Counting, ServerFacts, FactsSuffice, PTL

================================================================================
