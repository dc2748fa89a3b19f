------------------------------ MODULE PoolProofs ------------------------------
(***************************************************************************)
(* Proofs about the counts of Worker.tla: that a receive buffer has one    *)
(* holder, the transmit buffers of the pool all workers share, the types   *)
(* of every counter, and the quanta published to the dispatcher.           *)
(***************************************************************************)
EXTENDS BufferProofs, SumProofs

(* A sequence without repetitions has as many elements as places.          *)
LEMMA NoRepeatCount ==
  ASSUME NEW S, NEW s \in Seq(S), NoRepeat(s)
  PROVE  IsFiniteSet(Range(s)) /\ Cardinality(Range(s)) = Len(s)
<1> DEFINE m == Len(s)
<1>1. m \in Nat /\ DOMAIN s = 1..m OBVIOUS
<1>2. s \in [1..m -> Range(s)] BY DEF Range
<1>3. \A x \in Range(s) : \E i \in 1..m : s[i] = x BY <1>1 DEF Range
<1>4. \A i, j \in 1..m : s[i] = s[j] => i = j BY DEF NoRepeat
<1> HIDE DEF m
<1>5. s \in Bijection(1..m, Range(s))
  BY <1>2, <1>3, <1>4 DEF Bijection, Injection, Surjection, IsInjective
<1>6. IsFiniteSet(1..m) /\ Cardinality(1..m) = m BY <1>1, FS_Interval
<1> QED BY <1>5, <1>6, FS_Bijection DEF ExistsBijection, m

(* A receive buffer has one holder: no two jobs share it, none that is in  *)
(* use is freed, none is freed twice, however the workers, the NIC and the *)
(* dispatcher interleave and whatever the sizes.                           *)
THEOREM WorkerOneHolderPerBuffer == Spec => []OneHolderPerBuffer
<1>1. TurnInv /\ BInv => OneHolderPerBuffer
  <2> SUFFICES ASSUME TurnInv, BInv PROVE OneHolderPerBuffer OBVIOUS
  <2>1. ASSUME NEW w \in Workers
        PROVE  /\ Cardinality(Range(Held(w))) = Len(Held(w))
               /\ Range(Held(w)) = Open(w) \cup DoneOf(w)
    BY HeldIs, NoRepeatCount, Zenon
  <2>2. ASSUME NEW w \in Workers PROVE Range(Held(w)) \cap (freed \cup leaked) = {}
    <3>1. Fresh(w) BY DEF BInv
    <3>2. Open(w) \cap (freed \cup leaked) = {} /\ DoneOf(w) \cap (freed \cup leaked) = {}
      BY <3>1 DEF Fresh
    <3> QED BY <3>2, <2>1, Zenon
  <2>3. \A v, w \in Workers : v # w => Range(Held(v)) \cap Range(Held(w)) = {}
    <3>1. \A v, w \in Workers : v # w => Mine(v) \cap Mine(w) = {} BY DEF BInv
    <3>2. \A v \in Workers : Range(Held(v)) \subseteq Mine(v) BY <2>1 DEF Mine
    <3> QED BY <3>1, <3>2
  <2> QED BY <2>1, <2>2, <2>3 DEF OneHolderPerBuffer
<1> QED BY <1>1, InvariantB, PTL

LEMMA SumOfThree ==
  ASSUME NEW a \in Nat, NEW b \in Nat, NEW c \in Nat
  PROVE  /\ a + b + c \in Nat /\ (1 + a) + b + c = 1 + (a + b + c)
         /\ a + b + (c - 1) = (a + b + c) - 1
  OBVIOUS

--------------------------------------------------------------------------------
(* The transmit buffers that worker w and its NIC queue have.              *)
InUse(w) == Len(busy_coros[w]) + Len(tx_bufs[w]) + nic_tx[w]

PoolInv == tx_mbuf_pool \in Nat /\ IsFiniteSet(unsent) /\ TxBuffersAccounted

LEMMA InUseIsNat ==
  ASSUME TurnInv, NicFits
  PROVE  \A w \in Workers : /\ InUse(w) \in Nat /\ Len(busy_coros[w]) \in Nat
                            /\ Len(tx_bufs[w]) \in Nat /\ nic_tx[w] \in Nat
<1> SUFFICES ASSUME NEW w \in Workers
             PROVE  /\ InUse(w) \in Nat /\ Len(busy_coros[w]) \in Nat
                    /\ Len(tx_bufs[w]) \in Nat /\ nic_tx[w] \in Nat
  OBVIOUS
<1>1. busy_coros[w] \in Seq(Coros) /\ tx_bufs[w] \in Seq(0..MaxPackets)
  BY Types DEF TurnInv
<1>2. Len(busy_coros[w]) \in Nat /\ Len(tx_bufs[w]) \in Nat BY <1>1
<1>3. nic_tx[w] \in Nat BY WorkerAssumption DEF NicFits
<1> QED BY <1>2, <1>3, SumOfThree, Zenon DEF InUse

(* A step of one worker or of its NIC that moves transmit buffers and      *)
(* loses none.                                                             *)
LEMMA BuffersMove ==
  ASSUME TurnInv, NicFits, PoolInv, NEW w \in Workers,
         NEW u \in Nat, u = InUse(w)', tx_mbuf_pool' \in Nat, IsFiniteSet(unsent'),
         \A v \in Workers \ {w} : InUse(v)' = InUse(v),
         tx_mbuf_pool' + Cardinality(unsent') + u
           = tx_mbuf_pool + Cardinality(unsent) + InUse(w)
  PROVE  PoolInv'
<1> DEFINE f == [v \in Workers |-> InUse(v)]
           g == [v \in Workers |-> IF v = w THEN u ELSE InUse(v)]
<1>1. f \in [Workers -> Int] /\ g \in [Workers -> Int] BY InUseIsNat
<1>2. \A v \in Workers \ {w} : f[v] = g[v] OBVIOUS
<1>3. g[w] = u /\ f[w] = InUse(w) OBVIOUS
<1>4. IsFiniteSet(Workers) BY WorkerAssumption
<1>5. f = [v \in Workers |-> Len(busy_coros[v]) + Len(tx_bufs[v]) + nic_tx[v]]
  BY DEF InUse
<1>6. g = [v \in Workers |-> Len(busy_coros'[v]) + Len(tx_bufs'[v]) + nic_tx'[v]]
  <2>1. \A v \in Workers : InUse(v)' = IF v = w THEN u ELSE InUse(v) OBVIOUS
  <2>2. \A v \in Workers : InUse(v)' = Len(busy_coros'[v]) + Len(tx_bufs'[v]) + nic_tx'[v]
    BY DEF InUse
  <2> QED BY <2>1, <2>2, Zenon
<1> HIDE DEF f, g
<1>7. SumFunction(g) = SumFunction(f) + (g[w] - f[w]) BY <1>1, <1>2, <1>4, SumChanges
<1>8. SumFunction(f) \in Int BY <1>1, <1>4, SumType
<1>9. tx_mbuf_pool + Cardinality(unsent) + SumFunction(f) = TxMbufPoolSize
  BY <1>5 DEF PoolInv, TxBuffersAccounted
<1>10. Cardinality(unsent) \in Nat /\ Cardinality(unsent') \in Nat
  BY FS_CardinalityType DEF PoolInv
<1>11. InUse(w) \in Nat /\ tx_mbuf_pool \in Nat BY InUseIsNat DEF PoolInv
<1>12. PICK p \in Int, pp \in Int, c \in Int, cc \in Int, x \in Int, a \in Int, n \in Int :
         /\ p = tx_mbuf_pool /\ pp = tx_mbuf_pool'
         /\ c = Cardinality(unsent) /\ cc = Cardinality(unsent')
         /\ x = InUse(w) /\ a = SumFunction(f) /\ n = TxMbufPoolSize
  BY <1>8, <1>10, <1>11, WorkerAssumption
<1>13. pp + cc + u = p + c + x BY <1>12
<1>14. p + c + a = n BY <1>9, <1>12
<1>15. pp + cc + (a + (u - x)) = n BY <1>13, <1>14
<1>16. SumFunction(g) = a + (u - x) BY <1>3, <1>7, <1>12
<1>17. tx_mbuf_pool' + Cardinality(unsent') + SumFunction(g) = TxMbufPoolSize
  BY <1>12, <1>15, <1>16
<1> QED BY <1>6, <1>17 DEF PoolInv, TxBuffersAccounted

LEMMA InitPool == Init => PoolInv
<1> SUFFICES ASSUME Init PROVE PoolInv OBVIOUS
<1> DEFINE f == [w \in Workers |-> Len(busy_coros[w]) + Len(tx_bufs[w]) + nic_tx[w]]
<1>1. /\ tx_mbuf_pool = TxMbufPoolSize /\ unsent = {}
      /\ \A w \in Workers : busy_coros[w] = <<>> /\ tx_bufs[w] = <<>> /\ nic_tx[w] = 0
  BY DEF Init, WorkerInit
<1>2. f \in [Workers -> {0}]
  <2>1. \A w \in Workers : Len(busy_coros[w]) = 0 /\ Len(tx_bufs[w]) = 0 BY <1>1
  <2>2. 0 + 0 + 0 = 0 OBVIOUS
  <2>3. \A w \in Workers : Len(busy_coros[w]) + Len(tx_bufs[w]) + nic_tx[w] = 0
    BY <1>1, <2>1, <2>2, Zenon
  <2> QED BY <2>3, Zenon
<1>3. IsFiniteSet(Workers) /\ TxMbufPoolSize \in Nat BY WorkerAssumption
<1>4. SumFunction(f) = 0
  <2> HIDE DEF f
  <2> QED BY <1>2, <1>3, SumOfZeros
<1>5. Cardinality(unsent) = 0 /\ IsFiniteSet(unsent) BY <1>1, FS_EmptySet
<1> QED BY <1>1, <1>3, <1>4, <1>5 DEF PoolInv, TxBuffersAccounted

(* A step that leaves every count alone.                                   *)
LEMMA BuffersStay ==
  ASSUME TurnInv, NicFits, PoolInv, UNCHANGED <<tx_mbuf_pool, unsent, nic_tx>>,
         \A v \in Workers : Len(busy_coros'[v]) + Len(tx_bufs'[v])
                              = Len(busy_coros[v]) + Len(tx_bufs[v])
  PROVE  PoolInv'
<1>1. PICK w \in Workers : TRUE BY WorkerAssumption
<1>2. \A v \in Workers : InUse(v)' = InUse(v) BY Zenon DEF InUse
<1>3. InUse(w) \in Nat BY InUseIsNat
<1> QED BY <1>2, <1>3, BuffersMove DEF PoolInv

LEMMA FlushPool ==
  ASSUME TurnInv, NicFits, BInv, PoolInv, NEW w \in Workers, Flush(w) PROVE PoolInv'
<1>0. LoopTypeOK BY DEF TurnInv
<1> DEFINE t == tx_bufs[w]
           nb == Lesser(Len(t), TxRingSize - nic_tx[w])
           rest == Range(AllAfter(t, nb))
<1>1. UNCHANGED <<tx_mbuf_pool, busy_coros>> BY DEF Flush, coroVars
<1>2. \/ UNCHANGED <<nic_tx, unsent, tx_bufs>>
      \/ /\ nic_tx' = [nic_tx EXCEPT ![w] = @ + nb]
         /\ unsent' = unsent \cup rest
         /\ tx_bufs' = [tx_bufs EXCEPT ![w] = <<>>]
  BY Zenon DEF Flush, Transmit
<1>3. CASE UNCHANGED <<nic_tx, unsent, tx_bufs>> BY <1>1, <1>3, BuffersStay
<1>4. CASE /\ nic_tx' = [nic_tx EXCEPT ![w] = @ + nb]
           /\ unsent' = unsent \cup rest
           /\ tx_bufs' = [tx_bufs EXCEPT ![w] = <<>>]
  <2>1. Once(w) /\ TxOf(w) \cap (sent \cup unsent) = {} BY DEF BInv, Own, Fresh
  <2>2. t \in Seq(0..MaxPackets) /\ nb \in 0..Len(t) /\ NoRepeat(t) /\ nb \in Nat
    BY <1>0, <2>1, Types, BurstTaken DEF Once
  <2>3. /\ Range(FirstOf(t, nb)) \cup Range(AllAfter(t, nb)) = Range(t)
        /\ IsFiniteSet(rest) /\ Cardinality(rest) = Len(t) - nb
    <3> DEFINE S == 0..MaxPackets
    <3>1. t \in Seq(S) BY <2>2
    <3> HIDE DEF S, t, nb
    <3>2. /\ NoRepeat(AllAfter(t, nb))
          /\ Range(FirstOf(t, nb)) \cup Range(AllAfter(t, nb)) = Range(t)
      BY <3>1, <2>2, NoRepeatSplit
    <3>3. AllAfter(t, nb) \in Seq(S) /\ Len(AllAfter(t, nb)) = Len(t) - nb
      BY <3>1, <2>2, AllAfterProperties
    <3>4. /\ IsFiniteSet(Range(AllAfter(t, nb)))
          /\ Cardinality(Range(AllAfter(t, nb))) = Len(AllAfter(t, nb))
      BY <3>2, <3>3, NoRepeatCount
    <3> QED BY <3>2, <3>3, <3>4
  <2>4. rest \cap unsent = {} BY <2>1, <2>3 DEF TxOf
  <2>5. IsFiniteSet(unsent) /\ Cardinality(unsent) \in Nat BY FS_CardinalityType DEF PoolInv
  <2> HIDE DEF rest, nb, t
  <2>6. /\ IsFiniteSet(unsent')
        /\ Cardinality(unsent') = Cardinality(unsent) + (Len(t) - nb)
    <3>1. /\ IsFiniteSet(unsent \cup rest)
          /\ Cardinality(unsent \cup rest) =
               Cardinality(unsent) + Cardinality(rest) - Cardinality(unsent \cap rest)
      BY <2>3, <2>5, FS_Union
    <3>2. unsent \cap rest = {} /\ Cardinality({}) = 0 BY <2>4, FS_EmptySet
    <3>3. Len(t) \in Nat /\ nb \in Nat BY <2>2
    <3>4. \A a, b \in Int : a + b - 0 = a + b OBVIOUS
    <3>5. Len(t) - nb \in Int BY <3>3
    <3>6. Cardinality(unsent \cup rest) = Cardinality(unsent) + (Len(t) - nb)
      <4>1. Cardinality(unsent \cup rest) = Cardinality(unsent) + (Len(t) - nb) - 0
        BY <3>1, <3>2, <2>3, Zenon
      <4> QED BY <4>1, <3>4, <3>5, <2>5
    <3> QED BY <3>1, <3>6, <1>4
  <2>7. /\ tx_bufs'[w] = <<>> /\ nic_tx'[w] = nic_tx[w] + nb
        /\ \A v \in Workers \ {w} : tx_bufs'[v] = tx_bufs[v] /\ nic_tx'[v] = nic_tx[v]
    BY <1>0, <1>4 DEF LoopTypeOK, NicFits
  <2>8. \A v \in Workers \ {w} : InUse(v)' = InUse(v) BY <1>1, <2>7, Zenon DEF InUse
  <2>9. Len(t) \in Nat /\ Len(busy_coros[w]) \in Nat /\ nic_tx[w] \in Nat
    BY InUseIsNat DEF t
  <2> DEFINE u == Len(busy_coros[w]) + (nic_tx[w] + nb)
  <2>10. u \in Nat BY <2>2, <2>9
  <2>11. u = InUse(w)'
    <3>1. InUse(w)' = Len(busy_coros[w]) + 0 + (nic_tx[w] + nb) BY <1>1, <2>7 DEF InUse
    <3> QED BY <3>1, <2>2, <2>9
  <2>12. tx_mbuf_pool \in Nat /\ InUse(w) = Len(busy_coros[w]) + Len(t) + nic_tx[w]
    BY DEF PoolInv, InUse, t
  <2>13. \A p, c, l, b, n, k \in Int :
           p + (c + (l - k)) + (b + (n + k)) = p + c + (b + l + n)
    OBVIOUS
  <2>14. tx_mbuf_pool' + Cardinality(unsent') + u
           = tx_mbuf_pool + Cardinality(unsent) + InUse(w)
    BY <1>1, <2>2, <2>5, <2>6, <2>9, <2>12, <2>13
  <2> HIDE DEF u
  <2>15. tx_mbuf_pool' \in Nat BY <1>1, <2>12
  <2> QED BY <2>6, <2>8, <2>10, <2>11, <2>14, <2>15, BuffersMove
<1> QED BY <1>2, <1>3, <1>4

LEMMA FinishPool ==
  ASSUME TurnInv, NicFits, PoolInv, NEW w \in Workers, Finish(w) PROVE PoolInv'
<1>0. LoopTypeOK BY DEF TurnInv
<1>1. PICK i \in NextCoros(w) : \E n \in LastQuanta(w, i) :
        /\ tx_bufs' = [tx_bufs EXCEPT ![w] = Append(@, rx_mbuf[w][busy_coros[w][i]])]
        /\ busy_coros' = [busy_coros EXCEPT ![w] = Erase(@, i)]
  BY Zenon DEF Finish
<1>2. UNCHANGED <<tx_mbuf_pool, unsent, nic_tx>> BY DEF Finish, nicVars, fateVars
<1> DEFINE t == busy_coros[w]
           x == tx_bufs[w]
           p == rx_mbuf[w][t[i]]
<1>3. /\ t \in Seq(Coros) /\ x \in Seq(0..MaxPackets) /\ i \in 1..Len(t)
      /\ p \in 0..MaxPackets
  BY <1>0, Types, Assigned
<1>4. Len(Erase(t, i)) = Len(t) - 1 /\ Len(Append(x, p)) = Len(x) + 1
  <2> HIDE DEF t, x, p
  <2>1. Len(Erase(t, i)) = Len(t) - 1 BY <1>3, EraseProps
  <2> QED BY <1>3, <2>1
<1>5. /\ busy_coros'[w] = Erase(t, i) /\ tx_bufs'[w] = Append(x, p)
      /\ \A v \in Workers \ {w} : busy_coros'[v] = busy_coros[v] /\ tx_bufs'[v] = tx_bufs[v]
  BY <1>0, <1>1 DEF LoopTypeOK
<1>6. Len(t) \in Nat /\ Len(x) \in Nat BY <1>3
<1>7. Len(busy_coros'[w]) + Len(tx_bufs'[w]) = Len(t) + Len(x)
  <2> HIDE DEF t, x, p
  <2> QED BY <1>4, <1>5, <1>6
<1>8. \A v \in Workers : Len(busy_coros'[v]) + Len(tx_bufs'[v])
                           = Len(busy_coros[v]) + Len(tx_bufs[v])
  BY <1>5, <1>7, Zenon
<1> QED BY <1>2, <1>8, BuffersStay, Zenon

LEMMA PreemptPool ==
  ASSUME TurnInv, NicFits, PoolInv, NEW w \in Workers, Preempt(w) PROVE PoolInv'
<1>0. LoopTypeOK BY DEF TurnInv
<1>1. PICK i \in NextCoros(w) : busy_coros' = [busy_coros EXCEPT ![w] = Requeued(w, i)]
  BY Zenon DEF Preempt
<1>2. UNCHANGED <<tx_mbuf_pool, unsent, nic_tx, tx_bufs>> BY DEF Preempt, nicVars, fateVars
<1>3. Len(Requeued(w, i)) = Len(busy_coros[w]) BY <1>0, Assigned, RequeuedProps
<1>4. \A v \in Workers : Len(busy_coros'[v]) = Len(busy_coros[v])
  BY <1>0, <1>1, <1>3 DEF LoopTypeOK
<1> QED BY <1>2, <1>4, BuffersStay, Zenon

LEMMA AcceptPool ==
  ASSUME TurnInv, NicFits, PoolInv, NEW w \in Workers, Accept(w) PROVE PoolInv'
<1>0. LoopTypeOK /\ Turn(w) BY DEF TurnInv
<1>1. /\ tx_mbuf_pool > 0 /\ tx_mbuf_pool' = tx_mbuf_pool - 1
      /\ busy_coros' = [busy_coros EXCEPT ![w] = <<Back(idle_coros[w])>> \o busy_coros[w]]
      /\ UNCHANGED <<unsent, nic_tx, tx_bufs>>
  BY DEF Accept, NextOfBurst, WithNewJob, TxPoolAfterAlloc, fateVars
<1> DEFINE t == busy_coros[w]
           e == <<Back(idle_coros[w])>>
<1>2. t \in Seq(Coros) BY <1>0, Types
<1>3. idle_coros[w] # <<>>
  <2>1. burst[w] # <<>> /\ burst[w] \in Seq(Packets) /\ Len(burst[w]) <= Len(idle_coros[w])
        /\ idle_coros[w] \in Seq(Coros)
    BY <1>0, BurstShrinks, Types DEF Accept, Turn
  <2> QED BY SMTT(30), <2>1
<1>4. e \in Seq(Coros) /\ Len(e) = 1
  <2>1. Back(idle_coros[w]) \in Coros BY <1>0, <1>3, Types, PopBackProps
  <2> QED BY <2>1
<1> HIDE DEF e
<1>5. /\ busy_coros'[w] = e \o t
      /\ \A v \in Workers \ {w} : busy_coros'[v] = busy_coros[v]
  BY <1>0, <1>1 DEF LoopTypeOK, e
<1>6. Len(e \o t) = 1 + Len(t)
  <2> HIDE DEF t
  <2>1. Len(e \o t) = Len(e) + Len(t) BY <1>2, <1>4, ConcatFacts, Zenon
  <2> QED BY <2>1, <1>4, Zenon
<1>7. \A v \in Workers \ {w} : InUse(v)' = InUse(v) BY <1>1, <1>5 DEF InUse
<1>8. /\ InUse(w) \in Nat /\ Len(t) \in Nat /\ Len(tx_bufs[w]) \in Nat /\ nic_tx[w] \in Nat
  BY InUseIsNat
<1>9. InUse(w)' = 1 + InUse(w)
  <2>1. InUse(w)' = (1 + Len(t)) + Len(tx_bufs[w]) + nic_tx[w] BY <1>1, <1>5, <1>6, Zenon DEF InUse
  <2>2. InUse(w) = Len(t) + Len(tx_bufs[w]) + nic_tx[w] BY DEF InUse
  <2> DEFINE a == Len(t)
             b == Len(tx_bufs[w])
             n == nic_tx[w]
  <2>3. /\ InUse(w)' = (1 + a) + b + n /\ InUse(w) = a + b + n
        /\ a \in Nat /\ b \in Nat /\ n \in Nat
    BY <2>1, <2>2, <1>8
  <2> HIDE DEF a, b, n
  <2> QED BY <2>3, SumOfThree
<1> DEFINE u == 1 + InUse(w)
<1>10. u \in Nat BY <1>8
<1>11. tx_mbuf_pool' \in Nat /\ tx_mbuf_pool \in Nat /\ IsFiniteSet(unsent')
  BY <1>1 DEF PoolInv
<1>12. Cardinality(unsent') = Cardinality(unsent) /\ Cardinality(unsent) \in Nat
  BY <1>1, FS_CardinalityType DEF PoolInv
<1>13. tx_mbuf_pool' + Cardinality(unsent') + u
         = tx_mbuf_pool + Cardinality(unsent) + InUse(w)
  BY <1>1, <1>8, <1>11, <1>12
<1> QED BY <1>7, <1>9, <1>10, <1>11, <1>13, BuffersMove

LEMMA NicSendsPool ==
  ASSUME TurnInv, NicFits, PoolInv, NEW w \in Workers, NicSends(w) PROVE PoolInv'
<1>1. /\ nic_tx[w] > 0 /\ nic_tx' = [nic_tx EXCEPT ![w] = @ - 1]
      /\ tx_mbuf_pool' = tx_mbuf_pool + 1 /\ UNCHANGED <<busy_coros, tx_bufs, unsent>>
  BY DEF NicSends, workerVars, coroVars, fateVars
<1>2. /\ nic_tx'[w] = nic_tx[w] - 1 /\ \A v \in Workers \ {w} : nic_tx'[v] = nic_tx[v]
  BY <1>1 DEF NicFits
<1>3. \A v \in Workers \ {w} : InUse(v)' = InUse(v) BY <1>1, <1>2 DEF InUse
<1>4. /\ InUse(w) \in Nat /\ Len(busy_coros[w]) \in Nat /\ Len(tx_bufs[w]) \in Nat
      /\ nic_tx[w] \in Nat
  BY InUseIsNat
<1> DEFINE u == InUse(w) - 1
<1>5. u = InUse(w)' /\ u \in Nat
  <2>1. InUse(w)' = Len(busy_coros[w]) + Len(tx_bufs[w]) + (nic_tx[w] - 1)
    BY <1>1, <1>2, Zenon DEF InUse
  <2>2. InUse(w) = Len(busy_coros[w]) + Len(tx_bufs[w]) + nic_tx[w] BY DEF InUse
  <2> DEFINE a == Len(busy_coros[w])
             b == Len(tx_bufs[w])
             n == nic_tx[w]
  <2>3. /\ InUse(w)' = a + b + (n - 1) /\ InUse(w) = a + b + n
        /\ a \in Nat /\ b \in Nat /\ n \in Nat /\ n > 0
    BY <2>1, <2>2, <1>1, <1>4
  <2> HIDE DEF a, b, n
  <2>4. InUse(w)' = InUse(w) - 1 BY <2>3, SumOfThree
  <2>5. InUse(w) > 0 BY <2>3
  <2> QED BY <2>4, <2>5, <1>4
<1>6. tx_mbuf_pool' \in Nat /\ tx_mbuf_pool \in Nat /\ IsFiniteSet(unsent')
  BY <1>1 DEF PoolInv
<1>7. Cardinality(unsent') = Cardinality(unsent) /\ Cardinality(unsent) \in Nat
  BY <1>1, FS_CardinalityType DEF PoolInv
<1>8. tx_mbuf_pool' + Cardinality(unsent') + u
         = tx_mbuf_pool + Cardinality(unsent) + InUse(w)
  BY <1>1, <1>4, <1>6, <1>7
<1> QED BY <1>3, <1>5, <1>6, <1>8, BuffersMove

LEMMA PoolStep ==
  ASSUME TurnInv, NicFits, BInv, PoolInv, [Next]_vars PROVE PoolInv'
<1>1. ASSUME UNCHANGED <<tx_mbuf_pool, unsent, nic_tx, busy_coros, tx_bufs>> PROVE PoolInv'
  BY <1>1, BuffersStay
<1>2. UNCHANGED vars => UNCHANGED <<tx_mbuf_pool, unsent, nic_tx, busy_coros, tx_bufs>>
  BY DEF vars, nicVars, workerVars, coroVars, fateVars
<1>3. ASSUME NEW w \in Workers, Settle(w) \/ Poll(w) \/ AcceptWithoutBuffer(w) \/ Discard(w)
      PROVE  PoolInv'
  <2>1. UNCHANGED <<tx_mbuf_pool, unsent, nic_tx, busy_coros, tx_bufs>>
    BY <1>3, Zenon DEF Settle, Poll, AcceptWithoutBuffer, Discard, NextOfBurst, nicVars, coroVars,
         fateVars
  <2> QED BY <2>1, <1>1
<1>4. ASSUME NEW w \in Workers, WorkerNext(w) PROVE PoolInv'
  BY <1>3, <1>4, PreemptPool, FinishPool, AcceptPool, FlushPool, Zenon DEF WorkerNext
<1>5. ASSUME NEW w \in Workers, EnvOffer(w) PROVE PoolInv'
  <2>1. UNCHANGED <<tx_mbuf_pool, unsent, nic_tx, busy_coros, tx_bufs>>
    BY <1>5 DEF EnvOffer, nicVars, workerVars, coroVars, fateVars
  <2> QED BY <2>1, <1>1
<1> QED BY <1>1, <1>2, <1>4, <1>5, NicSendsPool DEF Next

LEMMA InvariantPool == Spec => []PoolInv
<1>1. TurnInv /\ NicFits /\ BInv /\ PoolInv /\ [Next]_vars => PoolInv' BY PoolStep
<1> QED BY <1>1, InitPool, InvariantB, PTL DEF Spec

(* No transmit buffer is lost but the ones the NIC refuses: those in the   *)
(* pool, of the jobs, in tx_bufs, in the NIC's queues and refused add up   *)
(* to TX_MBUF_POOL_SIZE, for any number of workers.                        *)
THEOREM WorkerTxBuffersAccounted == Spec => []TxBuffersAccounted
<1>1. PoolInv => TxBuffersAccounted BY DEF PoolInv
<1> QED BY <1>1, InvariantPool, PTL

--------------------------------------------------------------------------------
(* The counters, indices and buffers of a worker stay in their ranges:     *)
(* curr_sizes[w].size counts up, the pool is never overdrawn and never     *)
(* holds more than TX_MBUF_POOL_SIZE, the NIC never more than its ring.    *)
THEOREM WorkerTypeOK == Spec => []TypeOK
<1>1. TurnInv /\ NicFits /\ BInv /\ PoolInv /\ CountTypeOK => TypeOK
  <2> SUFFICES ASSUME TurnInv, NicFits, BInv, PoolInv, CountTypeOK PROVE TypeOK OBVIOUS
  <2>0. LoopTypeOK BY DEF TurnInv
  <2>1. 1..offered \subseteq Packets BY <2>0, Numbers DEF LoopTypeOK, Packets
  <2>2. /\ freed \subseteq Packets /\ leaked \subseteq Packets
        /\ sent \subseteq Packets /\ unsent \subseteq Packets
    BY <2>1 DEF BInv
  <2>3. \A w \in Workers : Range(tx_bufs[w]) \subseteq Packets
                           /\ Range(return_rx_bufs[w]) \subseteq Packets
    <3>1. \A w \in Workers : Mine(w) \subseteq 1..offered BY DEF BInv
    <3> QED BY <3>1, <2>1 DEF Mine, TxOf, DoneOf
  <2>4. ASSUME NEW s, s \in Seq(0..MaxPackets), Range(s) \subseteq Packets
        PROVE  s \in Seq(Packets)
    <3>1. \A i \in 1..Len(s) : s[i] \in Packets BY <2>4 DEF Range
    <3> QED BY <2>4, <3>1
  <2>5. tx_bufs \in [Workers -> Seq(Packets)] /\ return_rx_bufs \in [Workers -> Seq(Packets)]
    <3>1. \A w \in Workers : tx_bufs[w] \in Seq(Packets) /\ return_rx_bufs[w] \in Seq(Packets)
      BY <2>0, <2>3, <2>4, Types
    <3> QED BY <3>1, <2>0 DEF LoopTypeOK
  <2>6. tx_mbuf_pool \in 0..TxMbufPoolSize
    <3> DEFINE f == [w \in Workers |-> Len(busy_coros[w]) + Len(tx_bufs[w]) + nic_tx[w]]
    <3>1. f \in [Workers -> Nat] BY InUseIsNat, Zenon DEF InUse
    <3>2. tx_mbuf_pool + Cardinality(unsent) + SumFunction(f) = TxMbufPoolSize
      BY DEF PoolInv, TxBuffersAccounted
    <3> HIDE DEF f
    <3>3. SumFunction(f) \in Nat BY <3>1, SumOfNats, WorkerAssumption
    <3>4. tx_mbuf_pool \in Nat /\ Cardinality(unsent) \in Nat
      BY FS_CardinalityType DEF PoolInv
    <3>5. TxMbufPoolSize \in Nat BY WorkerAssumption
    <3>6. PICK p \in Nat, c \in Nat, a \in Nat, n \in Nat :
            p = tx_mbuf_pool /\ c = Cardinality(unsent) /\ a = SumFunction(f)
            /\ n = TxMbufPoolSize
      BY <3>3, <3>4, <3>5
    <3>7. p + c + a = n BY <3>2, <3>6
    <3>8. p \in 0..n BY <3>7
    <3> QED BY <3>6, <3>8
  <2> QED BY <2>0, <2>2, <2>5, <2>6, Zenon DEF TypeOK, LoopTypeOK, CountTypeOK, NicFits
<1> QED BY <1>1, InvariantB, InvariantPool, InvariantCounts, PTL

--------------------------------------------------------------------------------
(* Room for a job, a response and a descriptor in every slot there is: the *)
(* pool of the build is 8191 for 14 workers with 14 + 2 + 128 slots each.  *)
PoolCoversSlots ==
  TxMbufPoolSize >=
    Cardinality(Workers) * (NumWorkerCoros + TxQueueBurstSize + TxRingSize)

(* A worker that examines a packet while every buffer is in use has seen   *)
(* one refused: it has an idle coroutine, so the slots cannot all be full. *)
LEMMA PoolEmptyMeansRefused ==
  ASSUME TurnInv, NicFits, PoolInv, PoolCoversSlots, NEW w \in Workers,
         w_pc[w] = "take", tx_mbuf_pool = 0
  PROVE  unsent # {}
<1>0. SUFFICES ASSUME unsent = {} PROVE FALSE OBVIOUS
<1> DEFINE f == [v \in Workers |-> InUse(v)]
           g == [v \in Workers |-> IF v = w THEN InUse(v) + 1 ELSE InUse(v)]
           k == NumWorkerCoros + TxQueueBurstSize + TxRingSize
           m == Cardinality(Workers) * k
<1>1. /\ IsFiniteSet(Workers) /\ TxMbufPoolSize \in Nat /\ TxRingSize \in Nat
      /\ NumWorkerCoros \in Nat /\ TxQueueBurstSize \in Nat
  BY WorkerAssumption
<1>2. \A v \in Workers : InUse(v) \in Nat BY InUseIsNat
<1>3. f \in [Workers -> Int] /\ g \in [Workers -> Int] BY <1>2
<1>4. ASSUME NEW v \in Workers
      PROVE  InUse(v) <= k /\ (v = w => InUse(v) + 1 <= k)
  <2>1. /\ Len(idle_coros[v]) + Len(busy_coros[v]) = NumWorkerCoros
        /\ Len(tx_bufs[v]) <= TxQueueBurstSize /\ nic_tx[v] \in 0..TxRingSize
        /\ Len(burst[v]) <= Len(idle_coros[v])
    BY Zenon DEF TurnInv, Turn, NicFits
  <2>2. burst[v] \in Seq(Packets) /\ idle_coros[v] \in Seq(Coros) BY Types DEF TurnInv
  <2>3. v = w => Len(idle_coros[v]) > 0
    <3>1. v = w => burst[v] # <<>> BY Zenon DEF TurnInv, Turn
    <3> QED BY <3>1, <2>1, <2>2
  <2>4. PICK i \in Nat, b \in Nat, t \in Nat, n \in Nat :
          /\ i = Len(idle_coros[v]) /\ b = Len(busy_coros[v]) /\ t = Len(tx_bufs[v])
          /\ n = nic_tx[v]
    BY SMTT(30), <2>2, InUseIsNat
  <2>5. /\ i + b = NumWorkerCoros /\ t <= TxQueueBurstSize /\ n <= TxRingSize
        /\ (v = w => i > 0) /\ InUse(v) = b + t + n
    <3>1. i + b = NumWorkerCoros /\ t <= TxQueueBurstSize BY <2>1, <2>4, Zenon
    <3>2. n <= TxRingSize BY <2>1, <2>4, <1>1
    <3>3. InUse(v) = b + t + n BY <2>4 DEF InUse
    <3> QED BY <3>1, <3>2, <3>3, <2>3, <2>4, Zenon
  <2>6. b + t + n <= k /\ (i > 0 => b + t + n + 1 <= k) BY <2>5, <1>1
  <2> QED BY <2>5, <2>6
<1>5. k \in Nat BY <1>1
<1>6. \A v \in Workers : g[v] <= k BY <1>4
<1>7. (\A v \in Workers \ {w} : f[v] = g[v]) /\ g[w] = InUse(w) + 1 /\ f[w] = InUse(w)
  OBVIOUS
<1>8. TxMbufPoolSize >= m BY DEF PoolCoversSlots
<1>9. f = [v \in Workers |-> Len(busy_coros[v]) + Len(tx_bufs[v]) + nic_tx[v]]
  BY DEF InUse
<1>10. tx_mbuf_pool + Cardinality(unsent) + SumFunction(f) = TxMbufPoolSize
  BY <1>9, Zenon DEF PoolInv, TxBuffersAccounted
<1> HIDE DEF f, g
<1>11. SumFunction(g) = SumFunction(f) + (g[w] - f[w]) BY <1>1, <1>3, <1>7, SumChanges
<1>12. SumFunction(f) \in Int BY <1>1, <1>3, SumType
<1>13. SumFunction(g) <= m
  <2> HIDE DEF k
  <2> QED BY <1>1, <1>3, <1>5, <1>6, SumAtMost
<1>14. Cardinality(unsent) = 0 BY <1>0, FS_EmptySet
<1>15. m \in Nat
  <2>1. Cardinality(Workers) \in Nat BY <1>1, FS_CardinalityType
  <2> HIDE DEF k
  <2> QED BY <2>1, <1>5
<1> HIDE DEF m
<1>16. SumFunction(f) = TxMbufPoolSize BY <1>1, <1>10, <1>12, <1>14
<1>17. SumFunction(g) = SumFunction(f) + 1 BY <1>2, <1>7, <1>11, <1>12
<1> QED BY <1>1, <1>8, <1>12, <1>13, <1>15, <1>16, <1>17

(* Where the pool has a buffer for every slot, a worker runs out of        *)
(* transmit buffers only after the NIC has refused a response: refusal is  *)
(* the one leak.                                                           *)
THEOREM WorkerDiesOnlyOfRefusals ==
  ASSUME PoolCoversSlots PROVE Spec => []DiesOnlyOfRefusals
<1>1. Init => DiesOnlyOfRefusals BY DEF Init, WorkerInit, DiesOnlyOfRefusals
<1>2. TurnInv /\ NicFits /\ PoolInv /\ DiesOnlyOfRefusals /\ [Next]_vars
        => DiesOnlyOfRefusals'
  <2> SUFFICES ASSUME TurnInv, NicFits, PoolInv, DiesOnlyOfRefusals, [Next]_vars,
                      NEW w \in Workers, w_pc'[w] = "crashed", unsent' = {}
               PROVE  FALSE
    BY DEF DiesOnlyOfRefusals
  <2>0. LoopTypeOK BY DEF TurnInv
  <2>1. unsent = {}
    <3>1. ASSUME NEW v \in Workers, Flush(v) PROVE unsent \subseteq unsent'
      BY <3>1, Zenon DEF Flush, Transmit
    <3>2. ASSUME NEW v \in Workers, WorkerNext(v), ~Flush(v) PROVE UNCHANGED unsent
      BY <3>2, Zenon DEF WorkerNext, Preempt, Finish, Settle, Poll, Accept, AcceptWithoutBuffer,
           Discard, fateVars
    <3>3. ASSUME NEW v \in Workers, NicSends(v) \/ EnvOffer(v) PROVE UNCHANGED unsent
      BY <3>3, Zenon DEF NicSends, EnvOffer, workerVars, fateVars
    <3>4. UNCHANGED vars => UNCHANGED unsent BY DEF vars, workerVars, fateVars
    <3> QED BY <3>1, <3>2, <3>3, <3>4 DEF Next
  <2>2. w_pc[w] # "crashed" BY <2>1 DEF DiesOnlyOfRefusals
  <2>3. ASSUME NEW v \in Workers, NEW l, Goto(v, l), l # "crashed" PROVE FALSE
    BY <2>2, <2>3, <2>0 DEF Goto, LoopTypeOK
  <2>4. ASSUME NEW v \in Workers, WorkerNext(v) PROVE AcceptWithoutBuffer(v)
    <3>1. ~Preempt(v) BY <2>3, Zenon DEF Preempt
    <3>2. ~Finish(v) BY <2>3, Zenon DEF Finish
    <3>3. ~Settle(v) BY <2>3, Zenon DEF Settle
    <3>4. ~Flush(v) BY <2>3, Zenon DEF Flush
    <3>5. \A P : (IF P THEN "flush" ELSE "take") # "crashed" OBVIOUS
    <3>6. ~AfterTake(v) BY <2>3, <3>5, Zenon DEF AfterTake
    <3>7. ~Accept(v) /\ ~Discard(v) BY <3>6, Zenon DEF Accept, Discard
    <3>8. ~Poll(v) BY <2>3, <3>5, Zenon DEF Poll
    <3> QED BY <2>4, <3>1, <3>2, <3>3, <3>4, <3>7, <3>8 DEF WorkerNext
  <2>5. UNCHANGED w_pc => FALSE BY <2>2
  <2>6. \A v \in Workers : ~NicSends(v) /\ ~EnvOffer(v)
    BY <2>5 DEF NicSends, EnvOffer, workerVars
  <2>7. ~UNCHANGED vars BY <2>5 DEF vars, workerVars
  <2>8. PICK v \in Workers : AcceptWithoutBuffer(v) BY <2>4, <2>6, <2>7 DEF Next
  <2>9. w_pc[v] = "take" /\ tx_mbuf_pool = 0 BY <2>8 DEF AcceptWithoutBuffer
  <2> QED BY <2>1, <2>9, PoolEmptyMeansRefused
<1> QED BY <1>1, <1>2, TurnInvariant, InvariantB, InvariantPool, PTL DEF Spec

(* The quanta each coroutine of worker w has had for a job in service.     *)
Attained(w) == [c \in Coros |-> IF c \in InService(w) THEN num_quanta[w][c] ELSE 0]

LEMMA AttainedType ==
  ASSUME LoopTypeOK, NEW w \in Workers PROVE Attained(w) \in [Coros -> Int]
<1>1. \A c \in Coros : num_quanta[w][c] \in Int BY Types
<1> QED BY <1>1 DEF Attained

(* One coroutine's part in the sum of worker w changes, by d.              *)
LEMMA QuantaChange ==
  ASSUME LoopTypeOK, LoopTypeOK', NEW w \in Workers, NEW c \in Coros, NEW d \in Int,
         \A e \in Coros \ {c} : Attained(w)'[e] = Attained(w)[e],
         Attained(w)'[c] = Attained(w)[c] + d
  PROVE  QuantaInService(w)' - QuantaInService(w) = d
<1> DEFINE f == Attained(w)
           g == Attained(w)'
<1>1. f \in [Coros -> Int] BY AttainedType
<1>2. g \in [Coros -> Int]
  <2>1. \A e \in Coros : num_quanta'[w][e] \in Int
    <3>1. num_quanta' \in [Workers -> [Coros -> 0..MaxQuanta]] BY Zenon DEF LoopTypeOK
    <3> QED BY <3>1
  <2> QED BY <2>1 DEF Attained
<1>3. IsFiniteSet(Coros) BY Numbers, FS_Interval DEF Coros
<1>4. SumFunction(f) = QuantaInService(w) /\ SumFunction(g) = QuantaInService(w)'
  BY Zenon DEF Attained, QuantaInService
<1>5. (\A e \in Coros \ {c} : f[e] = g[e]) /\ g[c] = f[c] + d OBVIOUS
<1> HIDE DEF f, g
<1>6. SumFunction(g) = SumFunction(f) + (g[c] - f[c]) BY SMTT(30), <1>1, <1>2, <1>3, <1>5, SumChanges
<1>7. SumFunction(f) \in Int /\ f[c] \in Int BY <1>1, <1>3, SumType
<1>8. PICK a \in Int, b \in Int : a = SumFunction(f) /\ b = f[c] BY <1>7
<1>9. SumFunction(g) = a + ((b + d) - b) BY <1>5, <1>6, <1>8
<1>10. (a + ((b + d) - b)) - a = d OBVIOUS
<1> QED BY <1>4, <1>8, <1>9, <1>10

(* A worker whose part in the sum, and whose counter, stay.                *)
LEMMA QuantaStay ==
  ASSUME LoopTypeOK, LoopTypeOK', CountTypeOK, NEW w \in Workers, curr_sq'[w] = curr_sq[w],
         \A c \in Coros : Attained(w)'[c] = Attained(w)[c]
  PROVE  curr_sq'[w] - curr_sq[w] = QuantaInService(w)' - QuantaInService(w)
<1>1. 1 \in Coros BY Numbers DEF Coros
<1>2. Attained(w)[1] \in Int BY <1>1, AttainedType
<1>3. Attained(w)'[1] = Attained(w)[1] + 0 BY <1>1, <1>2
<1>4. QuantaInService(w)' - QuantaInService(w) = 0 BY <1>1, <1>3, QuantaChange
<1>5. curr_sq[w] \in Int BY DEF CountTypeOK
<1> QED BY <1>4, <1>5

LEMMA SameService ==
  ASSUME NEW w \in Workers, InService(w)' = InService(w), num_quanta'[w] = num_quanta[w]
  PROVE  \A c \in Coros : Attained(w)'[c] = Attained(w)[c]
  BY DEF Attained

(* The counter and the sum of worker w move together.                      *)
SqFollows(w) == curr_sq'[w] - curr_sq[w] = QuantaInService(w)' - QuantaInService(w)

LEMMA PreemptSq ==
  ASSUME TurnInv, LoopTypeOK', CountTypeOK, NEW w \in Workers, Preempt(w)
  PROVE  SqFollows(w)
<1>0. LoopTypeOK BY DEF TurnInv
<1>1. PICK i \in NextCoros(w) :
        LET c == busy_coros[w][i]
            n == NumAssignedQuanta(w, i)
        IN  /\ num_quanta' = [num_quanta EXCEPT ![w][c] = @ + n]
            /\ busy_coros' = [busy_coros EXCEPT ![w] = Requeued(w, i)]
            /\ curr_sq' = [curr_sq EXCEPT ![w] = @ + n]
  BY Zenon DEF Preempt
<1> DEFINE c == busy_coros[w][i]
           n == NumAssignedQuanta(w, i)
<1>2. i \in 1..Len(busy_coros[w]) /\ c \in Coros /\ n \in Int BY <1>0, Assigned
<1>3. Range(Requeued(w, i)) = Range(busy_coros[w]) BY <1>0, <1>2, RequeuedProps
<1>4. c \in Range(busy_coros[w])
  <2>1. busy_coros[w] \in Seq(Coros) BY <1>0, Types
  <2> QED BY <2>1, <1>2 DEF Range
<1>5. /\ num_quanta' = [num_quanta EXCEPT ![w][c] = @ + n]
      /\ busy_coros' = [busy_coros EXCEPT ![w] = Requeued(w, i)]
      /\ curr_sq' = [curr_sq EXCEPT ![w] = @ + n]
  BY <1>1
<1> HIDE DEF c, n
<1>6. /\ num_quanta'[w][c] = num_quanta[w][c] + n
      /\ \A e \in Coros \ {c} : num_quanta'[w][e] = num_quanta[w][e]
  <2>1. num_quanta[w] \in [Coros -> 0..MaxQuanta] BY <1>0 DEF LoopTypeOK
  <2>2. num_quanta'[w] = [num_quanta[w] EXCEPT ![c] = @ + n] BY <1>0, <1>5 DEF LoopTypeOK
  <2> QED BY <2>1, <2>2, <1>2
<1>7. w_pc[w] = "run" /\ w_pc'[w] = "poll" BY <1>0 DEF Preempt, Goto, LoopTypeOK
<1>8. InService(w) = Range(busy_coros[w]) /\ InService(w)' = Range(busy_coros[w])
  BY <1>0, <1>3, <1>5, <1>7 DEF InService, LoopTypeOK
<1>9. /\ \A e \in Coros \ {c} : Attained(w)'[e] = Attained(w)[e]
      /\ Attained(w)'[c] = Attained(w)[c] + n
  BY <1>2, <1>4, <1>6, <1>8, Zenon DEF Attained
<1>10. QuantaInService(w)' - QuantaInService(w) = n BY <1>0, <1>2, <1>9, QuantaChange, Zenon
<1>11. curr_sq'[w] = curr_sq[w] + n /\ curr_sq[w] \in Int BY <1>5 DEF CountTypeOK
<1>12. \A a, b \in Int : (a + b) - a = b OBVIOUS
<1> QED BY <1>2, <1>10, <1>11, <1>12 DEF SqFollows

LEMMA FinishSq ==
  ASSUME TurnInv, LoopTypeOK', CountTypeOK, NEW w \in Workers, Finish(w)
  PROVE  SqFollows(w)
<1>0. LoopTypeOK BY DEF TurnInv
<1>1. PICK i \in NextCoros(w) :
        /\ idle_coros' = [idle_coros EXCEPT ![w] = Append(@, busy_coros[w][i])]
        /\ busy_coros' = [busy_coros EXCEPT ![w] = Erase(@, i)]
  BY Zenon DEF Finish
<1>2. UNCHANGED <<num_quanta, curr_sq>> BY Zenon DEF Finish
<1> DEFINE c == busy_coros[w][i]
           s == idle_coros[w]
           t == busy_coros[w]
<1>3. i \in 1..Len(t) /\ c \in Coros /\ s \in Seq(Coros) /\ t \in Seq(Coros)
  BY <1>0, Assigned, Types, Zenon
<1>4. idle_coros'[w] = Append(s, c) /\ busy_coros'[w] = Erase(t, i)
  BY <1>0, <1>1 DEF LoopTypeOK
<1>5. w_pc[w] = "run" /\ w_pc'[w] = "settle" BY <1>0 DEF Finish, Goto, LoopTypeOK
<1>6. Back(Append(s, c)) = c
  <2> HIDE DEF s, c
  <2> QED BY <1>3 DEF Back
<1>7. Range(t) = Range(Erase(t, i)) \cup {c} BY <1>3, RangeErase, Zenon
<1>8. InService(w)' = Range(Erase(t, i)) \cup {c} BY <1>4, <1>5, <1>6, Zenon DEF InService
<1>9. InService(w) = Range(t) BY <1>5, Zenon DEF InService
<1>10. InService(w)' = InService(w) BY <1>7, <1>8, <1>9, Zenon
<1> QED BY <1>0, <1>2, <1>10, SameService, QuantaStay, Zenon DEF SqFollows

LEMMA SettleSq ==
  ASSUME TurnInv, LoopTypeOK', CountTypeOK, NEW w \in Workers, Settle(w)
  PROVE  SqFollows(w)
<1>0. LoopTypeOK BY DEF TurnInv
<1> DEFINE c == Back(idle_coros[w])
           n == num_quanta[w][c]
<1>1. /\ curr_sq' = [curr_sq EXCEPT ![w] = @ - n] /\ w_pc[w] = "settle"
      /\ w_pc' = [w_pc EXCEPT ![w] = "poll"] /\ UNCHANGED <<busy_coros, num_quanta>>
      /\ idle_coros[w] # <<>>
  BY Zenon DEF Settle, QuantaOfFinished, Goto, coroVars, TurnInv, Turn
<1>2. c \in Coros /\ n \in Nat
  <2>1. idle_coros[w] \in Seq(Coros) BY <1>0, Types
  <2>2. c \in Coros BY <1>1, <2>1, PopBackProps
  <2> QED BY <2>2, <1>0, Types
<1>3. c \notin Range(busy_coros[w])
  <2>1. busy_coros[w] \in Seq(Coros) BY <1>0, Types
  <2>2. \A x \in 1..Len(busy_coros[w]) : busy_coros[w][x] # c BY <1>1, CorosDistinct
  <2> QED BY <2>1, <2>2 DEF Range
<1>4. w_pc'[w] = "poll" BY <1>0, <1>1 DEF LoopTypeOK
<1>5. /\ InService(w) = Range(busy_coros[w]) \cup {c}
      /\ InService(w)' = Range(busy_coros[w])
  BY <1>1, <1>4, Zenon DEF InService
<1> DEFINE d == 0 - n
<1>6. d \in Int /\ n + d = 0 BY <1>2
<1>7. /\ \A e \in Coros \ {c} : Attained(w)'[e] = Attained(w)[e]
      /\ Attained(w)'[c] = 0 /\ Attained(w)[c] = n
  BY <1>1, <1>2, <1>3, <1>5, Zenon DEF Attained
<1>8. curr_sq'[w] = curr_sq[w] - n /\ curr_sq[w] \in Int BY <1>1 DEF CountTypeOK
<1>9. curr_sq'[w] - curr_sq[w] = d BY SMTT(30), <1>2, <1>8
<1> HIDE DEF c, d
<1>10. QuantaInService(w)' - QuantaInService(w) = d
  BY <1>0, <1>2, <1>6, <1>7, QuantaChange
<1> QED BY <1>9, <1>10 DEF SqFollows

LEMMA AcceptSq ==
  ASSUME TurnInv, LoopTypeOK', CountTypeOK, NEW w \in Workers, Accept(w)
  PROVE  SqFollows(w)
<1>0. LoopTypeOK /\ Turn(w) BY DEF TurnInv
<1> DEFINE s == idle_coros[w]
           t == busy_coros[w]
           e == Back(s)
<1>1. /\ num_quanta' = [num_quanta EXCEPT ![w] = [@ EXCEPT ![e] = 0]]
      /\ busy_coros' = [busy_coros EXCEPT ![w] = <<e>> \o t]
      /\ curr_sq' = curr_sq
  BY DEF Accept, NextOfBurst, WithNewJob, counterVars
<1>2. s \in Seq(Coros) /\ t \in Seq(Coros) BY <1>0, Types
<1>3. s # <<>>
  <2>1. burst[w] # <<>> /\ burst[w] \in Seq(Packets) /\ Len(burst[w]) <= Len(s)
    BY <1>0, BurstShrinks, Types DEF Accept, Turn
  <2> HIDE DEF s
  <2> QED BY <2>1, <1>2
<1>4. \A x \in 1..Len(t) : t[x] # e BY <1>3, CorosDistinct
<1> HIDE DEF s, t
<1>5. e \in Coros BY <1>2, <1>3, PopBackProps
<1>6. e \notin Range(t) BY <1>2, <1>4 DEF Range
<1> HIDE DEF e
<1>7. Range(<<e>> \o t) = {e} \cup Range(t)
  <2> DEFINE u == <<e>>
  <2>1. u \in Seq(Coros) /\ Range(u) = {e} BY <1>5 DEF Range
  <2> HIDE DEF u
  <2>2. Range(u \o t) = Range(u) \cup Range(t) BY <2>1, <1>2, RangeConcat
  <2> QED BY <2>1, <2>2 DEF u
<1>8. /\ busy_coros'[w] = <<e>> \o t /\ num_quanta'[w][e] = 0
      /\ \A c \in Coros \ {e} : num_quanta'[w][c] = num_quanta[w][c]
  BY <1>0, <1>1, <1>5, ZenonT(30) DEF LoopTypeOK
<1>9. w_pc[w] = "take" /\ w_pc'[w] # "settle" BY BurstShrinks DEF Accept
<1>10. InService(w) = Range(t) /\ InService(w)' = {e} \cup Range(t)
  BY <1>7, <1>8, <1>9 DEF InService, t
<1>11. \A c \in Coros : Attained(w)'[c] = Attained(w)[c]
  BY <1>6, <1>8, <1>10 DEF Attained
<1> QED BY <1>0, <1>1, <1>11, QuantaStay DEF SqFollows

(* Worker v's service and counter stay.                                    *)
LEMMA OthersSq ==
  ASSUME TurnInv, LoopTypeOK', CountTypeOK, NEW v \in Workers,
         InService(v)' = InService(v), num_quanta'[v] = num_quanta[v],
         curr_sq'[v] = curr_sq[v]
  PROVE  SqFollows(v)
<1>0. LoopTypeOK BY DEF TurnInv
<1> QED BY <1>0, SameService, QuantaStay, Zenon DEF SqFollows

LEMMA StepSq ==
  ASSUME TurnInv, LoopTypeOK', CountTypeOK, Next, NEW v \in Workers PROVE SqFollows(v)
<1>0. LoopTypeOK BY DEF TurnInv
<1>1. ASSUME UNCHANGED <<busy_coros, idle_coros, num_quanta, curr_sq, w_pc>> PROVE SqFollows(v)
  BY <1>1, OthersSq, Zenon DEF InService
<1>2. ASSUME NEW w \in Workers, WorkerNext(w), v # w PROVE SqFollows(v)
  <2>1. /\ busy_coros'[v] = busy_coros[v] /\ num_quanta'[v] = num_quanta[v]
        /\ curr_sq'[v] = curr_sq[v] /\ w_pc'[v] = w_pc[v] /\ idle_coros'[v] = idle_coros[v]
    <3> USE <1>0, <1>2 DEF LoopTypeOK, CountTypeOK, Goto
    <3>1. CASE Preempt(w) BY <3>1, ZenonT(30) DEF Preempt
    <3>2. CASE Finish(w) BY <3>2, Zenon DEF Finish
    <3>3. CASE Settle(w) BY <3>3 DEF Settle, coroVars
    <3>4. CASE Poll(w) BY <3>4 DEF Poll, coroVars, counterVars
    <3>5. CASE Accept(w) BY <3>5, Zenon DEF Accept, NextOfBurst, AfterTake, counterVars
    <3>6. CASE AcceptWithoutBuffer(w) BY <3>6 DEF AcceptWithoutBuffer, coroVars, counterVars
    <3>7. CASE Discard(w) BY <3>7 DEF Discard, NextOfBurst, AfterTake, coroVars, counterVars
    <3>8. CASE Flush(w) BY <3>8 DEF Flush, coroVars, counterVars
    <3> QED BY <3>1, <3>2, <3>3, <3>4, <3>5, <3>6, <3>7, <3>8, Zenon DEF WorkerNext
  <2> QED BY <2>1, OthersSq, Zenon DEF InService
<1>3. ASSUME WorkerNext(v) PROVE SqFollows(v)
  <2>1. ASSUME Poll(v) \/ AcceptWithoutBuffer(v) \/ Discard(v) \/ Flush(v)
        PROVE  SqFollows(v)
    <3>1. UNCHANGED <<busy_coros, idle_coros, num_quanta, curr_sq>>
      BY <2>1, Zenon DEF Poll, AcceptWithoutBuffer, Discard, NextOfBurst, Flush, coroVars, counterVars
    <3>2. w_pc[v] # "settle"
      BY <2>1, Zenon DEF Poll, AcceptWithoutBuffer, Discard, NextOfBurst, Flush
    <3>3. w_pc'[v] # "settle"
      <4>1. \E l \in {"flush", "take", "run", "crashed"} : Goto(v, l)
        BY <2>1, Zenon DEF Poll, AcceptWithoutBuffer, Discard, AfterTake, Flush
      <4> QED BY <4>1, <1>0 DEF Goto, LoopTypeOK
    <3>4. InService(v)' = InService(v) BY <3>1, <3>2, <3>3, Zenon DEF InService
    <3> QED BY <3>1, <3>4, OthersSq
  <2> QED BY <2>1, <1>3, PreemptSq, FinishSq, SettleSq, AcceptSq, Zenon DEF WorkerNext
<1>4. ASSUME NEW w \in Workers, NicSends(w) \/ EnvOffer(w) PROVE SqFollows(v)
  BY <1>1, <1>4 DEF NicSends, EnvOffer, workerVars, coroVars, counterVars
<1> QED BY <1>2, <1>3, <1>4 DEF Next

(* curr_sizes[w].sq, which the dispatcher reads to choose a worker, moves  *)
(* with the quanta of the jobs in service at every step, for any number of *)
(* coroutines: nothing a job has had is counted twice or left in when the  *)
(* job is settled.                                                         *)
THEOREM WorkerSqFollowsQuanta == Spec => SqFollowsQuanta
<1>1. TurnInv => LoopTypeOK BY DEF TurnInv
<1>2. TurnInv /\ LoopTypeOK' /\ CountTypeOK /\ [Next]_vars =>
        [\A w \in Workers :
           curr_sq'[w] - curr_sq[w] = QuantaInService(w)' - QuantaInService(w)]_vars
  BY StepSq, Zenon DEF SqFollows
<1> QED BY <1>1, <1>2, TurnInvariant, InvariantCounts, PTL DEF Spec, SqFollowsQuanta

================================================================================
