----------------------------- MODULE WorkerProofs -----------------------------
(***************************************************************************)
(* Proofs about Worker.tla, with and without LAS, for any number of        *)
(* workers and coroutines and any size of buffers and periods.             *)
(***************************************************************************)
EXTENDS Worker, RteRingProofs, WellFoundedInduction

(* A set of natural numbers has a minimum.                                 *)
LEMMA MinOfNats ==
  ASSUME NEW T, T \subseteq Nat, T # {}
  PROVE  Min(T) \in T /\ \A y \in T : Min(T) <= y
<1> DEFINE R == {ss \in Nat \X Nat : ss[1] < ss[2]}
<1>1. IsWellFoundedOn(R, Nat) BY NatLessThanWellFounded, Zenon DEF OpToRel
<1>2. PICK x \in T : \A y \in T : ~(<<y, x>> \in R)
  <2> HIDE DEF R
  <2> QED BY <1>1, WFMin, Zenon
<1>3. ASSUME NEW y \in T PROVE x <= y
  <2>1. x \in Nat /\ y \in Nat OBVIOUS
  <2>2. y < x => <<y, x>> \in R BY <2>1
  <2>3. ~(y < x) BY <1>2, <2>2
  <2> QED BY <2>1, <2>3
<1> QED BY <1>3, Zenon DEF Min

(* What Erase leaves of a sequence.                                     *)
LEMMA EraseProps ==
  ASSUME NEW S, NEW s \in Seq(S), NEW i \in 1..Len(s)
  PROVE  /\ Erase(s, i) \in Seq(S) /\ Len(Erase(s, i)) = Len(s) - 1
         /\ \A j \in 1..(Len(s) - 1) :
              Erase(s, i)[j] = IF j < i THEN s[j] ELSE s[j + 1]
<1> DEFINE a == SubSeq(s, 1, i - 1)
           b == SubSeq(s, i + 1, Len(s))
<1>1. /\ a \in Seq(S) /\ Len(a) = i - 1
      /\ \A j \in 1..(i - 1) : a[j] = s[j]
  OBVIOUS
<1>2. /\ b \in Seq(S) /\ Len(b) = Len(s) - i
      /\ \A j \in 1..(Len(s) - i) : b[j] = s[i + j]
  OBVIOUS
<1>3. Erase(s, i) = a \o b BY DEF Erase, FirstOf, AllAfter
<1> HIDE DEF a, b
<1>4. /\ a \o b \in Seq(S) /\ Len(a \o b) = Len(a) + Len(b)
      /\ \A j \in 1..(Len(a) + Len(b)) :
           (a \o b)[j] = IF j <= Len(a) THEN a[j] ELSE b[j - Len(a)]
  BY <1>1, <1>2, ConcatFacts, Zenon
<1>6. Len(s) \in Nat /\ Len(a) + Len(b) = Len(s) - 1 BY <1>1, <1>2
<1>5. ASSUME NEW j \in 1..(Len(s) - 1)
      PROVE  (a \o b)[j] = IF j < i THEN s[j] ELSE s[j + 1]
  <2>1. (a \o b)[j] = IF j <= Len(a) THEN a[j] ELSE b[j - Len(a)]
    BY <1>4, <1>6
  <2>2. CASE j < i BY <2>1, <2>2, <1>1
  <2>3. CASE ~(j < i)
    <3>1. j - Len(a) \in 1..(Len(s) - i) BY <1>1, <2>3
    <3>2. b[j - Len(a)] = s[i + (j - Len(a))] BY <3>1, <1>2, Zenon
    <3>3. i + (j - Len(a)) = j + 1 /\ ~(j <= Len(a)) BY <1>1, <1>6, <2>3
    <3> QED BY <2>1, <2>3, <3>2, <3>3
  <2> QED BY <2>2, <2>3, Zenon
<1> QED BY <1>3, <1>4, <1>5, <1>6

LEMMA PopBackProps ==
  ASSUME NEW S, NEW s \in Seq(S), s # <<>>
  PROVE  /\ PopBack(s) \in Seq(S) /\ Len(PopBack(s)) = Len(s) - 1
         /\ \A j \in 1..(Len(s) - 1) : PopBack(s)[j] = s[j]
         /\ Back(s) = s[Len(s)] /\ Back(s) \in S /\ Len(s) \in 1..Len(s)
<1>1. Len(s) \in Nat \ {0} OBVIOUS
<1>2. s[Len(s)] \in S /\ Len(s) \in 1..Len(s) /\ Len(s) - 1 \in 0..Len(s) BY <1>1
<1>3. PopBack(s) = FirstOf(s, Len(s) - 1) /\ Back(s) = s[Len(s)]
  BY DEF PopBack, Back, FirstOf
<1> QED BY <1>2, <1>3, FirstOfProperties

LEMMA RangeErase ==
  ASSUME NEW S, NEW s \in Seq(S), NEW i \in 1..Len(s)
  PROVE  Range(s) = Range(Erase(s, i)) \cup {s[i]}
<1> DEFINE t == Erase(s, i)
<1>0. /\ t \in Seq(S) /\ Len(t) = Len(s) - 1
      /\ \A j \in 1..(Len(s) - 1) : t[j] = IF j < i THEN s[j] ELSE s[j + 1]
  BY EraseProps
<1> HIDE DEF t
<1>1. ASSUME NEW x \in Range(s), x # s[i] PROVE x \in Range(t)
  <2>1. PICK j \in 1..Len(s) : s[j] = x BY <1>1 DEF Range
  <2>2. CASE j < i
    <3>1. j \in 1..Len(t) /\ t[j] = x BY <2>1, <2>2, <1>0
    <3> QED BY <3>1, <1>0 DEF Range
  <2>3. CASE j > i
    <3>1. j - 1 \in 1..Len(t) /\ t[j - 1] = x BY <2>1, <2>3, <1>0
    <3> QED BY <3>1, <1>0 DEF Range
  <2> QED BY <2>1, <2>2, <2>3, <1>1
<1>2. ASSUME NEW x \in Range(t) PROVE x \in Range(s)
  <2>1. PICK j \in 1..(Len(s) - 1) : t[j] = x BY <1>2, <1>0 DEF Range
  <2> QED BY SMTT(30), <2>1, <1>0 DEF Range
<1>3. s[i] \in Range(s) BY DEF Range
<1> QED BY <1>1, <1>2, <1>3 DEF t

LEMMA RangePopBack ==
  ASSUME NEW S, NEW s \in Seq(S), s # <<>>
  PROVE  Range(s) = Range(PopBack(s)) \cup {Back(s)}
<1>1. Len(s) \in 1..Len(s) BY PopBackProps
<1> DEFINE r == Erase(s, Len(s))
<1>2. r = PopBack(s)
  <2>1. /\ r \in Seq(S) /\ Len(r) = Len(s) - 1
        /\ \A j \in 1..(Len(s) - 1) : r[j] = IF j < Len(s) THEN s[j] ELSE s[j + 1]
    BY <1>1, EraseProps, Zenon
  <2>2. /\ PopBack(s) \in Seq(S) /\ Len(PopBack(s)) = Len(s) - 1
        /\ \A j \in 1..(Len(s) - 1) : PopBack(s)[j] = s[j]
    BY PopBackProps
  <2> HIDE DEF r
  <2>3. \A j \in 1..Len(r) : r[j] = PopBack(s)[j] BY <2>1, <2>2
  <2> QED BY <2>1, <2>2, <2>3, SeqsEqual
<1> QED BY <1>1, <1>2, RangeErase, PopBackProps

LEMMA NoRepeatPopBack ==
  ASSUME NEW S, NEW s \in Seq(S), s # <<>>, NoRepeat(s)
  PROVE  /\ NoRepeat(PopBack(s)) /\ Back(s) \notin Range(PopBack(s))
         /\ Range(s) = Range(PopBack(s)) \cup {Back(s)} /\ Back(s) \in Range(s)
<1> DEFINE m == Len(s)
           p == PopBack(s)
<1>1. /\ p \in Seq(S) /\ Len(p) = m - 1 /\ \A j \in 1..(m - 1) : p[j] = s[j]
      /\ Back(s) = s[m] /\ m \in 1..m
  BY PopBackProps
<1>2. \A i, j \in 1..m : s[i] = s[j] => i = j BY DEF NoRepeat
<1>3. m \in Nat OBVIOUS
<1> HIDE DEF m, p
<1>4. \A i \in 1..(m - 1) : i \in 1..m /\ i # m BY <1>3
<1>5. \A i, j \in 1..(m - 1) : p[i] = p[j] => i = j BY <1>1, <1>2, <1>4, Zenon
<1>6. \A i \in 1..(m - 1) : p[i] # Back(s) BY <1>1, <1>2, <1>4, Zenon
<1>7. Back(s) \notin Range(p) BY <1>1, <1>6 DEF Range
<1>8. Range(s) = Range(PopBack(s)) \cup {Back(s)} BY RangePopBack
<1> QED BY <1>1, <1>5, <1>7, <1>8 DEF NoRepeat, p

LEMMA NoRepeatErase ==
  ASSUME NEW S, NEW s \in Seq(S), NoRepeat(s), NEW i \in 1..Len(s)
  PROVE  /\ s[i] \notin Range(Erase(s, i)) /\ NoRepeat(Erase(s, i))
         /\ Range(s) = Range(Erase(s, i)) \cup {s[i]}
<1> DEFINE m == Len(s)
           e == Erase(s, i)
<1>1. /\ e \in Seq(S) /\ Len(e) = m - 1
      /\ \A j \in 1..(m - 1) : e[j] = IF j < i THEN s[j] ELSE s[j + 1]
  BY EraseProps, Zenon
<1>2. \A j, k \in 1..m : s[j] = s[k] => j = k BY DEF NoRepeat
<1>3. m \in Nat /\ i \in 1..m OBVIOUS
<1> HIDE DEF m, e
<1>4. ASSUME NEW j \in 1..(m - 1) PROVE e[j] # s[i]
  <2>1. j \in 1..m /\ j + 1 \in 1..m BY <1>3
  <2>2. CASE j < i BY <2>1, <2>2, <1>1, <1>2, <1>3
  <2>3. CASE ~(j < i) BY <2>1, <2>3, <1>1, <1>2, <1>3
  <2> QED BY <2>2, <2>3
<1>5. DOMAIN e = 1..(m - 1) BY <1>1
<1>6. s[i] \notin Range(e) BY <1>4, <1>5 DEF Range
<1>7. ASSUME NEW j \in 1..(m - 1), NEW k \in 1..(m - 1), j < k PROVE e[j] # e[k]
  <2>1. j \in 1..m /\ j + 1 \in 1..m /\ k \in 1..m /\ k + 1 \in 1..m BY <1>3
  <2>2. CASE k < i
    <3>1. e[j] = s[j] /\ e[k] = s[k] BY <2>2, <1>1, <1>3, <1>7
    <3> QED BY <3>1, <2>1, <1>2, <1>7
  <2>3. CASE j < i /\ ~(k < i)
    <3>1. e[j] = s[j] /\ e[k] = s[k + 1] BY <2>3, <1>1, <1>3, <1>7
    <3> QED BY <3>1, <2>1, <1>2, <1>7
  <2>4. CASE ~(j < i)
    <3>1. e[j] = s[j + 1] /\ e[k] = s[k + 1] BY <2>4, <1>1, <1>3, <1>7
    <3> QED BY <3>1, <2>1, <1>2, <1>7
  <2> QED BY <2>2, <2>3, <2>4
<1>8. ASSUME NEW j \in 1..(m - 1), NEW k \in 1..(m - 1), e[j] = e[k] PROVE j = k
  <2>1. ~(j < k) /\ ~(k < j) BY <1>7, <1>8
  <2> QED BY <2>1, <1>3
<1>9. NoRepeat(e) BY <1>1, <1>8 DEF NoRepeat
<1> QED BY <1>6, <1>9, RangeErase DEF e

(* No coroutine is in two places of the two sequences.                     *)
Placed(s, t) == NoRepeat(s) /\ NoRepeat(t) /\ Range(s) \cap Range(t) = {}

(* A coroutine that goes from place i of one sequence to the end of        *)
(* another.                                                                *)
LEMMA CoroFreed ==
  ASSUME NEW S, NEW s \in Seq(S), NEW t \in Seq(S), NEW i \in 1..Len(t), Placed(s, t)
  PROVE  /\ Append(s, t[i]) \in Seq(S) /\ Append(s, t[i]) # <<>>
         /\ Erase(t, i) \in Seq(S)
         /\ Len(Append(s, t[i])) + Len(Erase(t, i)) = Len(s) + Len(t)
         /\ Range(Append(s, t[i])) \cup Range(Erase(t, i)) = Range(s) \cup Range(t)
         /\ \A d \in Nat : d <= Len(s) => d <= Len(Append(s, t[i]))
         /\ Placed(Append(s, t[i]), Erase(t, i))
<1>1. t[i] \in S OBVIOUS
<1>2. /\ Append(s, t[i]) \in Seq(S) /\ Append(s, t[i]) # <<>>
      /\ Len(Append(s, t[i])) = Len(s) + 1
  BY <1>1, AppendFacts
<1>3. Erase(t, i) \in Seq(S) /\ Len(Erase(t, i)) = Len(t) - 1 BY EraseProps
<1>4. Range(t) = Range(Erase(t, i)) \cup {t[i]} BY RangeErase
<1>5. Range(Append(s, t[i])) = Range(s) \cup {t[i]} BY <1>1, RangeAppend
<1>6. Len(s) \in Nat /\ Len(t) \in Nat OBVIOUS
<1>7. \A a, b \in Nat : (a + 1) + (b - 1) = a + b OBVIOUS
<1>8. Len(Append(s, t[i])) + Len(Erase(t, i)) = Len(s) + Len(t)
  BY <1>2, <1>3, <1>6, <1>7, Zenon
<1>9. \A d \in Nat : d <= Len(s) => d <= Len(s) + 1 BY <1>6
<1>10. Range(Append(s, t[i])) \cup Range(Erase(t, i)) = Range(s) \cup Range(t)
  BY <1>4, <1>5, Zenon
<1>11. t[i] \in Range(t) BY DEF Range
<1>12. /\ NoRepeat(Erase(t, i)) /\ t[i] \notin Range(Erase(t, i))
       /\ NoRepeat(s) /\ Range(s) \cap Range(t) = {}
  BY NoRepeatErase DEF Placed
<1>13. t[i] \notin Range(s) BY <1>11, <1>12, Zenon
<1>14. NoRepeat(Append(s, t[i])) BY <1>1, <1>12, <1>13, NoRepeatAppend
<1>15. Placed(Append(s, t[i]), Erase(t, i)) BY <1>4, <1>5, <1>12, <1>14, Zenon DEF Placed
<1> QED BY <1>2, <1>3, <1>8, <1>9, <1>10, <1>15, Zenon

(* A coroutine that goes from the end of one sequence to the front of      *)
(* another.                                                                *)
LEMMA CoroTaken ==
  ASSUME NEW S, NEW s \in Seq(S), s # <<>>, NEW t \in Seq(S), Placed(s, t)
  PROVE  /\ PopBack(s) \in Seq(S) /\ Back(s) \in S
         /\ <<Back(s)>> \o t \in Seq(S) /\ <<Back(s)>> \o t # <<>>
         /\ Len(PopBack(s)) + Len(<<Back(s)>> \o t) = Len(s) + Len(t)
         /\ Range(PopBack(s)) \cup Range(<<Back(s)>> \o t) = Range(s) \cup Range(t)
         /\ \A d \in Nat : d <= Len(s) => d - 1 <= Len(PopBack(s))
         /\ Placed(PopBack(s), <<Back(s)>> \o t)
<1>1. PopBack(s) \in Seq(S) /\ Len(PopBack(s)) = Len(s) - 1 /\ Back(s) \in S
  BY PopBackProps
<1>2. Range(s) = Range(PopBack(s)) \cup {Back(s)} BY RangePopBack
<1> DEFINE u == <<Back(s)>>
<1>3. u \in Seq(S) /\ Len(u) = 1 BY <1>1
<1>4. Range(u) = {Back(s)} BY <1>3 DEF Range
<1> HIDE DEF u
<1>5. u \o t \in Seq(S) /\ Len(u \o t) = Len(u) + Len(t)
  BY <1>3, ConcatFacts, Zenon
<1>6. Range(u \o t) = Range(u) \cup Range(t) BY <1>3, RangeConcat
<1>7. Len(s) \in Nat /\ Len(t) \in Nat OBVIOUS
<1>8. \A a, b \in Nat : (a - 1) + (1 + b) = a + b OBVIOUS
<1>9. Len(PopBack(s)) + Len(u \o t) = Len(s) + Len(t)
  <2>1. Len(u \o t) = 1 + Len(t) BY <1>3, <1>5
  <2> QED BY <2>1, <1>1, <1>7, <1>8, Zenon
<1>10. \A d \in Nat : d <= Len(s) => d - 1 <= Len(s) - 1 BY <1>7
<1>11. Range(PopBack(s)) \cup Range(u \o t) = Range(s) \cup Range(t)
  BY <1>2, <1>4, <1>6, Zenon
<1>12. u \o t # <<>> BY <1>3, <1>5, <1>7
<1>13. NoRepeat(u) BY <1>3 DEF NoRepeat
<1>14. /\ NoRepeat(PopBack(s)) /\ Back(s) \notin Range(PopBack(s))
       /\ NoRepeat(t) /\ Range(s) \cap Range(t) = {}
  BY NoRepeatPopBack DEF Placed
<1>15. Range(u) \cap Range(t) = {} BY <1>2, <1>4, <1>14, Zenon
<1>16. NoRepeat(u \o t) BY <1>3, <1>13, <1>14, <1>15, NoRepeatConcat
<1>17. Placed(PopBack(s), u \o t) BY <1>2, <1>4, <1>6, <1>14, <1>16, Zenon DEF Placed
<1> QED BY <1>1, <1>5, <1>9, <1>10, <1>11, <1>12, <1>17, Zenon DEF u

--------------------------------------------------------------------------------
(* The types of what the worker's loop reads.                              *)
LoopTypeOK ==
  /\ rx_mbuf_dispatch_q \in [Workers -> Seq(Packets)] /\ offered \in 0..MaxPackets
  /\ w_pc \in [Workers -> {"run", "settle", "poll", "take", "flush", "crashed"}]
  /\ busy_coros \in [Workers -> Seq(Coros)] /\ idle_coros \in [Workers -> Seq(Coros)]
  /\ rx_mbuf \in [Workers -> [Coros -> 0..MaxPackets]]
  /\ num_quanta \in [Workers -> [Coros -> 0..MaxQuanta]]
  /\ burst \in [Workers -> Seq(Packets)]
  /\ dispatch_index \in [Workers -> 0..(U16 - 1)]
  /\ flush_index \in [Workers -> 0..(U16 - 1)]
  /\ force_flush \in [Workers -> BOOLEAN]
  /\ tx_bufs \in [Workers -> Seq(0..MaxPackets)]
  /\ return_rx_bufs \in [Workers -> Seq(0..MaxPackets)]

(* Where a worker is in a turn of its loop, and what it may rely on there. *)
(* Buffers have room again when a turn starts; a burst is never larger     *)
(* than the stack of idle coroutines; a response is unsent without a flush *)
(* being forced only while there is a job.                                 *)
Turn(w) ==
  /\ Len(idle_coros[w]) + Len(busy_coros[w]) = NumWorkerCoros
  /\ Range(idle_coros[w]) \cup Range(busy_coros[w]) = Coros
  /\ Placed(idle_coros[w], busy_coros[w])
  /\ Len(burst[w]) <= Len(idle_coros[w])
  /\ w_pc[w] = "take" => burst[w] # <<>>
  /\ Len(tx_bufs[w]) <= TxQueueBurstSize
  /\ Len(return_rx_bufs[w]) <= ReturnRingBurstSize
  /\ w_pc[w] = "run" => /\ Len(tx_bufs[w]) < TxQueueBurstSize
                        /\ Len(return_rx_bufs[w]) < ReturnRingBurstSize
  /\ w_pc[w] = "run" /\ tx_bufs[w] # <<>> =>
       busy_coros[w] # <<>> /\ flush_index[w] < TxDequeuePeriod
  /\ w_pc[w] \in {"take", "flush"} /\ tx_bufs[w] # <<>> =>
       force_flush[w] \/ busy_coros[w] # <<>>
  /\ w_pc[w] \in {"run", "take", "flush"} /\ idle_coros[w] # <<>> =>
       dispatch_index[w] < DispatchRingDequeuePeriod
  /\ w_pc[w] = "settle" => idle_coros[w] # <<>>
  /\ LAS /\ w_pc[w] \in {"run", "poll", "take", "flush"} /\ idle_coros[w] = <<>> =>
       dispatch_index[w] <= DispatchRingDequeuePeriod

TurnInv == LoopTypeOK /\ \A w \in Workers : Turn(w)

(* The state of another worker than w stays.                               *)
Others(w) ==
  \A v \in Workers \ {w} :
    /\ w_pc'[v] = w_pc[v] /\ busy_coros'[v] = busy_coros[v]
    /\ idle_coros'[v] = idle_coros[v] /\ burst'[v] = burst[v]
    /\ tx_bufs'[v] = tx_bufs[v] /\ return_rx_bufs'[v] = return_rx_bufs[v]
    /\ dispatch_index'[v] = dispatch_index[v] /\ flush_index'[v] = flush_index[v]
    /\ force_flush'[v] = force_flush[v]

LEMMA OthersKeep ==
  ASSUME TurnInv, NEW w \in Workers, Others(w), LoopTypeOK', Turn(w)'
  PROVE  TurnInv'
<1>1. ASSUME NEW v \in Workers \ {w} PROVE Turn(v)'
  <2>1. Turn(v) BY DEF TurnInv
  <2> QED BY <2>1, Zenon DEF Others, Turn
<1> QED BY <1>1 DEF TurnInv

(* The worker's numbers.                                                   *)
LEMMA Numbers ==
  /\ NumWorkerCoros \in Nat \ {0} /\ DispatchRingDequeuePeriod \in Nat \ {0}
  /\ TxQueueBurstSize \in Nat \ {0} /\ TxDequeuePeriod \in Nat \ {0}
  /\ ReturnRingBurstSize \in Nat \ {0} /\ MaxQuanta \in Nat /\ MaxPackets \in Nat
  /\ U16 \in Nat /\ U16 > DispatchRingDequeuePeriod /\ U16 > 0
  BY WorkerAssumption DEF WorkerAssumption

LEMMA TurnInit == Init => TurnInv
<1> SUFFICES ASSUME Init PROVE TurnInv OBVIOUS
<1> USE Numbers
<1> DEFINE all == [c \in Coros |-> c]
<1>1. all \in Seq(Coros) /\ Len(all) = NumWorkerCoros BY DEF Coros
<1>2. Range(all) = Coros BY DEF Range, Coros
<1>3. <<>> \in Seq(Packets) /\ <<>> \in Seq(Coros) /\ <<>> \in Seq(0..MaxPackets)
  OBVIOUS
<1>4. Range(<<>>) = {} BY DEF Range
<1>7. NoRepeat(all) /\ NoRepeat(<<>>) BY <1>1 DEF NoRepeat, Coros
<1> HIDE DEF all
<1>8. Placed(all, <<>>) BY <1>4, <1>7 DEF Placed
<1>5. LoopTypeOK
  BY <1>1, <1>3 DEF Init, WorkerInit, LoopTypeOK, all
<1>6. ASSUME NEW w \in Workers PROVE Turn(w)
  <2>1. /\ idle_coros[w] = all /\ busy_coros[w] = <<>> /\ burst[w] = <<>>
        /\ w_pc[w] = "run" /\ tx_bufs[w] = <<>> /\ return_rx_bufs[w] = <<>>
        /\ dispatch_index[w] = 0
    BY DEF Init, WorkerInit, all
  <2> QED BY <2>1, <1>1, <1>2, <1>4, <1>8 DEF Turn
<1> QED BY <1>5, <1>6 DEF TurnInv

(* What the state of worker w is made of.                                  *)
LEMMA Types ==
  ASSUME LoopTypeOK, NEW w \in Workers
  PROVE  /\ busy_coros[w] \in Seq(Coros) /\ idle_coros[w] \in Seq(Coros)
         /\ burst[w] \in Seq(Packets) /\ rx_mbuf_dispatch_q[w] \in Seq(Packets)
         /\ tx_bufs[w] \in Seq(0..MaxPackets)
         /\ return_rx_bufs[w] \in Seq(0..MaxPackets)
         /\ dispatch_index[w] \in Nat /\ flush_index[w] \in Nat
         /\ \A c \in Coros : num_quanta[w][c] \in Nat /\ rx_mbuf[w][c] \in 0..MaxPackets
  BY Numbers DEF LoopTypeOK

(* num_assigned_quanta, of the job that comes next.                        *)
LEMMA Assigned ==
  ASSUME LoopTypeOK, NEW w \in Workers, NEW i \in NextCoros(w)
  PROVE  /\ i \in 1..Len(busy_coros[w]) /\ busy_coros[w][i] \in Coros
         /\ NumAssignedQuanta(w, i) \in Int /\ LastQuanta(w, i) \subseteq Nat
         /\ ~LAS => NumAssignedQuanta(w, i) = 1
         /\ LAS =>
              LET n == NumAssignedQuanta(w, i)
                  left == DispatchRingDequeuePeriod - dispatch_index[w]
              IN  /\ n <= left /\ (n = left \/ n >= 1)
                  /\ \A j \in 1..Len(busy_coros[w]) : j # i =>
                       n <= QuantaAt(w, j) - QuantaAt(w, i) + 1
<1> DEFINE busy == busy_coros[w]
           n == NumAssignedQuanta(w, i)
           left == DispatchRingDequeuePeriod - dispatch_index[w]
           others == {QuantaAt(w, j) : j \in DOMAIN busy_coros[w] \ {i}}
<1>1. busy \in Seq(Coros) /\ dispatch_index[w] \in Nat BY Types
<1>2. DOMAIN busy = 1..Len(busy) BY <1>1
<1>3. i \in 1..Len(busy) BY <1>2 DEF NextCoros
<1>4. \A j \in 1..Len(busy) : busy[j] \in Coros BY <1>1
<1>5. \A j \in 1..Len(busy) : QuantaAt(w, j) \in Nat BY <1>4, Types DEF QuantaAt
<1>6. left \in Int BY <1>1, Numbers
<1>7. ASSUME LAS
      PROVE  /\ QuantaBehind(w, i) \in Nat
             /\ \A j \in 1..Len(busy) : j # i =>
                  QuantaBehind(w, i) <= QuantaAt(w, j) - QuantaAt(w, i)
  <2>1. \A j \in 1..Len(busy) : QuantaAt(w, i) <= QuantaAt(w, j)
    BY <1>2, <1>7 DEF NextCoros
  <2>2. \A j \in 1..Len(busy) : j # i => QuantaAt(w, j) \in others BY <1>2
  <2>3. QuantaBehind(w, i) = IF others = {} THEN 0 ELSE Min(others) - QuantaAt(w, i)
    BY DEF QuantaBehind
  <2>4. others \subseteq Nat BY <1>2, <1>5
  <2>5. \A q \in others : QuantaAt(w, i) <= q BY <1>2, <2>1
  <2> HIDE DEF others
  <2>6. CASE others = {} BY <2>2, <2>3, <2>6
  <2>7. CASE others # {}
    <3>1. Min(others) \in others /\ \A q \in others : Min(others) <= q
      BY <2>4, <2>7, MinOfNats, Zenon
    <3>2. Min(others) \in Nat /\ QuantaAt(w, i) <= Min(others)
      BY <3>1, <2>4, <2>5, Zenon
    <3>3. QuantaBehind(w, i) = Min(others) - QuantaAt(w, i) BY <2>3, <2>7
    <3>4. QuantaAt(w, i) \in Nat BY <1>3, <1>5
    <3>5. \A j \in 1..Len(busy) : j # i => Min(others) <= QuantaAt(w, j)
      BY <2>2, <3>1
    <3> QED BY <3>2, <3>3, <3>4, <3>5, <1>5
  <2> QED BY <2>6, <2>7
<1>8. ASSUME LAS
      PROVE  /\ n \in Int /\ n <= left /\ (n = left \/ n >= 1)
             /\ n <= QuantaBehind(w, i) + 1
  <2>1. n = Lesser(QuantaBehind(w, i) + 1, left) BY <1>8 DEF NumAssignedQuanta
  <2>2. QuantaBehind(w, i) \in Nat BY <1>7, <1>8
  <2>3. \A q \in Nat, l \in Int :
          /\ Lesser(q + 1, l) \in Int /\ Lesser(q + 1, l) <= l
          /\ Lesser(q + 1, l) = l \/ Lesser(q + 1, l) >= 1
          /\ Lesser(q + 1, l) <= q + 1
    BY DEF Lesser
  <2> HIDE DEF n, left
  <2> QED BY <2>1, <2>2, <2>3, <1>6, Zenon
<1>9. ASSUME LAS, NEW j \in 1..Len(busy), j # i
      PROVE  n <= QuantaAt(w, j) - QuantaAt(w, i) + 1
  <2> HIDE DEF n
  <2>1. n \in Int /\ n <= QuantaBehind(w, i) + 1 BY <1>8, <1>9
  <2>2. /\ QuantaBehind(w, i) \in Nat
        /\ QuantaBehind(w, i) <= QuantaAt(w, j) - QuantaAt(w, i)
    BY <1>7, <1>9
  <2>3. QuantaAt(w, j) \in Nat /\ QuantaAt(w, i) \in Nat BY <1>3, <1>5, <1>9
  <2> QED BY <2>1, <2>2, <2>3
<1>10. ~LAS => n = 1 BY DEF NumAssignedQuanta
<1>11. n \in Int
  <2> HIDE DEF n
  <2> QED BY <1>8, <1>10
<1>12. LastQuanta(w, i) \subseteq Nat
  <2>1. \/ LastQuanta(w, i) = {1} \/ LastQuanta(w, i) = 0..(U16 - 1)
        \/ LastQuanta(w, i) = 0..(n - 1)
    BY DEF LastQuanta
  <2> HIDE DEF n
  <2> QED BY <2>1, <1>11, Numbers
<1> HIDE DEF n, left
<1> QED BY <1>3, <1>4, <1>8, <1>9, <1>10, <1>11, <1>12, Zenon DEF n, left

LEMMA Add16Props ==
  ASSUME NEW m \in Nat, NEW n \in Nat
  PROVE  /\ Add16(m, n) \in 0..(U16 - 1)
         /\ m + n < U16 => Add16(m, n) = m + n
  BY Numbers DEF Add16

(* A queue with the coroutine at one place taken off and put to the end.   *)
LEMMA RequeuedProps ==
  ASSUME LoopTypeOK, NEW w \in Workers, NEW i \in 1..Len(busy_coros[w])
  PROVE  /\ Requeued(w, i) \in Seq(Coros)
         /\ Len(Requeued(w, i)) = Len(busy_coros[w])
         /\ Range(Requeued(w, i)) = Range(busy_coros[w])
         /\ Requeued(w, i) # <<>>
         /\ NoRepeat(busy_coros[w]) => NoRepeat(Requeued(w, i))
<1> DEFINE r == Erase(busy_coros[w], i)
           c == busy_coros[w][i]
<1>1. busy_coros[w] \in Seq(Coros) /\ c \in Coros BY Types
<1>2. r \in Seq(Coros) /\ Len(r) = Len(busy_coros[w]) - 1 BY <1>1, EraseProps
<1>3. Range(busy_coros[w]) = Range(r) \cup {c} BY <1>1, RangeErase
<1>4. Requeued(w, i) = Append(r, c) BY DEF Requeued
<1> HIDE DEF r, c
<1>5. Range(Append(r, c)) = Range(r) \cup {c} BY <1>1, <1>2, RangeAppend
<1>6. /\ Append(r, c) \in Seq(Coros) /\ Append(r, c) # <<>>
      /\ Len(Append(r, c)) = Len(r) + 1
  BY <1>1, <1>2, AppendFacts
<1>7. Len(busy_coros[w]) \in Nat BY <1>1
<1>8. NoRepeat(busy_coros[w]) => NoRepeat(r) /\ c \notin Range(r)
  BY <1>1, NoRepeatErase DEF r, c
<1>9. NoRepeat(busy_coros[w]) => NoRepeat(Append(r, c))
  BY <1>1, <1>2, <1>8, NoRepeatAppend
<1> QED BY <1>2, <1>3, <1>4, <1>5, <1>6, <1>7, <1>9

LEMMA PreemptStep ==
  ASSUME TurnInv, NEW w \in Workers, Preempt(w) PROVE TurnInv'
<1>0. LoopTypeOK /\ Turn(w) BY DEF TurnInv
<1>1. PICK i \in NextCoros(w) :
        LET next_coro == busy_coros[w][i]
            n == NumAssignedQuanta(w, i)
        IN  /\ n > 0 /\ num_quanta[w][next_coro] + n <= MaxQuanta
            /\ num_quanta' = [num_quanta EXCEPT ![w][next_coro] = @ + n]
            /\ busy_coros' = [busy_coros EXCEPT ![w] = Requeued(w, i)]
            /\ CountQuanta(w, n)
  BY Zenon DEF Preempt
<1> DEFINE c == busy_coros[w][i]
           n == NumAssignedQuanta(w, i)
<1>2. /\ i \in 1..Len(busy_coros[w]) /\ c \in Coros /\ n \in Int /\ n > 0
      /\ LAS => n <= DispatchRingDequeuePeriod - dispatch_index[w]
  BY <1>0, <1>1, Assigned
<1>3. /\ num_quanta' = [num_quanta EXCEPT ![w][c] = @ + n]
      /\ num_quanta[w][c] + n <= MaxQuanta
      /\ busy_coros' = [busy_coros EXCEPT ![w] = Requeued(w, i)]
      /\ dispatch_index' = [dispatch_index EXCEPT ![w] = Add16(@, n)]
      /\ flush_index' = [flush_index EXCEPT ![w] = Add16(@, n)]
  BY <1>1 DEF CountQuanta
<1> HIDE DEF c, n
<1>4. /\ w_pc[w] = "run" /\ w_pc' = [w_pc EXCEPT ![w] = "poll"]
      /\ UNCHANGED <<rx_mbuf_dispatch_q, idle_coros, rx_mbuf, burst, force_flush,
                     tx_bufs, return_rx_bufs, offered>>
  BY DEF Preempt, Goto
<1>5. /\ Requeued(w, i) \in Seq(Coros)
      /\ Len(Requeued(w, i)) = Len(busy_coros[w])
      /\ Range(Requeued(w, i)) = Range(busy_coros[w])
      /\ Placed(idle_coros[w], Requeued(w, i))
  <2>1. NoRepeat(busy_coros[w]) BY <1>0, Zenon DEF Turn, Placed
  <2>2. /\ Requeued(w, i) \in Seq(Coros)
        /\ Len(Requeued(w, i)) = Len(busy_coros[w])
        /\ Range(Requeued(w, i)) = Range(busy_coros[w]) /\ NoRepeat(Requeued(w, i))
    BY <2>1, <1>0, <1>2, RequeuedProps
  <2> QED BY <2>2, <1>0, Zenon DEF Turn, Placed
<1>6. /\ dispatch_index[w] \in Nat /\ flush_index[w] \in Nat /\ n \in Nat
      /\ num_quanta[w][c] \in Nat
  BY <1>0, <1>2, Types
<1>7. /\ Add16(dispatch_index[w], n) \in 0..(U16 - 1)
      /\ Add16(flush_index[w], n) \in 0..(U16 - 1)
      /\ LAS => Add16(dispatch_index[w], n) <= DispatchRingDequeuePeriod
  <2>1. LAS => dispatch_index[w] + n < U16 BY <1>2, <1>6, Numbers
  <2>2. LAS => Add16(dispatch_index[w], n) = dispatch_index[w] + n
    BY <2>1, <1>6, Add16Props, Zenon
  <2>3. LAS => Add16(dispatch_index[w], n) <= DispatchRingDequeuePeriod
    BY <2>2, <1>2, <1>6, Numbers
  <2> QED BY <2>3, <1>6, Add16Props, Zenon
<1>8. LoopTypeOK'
  <2>1. num_quanta' \in [Workers -> [Coros -> 0..MaxQuanta]]
    <3>0. num_quanta[w][c] + n <= MaxQuanta BY <1>3, Zenon
    <3>1. num_quanta[w][c] + n \in 0..MaxQuanta BY <3>0, <1>6, Numbers
    <3>2. [num_quanta[w] EXCEPT ![c] = num_quanta[w][c] + n] \in [Coros -> 0..MaxQuanta]
      BY <3>1, <1>0, <1>2 DEF LoopTypeOK
    <3>3. num_quanta' = [num_quanta EXCEPT ![w] =
                           [num_quanta[w] EXCEPT ![c] = num_quanta[w][c] + n]]
      BY <1>0, <1>3 DEF LoopTypeOK
    <3> QED BY <3>2, <3>3, <1>0 DEF LoopTypeOK
  <2> QED BY <2>1, <1>0, <1>3, <1>4, <1>5, <1>7, Zenon DEF LoopTypeOK
<1>9. Others(w)
  BY <1>0, <1>3, <1>4 DEF Others, LoopTypeOK
<1>10. /\ w_pc'[w] = "poll" /\ busy_coros'[w] = Requeued(w, i)
       /\ dispatch_index'[w] = Add16(dispatch_index[w], n)
  BY <1>0, <1>3, <1>4 DEF LoopTypeOK
<1>11. Turn(w)'
  BY <1>0, <1>4, <1>5, <1>7, <1>10, Zenon DEF Turn
<1> QED BY <1>8, <1>9, <1>11, OthersKeep

LEMMA FinishStep ==
  ASSUME TurnInv, NEW w \in Workers, Finish(w) PROVE TurnInv'
<1>0. LoopTypeOK /\ Turn(w) BY DEF TurnInv
<1>1. PICK i \in NextCoros(w) : \E n \in LastQuanta(w, i) :
        LET next_coro == busy_coros[w][i]
            packet == rx_mbuf[w][next_coro]
        IN  /\ return_rx_bufs' = [return_rx_bufs EXCEPT ![w] = Append(@, packet)]
            /\ tx_bufs' = [tx_bufs EXCEPT ![w] = Append(@, packet)]
            /\ idle_coros' = [idle_coros EXCEPT ![w] = Append(@, next_coro)]
            /\ busy_coros' = [busy_coros EXCEPT ![w] = Erase(@, i)]
            /\ CountQuanta(w, n)
  BY Zenon DEF Finish
<1> DEFINE c == busy_coros[w][i]
           packet == rx_mbuf[w][c]
           idle == Append(idle_coros[w], c)
           busy == Erase(busy_coros[w], i)
           tx == Append(tx_bufs[w], packet)
           ret == Append(return_rx_bufs[w], packet)
<1>2. PICK n \in LastQuanta(w, i) :
        /\ return_rx_bufs' = [return_rx_bufs EXCEPT ![w] = Append(@, packet)]
        /\ tx_bufs' = [tx_bufs EXCEPT ![w] = Append(@, packet)]
        /\ idle_coros' = [idle_coros EXCEPT ![w] = Append(@, c)]
        /\ busy_coros' = [busy_coros EXCEPT ![w] = Erase(@, i)]
        /\ dispatch_index' = [dispatch_index EXCEPT ![w] = Add16(@, n)]
        /\ flush_index' = [flush_index EXCEPT ![w] = Add16(@, n)]
  BY <1>1, Zenon DEF CountQuanta
<1>3. /\ w_pc[w] = "run" /\ w_pc' = [w_pc EXCEPT ![w] = "settle"]
      /\ UNCHANGED <<rx_mbuf_dispatch_q, rx_mbuf, num_quanta, burst, force_flush,
                     offered>>
  BY DEF Finish, Goto
<1>4. i \in 1..Len(busy_coros[w]) /\ c \in Coros /\ n \in Nat
  BY <1>0, <1>2, Assigned
<1>5. /\ busy_coros[w] \in Seq(Coros) /\ idle_coros[w] \in Seq(Coros)
      /\ burst[w] \in Seq(Packets) /\ packet \in 0..MaxPackets
      /\ tx_bufs[w] \in Seq(0..MaxPackets)
      /\ return_rx_bufs[w] \in Seq(0..MaxPackets)
      /\ dispatch_index[w] \in Nat /\ flush_index[w] \in Nat
  BY <1>0, <1>4, Types
<1>8. /\ tx \in Seq(0..MaxPackets) /\ Len(tx) = Len(tx_bufs[w]) + 1
      /\ ret \in Seq(0..MaxPackets) /\ Len(ret) = Len(return_rx_bufs[w]) + 1
  BY <1>5, AppendFacts
<1>9. /\ idle \in Seq(Coros) /\ idle # <<>> /\ busy \in Seq(Coros)
      /\ Len(idle) + Len(busy) = Len(idle_coros[w]) + Len(busy_coros[w])
      /\ Range(idle) \cup Range(busy) = Range(idle_coros[w]) \cup Range(busy_coros[w])
      /\ Len(burst[w]) <= Len(idle_coros[w]) => Len(burst[w]) <= Len(idle)
      /\ Placed(idle, busy)
  <2>1. Len(burst[w]) \in Nat BY <1>5
  <2> DEFINE s == idle_coros[w]
             t == busy_coros[w]
  <2>2. s \in Seq(Coros) /\ t \in Seq(Coros) /\ i \in 1..Len(t) BY <1>4, <1>5
  <2>4. Placed(s, t) BY <1>0, Zenon DEF Turn
  <2> HIDE DEF s, t
  <2>3. /\ Append(s, t[i]) \in Seq(Coros) /\ Append(s, t[i]) # <<>>
        /\ Erase(t, i) \in Seq(Coros)
        /\ Len(Append(s, t[i])) + Len(Erase(t, i)) = Len(s) + Len(t)
        /\ Range(Append(s, t[i])) \cup Range(Erase(t, i)) = Range(s) \cup Range(t)
        /\ \A d \in Nat : d <= Len(s) => d <= Len(Append(s, t[i]))
        /\ Placed(Append(s, t[i]), Erase(t, i))
    BY <2>2, <2>4, CoroFreed, Zenon
  <2> QED BY <2>1, <2>3, Zenon DEF s, t
<1>10. /\ Add16(dispatch_index[w], n) \in 0..(U16 - 1)
       /\ Add16(flush_index[w], n) \in 0..(U16 - 1)
  BY <1>4, <1>5, Add16Props, Zenon
<1>11. /\ return_rx_bufs' = [return_rx_bufs EXCEPT ![w] = ret]
       /\ tx_bufs' = [tx_bufs EXCEPT ![w] = tx]
       /\ idle_coros' = [idle_coros EXCEPT ![w] = idle]
       /\ busy_coros' = [busy_coros EXCEPT ![w] = busy]
       /\ dispatch_index' = [dispatch_index EXCEPT ![w] = Add16(dispatch_index[w], n)]
       /\ flush_index' = [flush_index EXCEPT ![w] = Add16(flush_index[w], n)]
  BY <1>2
<1> HIDE DEF c, packet, idle, busy, tx, ret
<1>12. LoopTypeOK'
  <2>1. /\ busy_coros' \in [Workers -> Seq(Coros)]
        /\ idle_coros' \in [Workers -> Seq(Coros)]
    BY <1>0, <1>9, <1>11, Zenon DEF LoopTypeOK
  <2>2. /\ tx_bufs' \in [Workers -> Seq(0..MaxPackets)]
        /\ return_rx_bufs' \in [Workers -> Seq(0..MaxPackets)]
    BY <1>0, <1>8, <1>11 DEF LoopTypeOK
  <2>3. /\ dispatch_index' \in [Workers -> 0..(U16 - 1)]
        /\ flush_index' \in [Workers -> 0..(U16 - 1)]
    BY <1>0, <1>10, <1>11 DEF LoopTypeOK
  <2> QED BY <2>1, <2>2, <2>3, <1>0, <1>3, Zenon DEF LoopTypeOK
<1>13. Others(w) BY <1>0, <1>3, <1>11 DEF Others, LoopTypeOK
<1>14. /\ w_pc'[w] = "settle" /\ busy_coros'[w] = busy /\ idle_coros'[w] = idle
       /\ tx_bufs'[w] = tx /\ return_rx_bufs'[w] = ret /\ burst'[w] = burst[w]
  BY <1>0, <1>3, <1>11 DEF LoopTypeOK
<1>15. Turn(w)'
  <2>1. /\ Len(idle_coros[w]) \in Nat /\ Len(busy_coros[w]) \in Nat
        /\ Len(tx_bufs[w]) \in Nat /\ Len(return_rx_bufs[w]) \in Nat
        /\ Len(burst[w]) \in Nat
    BY <1>5
  <2>2. /\ Len(idle) + Len(busy) = NumWorkerCoros
        /\ Range(idle) \cup Range(busy) = Coros /\ Len(burst[w]) <= Len(idle)
    BY <1>0, <1>9, Zenon DEF Turn
  <2>3. Len(tx) <= TxQueueBurstSize /\ Len(ret) <= ReturnRingBurstSize
    <3>1. Len(tx_bufs[w]) < TxQueueBurstSize /\ Len(return_rx_bufs[w]) < ReturnRingBurstSize
      BY <1>0, <1>3 DEF Turn
    <3> QED BY SMTT(30), <3>1, <2>1, <1>8, Numbers
  <2> QED BY <2>2, <2>3, <1>9, <1>14, Zenon DEF Turn
<1> QED BY <1>12, <1>13, <1>15, OthersKeep

LEMMA SettleStep ==
  ASSUME TurnInv, NEW w \in Workers, Settle(w) PROVE TurnInv'
<1>0. LoopTypeOK /\ Turn(w) BY DEF TurnInv
<1>1. /\ w_pc[w] = "settle" /\ w_pc' = [w_pc EXCEPT ![w] = "poll"]
      /\ UNCHANGED <<rx_mbuf_dispatch_q, coroVars, burst, indexVars, tx_bufs,
                     return_rx_bufs, offered>>
  BY DEF Settle, Goto
<1> USE DEF coroVars, indexVars
<1>2. LoopTypeOK' BY <1>0, <1>1 DEF LoopTypeOK
<1>3. Others(w) BY <1>0, <1>1 DEF Others, LoopTypeOK
<1>4. w_pc'[w] = "poll" BY <1>0, <1>1 DEF LoopTypeOK
<1>5. Turn(w)' BY <1>0, <1>1, <1>4, Zenon DEF Turn
<1> QED BY <1>2, <1>3, <1>5, OthersKeep

LEMMA PollStep ==
  ASSUME TurnInv, NEW w \in Workers, Poll(w) PROVE TurnInv'
<1>0. LoopTypeOK /\ Turn(w) BY DEF TurnInv
<1> DEFINE q == rx_mbuf_dispatch_q[w]
           k == IF PollDue(w) THEN DequeueCount(q, Len(idle_coros[w])) ELSE 0
           di == IF PollDue(w) THEN 0 ELSE dispatch_index[w]
           pc == IF k = 0 THEN "flush" ELSE "take"
           ff == busy_coros[w] = <<>> /\ tx_bufs[w] # <<>>
<1>1. /\ force_flush' = [force_flush EXCEPT ![w] = ff]
      /\ burst' = [burst EXCEPT ![w] = FirstOf(q, k)]
      /\ rx_mbuf_dispatch_q' = [rx_mbuf_dispatch_q EXCEPT ![w] = AllAfter(q, k)]
      /\ w_pc' = [w_pc EXCEPT ![w] = pc]
      /\ dispatch_index' = [dispatch_index EXCEPT ![w] = di]
  BY DEF Poll, Goto
<1>2. /\ w_pc[w] = "poll" \/ (w_pc[w] = "run" /\ busy_coros[w] = <<>>)
      /\ UNCHANGED <<busy_coros, idle_coros, rx_mbuf, num_quanta, flush_index,
                     tx_bufs, return_rx_bufs, offered>>
  BY DEF Poll, coroVars
<1>3. /\ q \in Seq(Packets) /\ idle_coros[w] \in Seq(Coros)
      /\ dispatch_index[w] \in Nat /\ Len(q) \in Nat /\ Len(idle_coros[w]) \in Nat
  BY SMTT(30), <1>0, Types
<1>4. k \in 0..Len(q) /\ k <= Len(idle_coros[w])
  BY <1>3 DEF DequeueCount, Lesser
<1>5. /\ FirstOf(q, k) \in Seq(Packets) /\ Len(FirstOf(q, k)) = k
      /\ AllAfter(q, k) \in Seq(Packets)
  <2> HIDE DEF q, k
  <2> QED BY <1>3, <1>4, FirstOfProperties, AllAfterProperties
<1>6. di \in 0..(U16 - 1) BY <1>0, Numbers DEF LoopTypeOK
<1>7. idle_coros[w] # <<>> => di < DispatchRingDequeuePeriod
  BY <1>2, <1>3, Numbers DEF PollDue
<1>8. LAS /\ idle_coros[w] = <<>> => di <= DispatchRingDequeuePeriod
  <2>1. CASE w_pc[w] = "poll" BY SMTT(30), <2>1, <1>0, <1>3, Numbers DEF Turn
  <2>2. CASE busy_coros[w] = <<>> BY <2>2, Numbers DEF PollDue
  <2> QED BY <1>2, <2>1, <2>2
<1>9. ff \in BOOLEAN /\ pc \in {"flush", "take"} /\ (pc = "take" => k # 0) OBVIOUS
<1>10. tx_bufs[w] # <<>> => ff \/ busy_coros[w] # <<>> OBVIOUS
<1> HIDE DEF q, k, di, pc, ff
<1>11. LoopTypeOK'
  <2>1. force_flush' \in [Workers -> BOOLEAN]
    BY <1>0, <1>1, <1>9 DEF LoopTypeOK
  <2>2. /\ burst' \in [Workers -> Seq(Packets)]
        /\ rx_mbuf_dispatch_q' \in [Workers -> Seq(Packets)]
    BY <1>0, <1>1, <1>5 DEF LoopTypeOK
  <2>3. /\ dispatch_index' \in [Workers -> 0..(U16 - 1)]
        /\ w_pc' \in [Workers -> {"run", "settle", "poll", "take", "flush", "crashed"}]
    BY <1>0, <1>1, <1>6, <1>9 DEF LoopTypeOK
  <2> QED BY <2>1, <2>2, <2>3, <1>0, <1>2, Zenon DEF LoopTypeOK
<1>12. Others(w) BY <1>0, <1>1, <1>2 DEF Others, LoopTypeOK
<1>13. /\ w_pc'[w] = pc /\ burst'[w] = FirstOf(q, k) /\ dispatch_index'[w] = di
       /\ force_flush'[w] = ff
  BY <1>0, <1>1 DEF LoopTypeOK
<1>14. Turn(w)'
  <2>1. w_pc'[w] = "take" => burst'[w] # <<>> BY <1>5, <1>9, <1>13
  <2>2. Len(burst'[w]) <= Len(idle_coros'[w]) BY <1>2, <1>4, <1>5, <1>13
  <2>3. w_pc'[w] \in {"flush", "take"} BY <1>9, <1>13
  <2>4. tx_bufs'[w] # <<>> => force_flush'[w] \/ busy_coros'[w] # <<>>
    BY <1>2, <1>10, <1>13, Zenon
  <2>5. /\ idle_coros'[w] # <<>> => dispatch_index'[w] < DispatchRingDequeuePeriod
        /\ LAS /\ idle_coros'[w] = <<>> =>
             dispatch_index'[w] <= DispatchRingDequeuePeriod
    BY <1>2, <1>7, <1>8, <1>13, Zenon
  <2>6. /\ Len(idle_coros'[w]) + Len(busy_coros'[w]) = NumWorkerCoros
        /\ Range(idle_coros'[w]) \cup Range(busy_coros'[w]) = Coros
        /\ Placed(idle_coros'[w], busy_coros'[w])
        /\ Len(tx_bufs'[w]) <= TxQueueBurstSize
        /\ Len(return_rx_bufs'[w]) <= ReturnRingBurstSize
    BY <1>0, <1>2, Zenon DEF Turn
  <2>7. w_pc'[w] # "run" /\ w_pc'[w] # "settle" BY <2>3
  <2> QED BY <2>1, <2>2, <2>4, <2>5, <2>6, <2>7, Zenon DEF Turn
<1> QED BY <1>11, <1>12, <1>14, OthersKeep

(* Examining a packet of the burst leaves one less.                        *)
LEMMA BurstShrinks ==
  ASSUME TurnInv, NEW w \in Workers, NextOfBurst(w), AfterTake(w)
  PROVE  /\ burst[w] # <<>> /\ Back(burst[w]) \in Packets
         /\ burst' \in [Workers -> Seq(Packets)]
         /\ Len(burst[w]) \in Nat /\ Len(burst'[w]) = Len(burst[w]) - 1
         /\ w_pc' \in [Workers -> {"run", "settle", "poll", "take", "flush", "crashed"}]
         /\ w_pc[w] = "take" /\ w_pc'[w] \in {"take", "flush"}
         /\ w_pc'[w] = "take" => burst'[w] # <<>>
         /\ \A v \in Workers \ {w} : w_pc'[v] = w_pc[v] /\ burst'[v] = burst[v]
<1>0. LoopTypeOK /\ Turn(w) BY DEF TurnInv
<1> DEFINE b == burst[w]
           pc == IF Len(b) = 1 THEN "flush" ELSE "take"
<1>1. /\ w_pc[w] = "take" /\ burst' = [burst EXCEPT ![w] = PopBack(b)]
      /\ w_pc' = [w_pc EXCEPT ![w] = pc]
  BY DEF NextOfBurst, AfterTake, Goto
<1>2. b \in Seq(Packets) /\ b # <<>> BY <1>0, <1>1, Types, Zenon DEF Turn
<1>3. PopBack(b) \in Seq(Packets) /\ Len(PopBack(b)) = Len(b) - 1 /\ Back(b) \in Packets
  BY <1>2, PopBackProps
<1>4. Len(b) \in Nat BY <1>2
<1>5. pc = "take" => PopBack(b) # <<>>
  <2>1. pc = "take" => Len(b) # 1 OBVIOUS
  <2>2. Len(b) # 1 => Len(PopBack(b)) # 0 BY <1>3, <1>4
  <2>3. PopBack(b) = <<>> => Len(PopBack(b)) = 0 OBVIOUS
  <2> HIDE DEF b, pc
  <2> QED BY <2>1, <2>2, <2>3
<1>6. pc \in {"take", "flush"} OBVIOUS
<1> HIDE DEF b, pc
<1>7. burst'[w] = PopBack(b) /\ w_pc'[w] = pc BY <1>0, <1>1 DEF LoopTypeOK
<1>8. \A v \in Workers \ {w} : w_pc'[v] = w_pc[v] /\ burst'[v] = burst[v]
  BY <1>0, <1>1 DEF LoopTypeOK
<1>9. burst' \in [Workers -> Seq(Packets)] BY <1>0, <1>1, <1>3 DEF LoopTypeOK
<1>10. w_pc' \in [Workers -> {"run", "settle", "poll", "take", "flush", "crashed"}]
  BY <1>0, <1>1, <1>6 DEF LoopTypeOK
<1> QED BY <1>1, <1>2, <1>3, <1>4, <1>5, <1>6, <1>7, <1>8, <1>9, <1>10 DEF b

LEMMA DiscardStep ==
  ASSUME TurnInv, NEW w \in Workers, Discard(w) PROVE TurnInv'
<1>0. LoopTypeOK /\ Turn(w) BY DEF TurnInv
<1>1. /\ burst[w] # <<>> /\ Back(burst[w]) \in Packets
      /\ burst' \in [Workers -> Seq(Packets)]
      /\ Len(burst[w]) \in Nat /\ Len(burst'[w]) = Len(burst[w]) - 1
      /\ w_pc' \in [Workers -> {"run", "settle", "poll", "take", "flush", "crashed"}]
      /\ w_pc[w] = "take" /\ w_pc'[w] \in {"take", "flush"}
      /\ w_pc'[w] = "take" => burst'[w] # <<>>
      /\ \A v \in Workers \ {w} : w_pc'[v] = w_pc[v] /\ burst'[v] = burst[v]
  BY BurstShrinks DEF Discard
<1>2. UNCHANGED <<rx_mbuf_dispatch_q, coroVars, indexVars, tx_bufs, offered>>
  BY DEF Discard, NextOfBurst
<1> USE DEF coroVars, indexVars
<1>3. \/ UNCHANGED return_rx_bufs
      \/ /\ Len(return_rx_bufs[w]) < ReturnRingBurstSize
         /\ return_rx_bufs' = [return_rx_bufs EXCEPT ![w] = Append(@, Back(burst[w]))]
  BY DEF Discard, RoomToReturn
<1>4. /\ return_rx_bufs' \in [Workers -> Seq(0..MaxPackets)]
      /\ Len(return_rx_bufs'[w]) <= ReturnRingBurstSize
      /\ \A v \in Workers \ {w} : return_rx_bufs'[v] = return_rx_bufs[v]
  <2>1. CASE UNCHANGED return_rx_bufs BY <2>1, <1>0 DEF LoopTypeOK, Turn
  <2>2. CASE /\ Len(return_rx_bufs[w]) < ReturnRingBurstSize
             /\ return_rx_bufs' = [return_rx_bufs EXCEPT ![w] = Append(@, Back(burst[w]))]
    <3> DEFINE r == Append(return_rx_bufs[w], Back(burst[w]))
    <3>1. Back(burst[w]) \in 0..MaxPackets BY <1>1, Numbers DEF Packets
    <3>2. return_rx_bufs[w] \in Seq(0..MaxPackets) BY <1>0, Types
    <3>3. r \in Seq(0..MaxPackets) /\ Len(r) = Len(return_rx_bufs[w]) + 1
      BY <3>1, <3>2, AppendFacts
    <3>4. return_rx_bufs' = [return_rx_bufs EXCEPT ![w] = r] BY <2>2
    <3>5. Len(return_rx_bufs[w]) \in Nat BY <3>2
    <3> HIDE DEF r
    <3>6. Len(r) <= ReturnRingBurstSize BY <2>2, <3>3, <3>5, Numbers
    <3> QED BY <3>3, <3>4, <3>6, <1>0 DEF LoopTypeOK
  <2> QED BY <1>3, <2>1, <2>2
<1>5. LoopTypeOK' BY <1>0, <1>1, <1>2, <1>4 DEF LoopTypeOK
<1>6. Others(w) BY <1>1, <1>2, <1>4 DEF Others
<1>7. Turn(w)'
  <2>1. Len(burst'[w]) <= Len(idle_coros'[w])
    <3>1. idle_coros[w] \in Seq(Coros) /\ Len(burst[w]) <= Len(idle_coros[w])
      BY <1>0, Types, Zenon DEF Turn
    <3>2. Len(idle_coros[w]) \in Nat BY <3>1
    <3>3. Len(burst[w]) \in Nat /\ Len(burst'[w]) = Len(burst[w]) - 1
          /\ idle_coros'[w] = idle_coros[w]
      BY <1>1, <1>2, Zenon
    <3> QED BY <3>1, <3>2, <3>3
  <2>2. w_pc'[w] \notin {"run", "settle", "poll"} BY <1>1
  <2> QED BY <2>1, <2>2, <1>0, <1>1, <1>2, <1>4, Zenon DEF Turn
<1> QED BY <1>5, <1>6, <1>7, OthersKeep

LEMMA NoBufferStep ==
  ASSUME TurnInv, NEW w \in Workers, AcceptWithoutBuffer(w) PROVE TurnInv'
<1>0. LoopTypeOK /\ Turn(w) BY DEF TurnInv
<1>1. /\ w_pc' = [w_pc EXCEPT ![w] = "crashed"]
      /\ UNCHANGED <<rx_mbuf_dispatch_q, coroVars, burst, indexVars, tx_bufs,
                     return_rx_bufs, offered>>
  BY DEF AcceptWithoutBuffer, Goto
<1> USE DEF coroVars, indexVars
<1>2. LoopTypeOK' BY <1>0, <1>1 DEF LoopTypeOK
<1>3. Others(w) BY <1>0, <1>1 DEF Others, LoopTypeOK
<1>4. w_pc'[w] = "crashed" BY <1>0, <1>1 DEF LoopTypeOK
<1>5. Turn(w)' BY <1>0, <1>1, <1>4, Zenon DEF Turn
<1> QED BY <1>2, <1>3, <1>5, OthersKeep

LEMMA AcceptStep ==
  ASSUME TurnInv, NEW w \in Workers, Accept(w) PROVE TurnInv'
<1>0. LoopTypeOK /\ Turn(w) BY DEF TurnInv
<1>1. /\ burst[w] # <<>> /\ Back(burst[w]) \in Packets
      /\ burst' \in [Workers -> Seq(Packets)]
      /\ Len(burst[w]) \in Nat /\ Len(burst'[w]) = Len(burst[w]) - 1
      /\ w_pc' \in [Workers -> {"run", "settle", "poll", "take", "flush", "crashed"}]
      /\ w_pc[w] = "take" /\ w_pc'[w] \in {"take", "flush"}
      /\ w_pc'[w] = "take" => burst'[w] # <<>>
      /\ \A v \in Workers \ {w} : w_pc'[v] = w_pc[v] /\ burst'[v] = burst[v]
  BY BurstShrinks DEF Accept
<1> DEFINE s == idle_coros[w]
           t == busy_coros[w]
           c == Back(s)
           idle == PopBack(s)
           busy == <<Back(s)>> \o t
<1>2. /\ rx_mbuf' = [rx_mbuf EXCEPT ![w] = [@ EXCEPT ![c] = Back(burst[w])]]
      /\ num_quanta' = [num_quanta EXCEPT ![w] = [@ EXCEPT ![c] = 0]]
      /\ busy_coros' = [busy_coros EXCEPT ![w] = busy]
      /\ idle_coros' = [idle_coros EXCEPT ![w] = idle]
  BY DEF Accept, WithNewJob
<1>3. UNCHANGED <<rx_mbuf_dispatch_q, dispatch_index, flush_index, force_flush,
                  tx_bufs, return_rx_bufs, offered>>
  BY DEF Accept, NextOfBurst, indexVars
<1>4. s \in Seq(Coros) /\ t \in Seq(Coros) /\ Len(burst[w]) <= Len(s)
  BY <1>0, Types DEF Turn
<1>5. s # <<>>
  <2>1. burst[w] \in Seq(Packets) BY <1>0, Types
  <2>2. Len(burst[w]) > 0 BY <1>1, <2>1
  <2> HIDE DEF s
  <2> QED BY <1>1, <1>4, <2>2
<1>6. /\ idle \in Seq(Coros) /\ c \in Coros /\ busy \in Seq(Coros) /\ busy # <<>>
      /\ Len(idle) + Len(busy) = Len(s) + Len(t)
      /\ Range(idle) \cup Range(busy) = Range(s) \cup Range(t)
      /\ \A d \in Nat : d <= Len(s) => d - 1 <= Len(idle)
      /\ Placed(idle, busy)
  <2>2. Placed(s, t) BY <1>0, Zenon DEF Turn
  <2> HIDE DEF s, t
  <2>1. /\ PopBack(s) \in Seq(Coros) /\ Back(s) \in Coros
        /\ <<Back(s)>> \o t \in Seq(Coros) /\ <<Back(s)>> \o t # <<>>
        /\ Len(PopBack(s)) + Len(<<Back(s)>> \o t) = Len(s) + Len(t)
        /\ Range(PopBack(s)) \cup Range(<<Back(s)>> \o t) = Range(s) \cup Range(t)
        /\ \A d \in Nat : d <= Len(s) => d - 1 <= Len(PopBack(s))
        /\ Placed(PopBack(s), <<Back(s)>> \o t)
    BY <2>2, <1>4, <1>5, CoroTaken, Zenon
  <2> QED BY <2>1, Zenon
<1> HIDE DEF c, idle, busy
<1>7. /\ rx_mbuf' \in [Workers -> [Coros -> 0..MaxPackets]]
      /\ num_quanta' \in [Workers -> [Coros -> 0..MaxQuanta]]
  <2>1. Back(burst[w]) \in 0..MaxPackets BY <1>1, Numbers DEF Packets
  <2>2. 0 \in 0..MaxQuanta BY Numbers
  <2>3. [rx_mbuf[w] EXCEPT ![c] = Back(burst[w])] \in [Coros -> 0..MaxPackets]
    BY <2>1, <1>0, <1>6 DEF LoopTypeOK
  <2>4. [num_quanta[w] EXCEPT ![c] = 0] \in [Coros -> 0..MaxQuanta]
    BY <2>2, <1>0, <1>6 DEF LoopTypeOK
  <2>5. rx_mbuf' \in [Workers -> [Coros -> 0..MaxPackets]]
    BY <2>3, <1>0, <1>2 DEF LoopTypeOK
  <2>6. num_quanta' \in [Workers -> [Coros -> 0..MaxQuanta]]
    BY <2>4, <1>0, <1>2 DEF LoopTypeOK
  <2> QED BY <2>5, <2>6
<1>8. LoopTypeOK'
  <2>1. /\ busy_coros' \in [Workers -> Seq(Coros)]
        /\ idle_coros' \in [Workers -> Seq(Coros)]
    BY <1>0, <1>2, <1>6, Zenon DEF LoopTypeOK
  <2> QED BY <2>1, <1>0, <1>1, <1>3, <1>7 DEF LoopTypeOK
<1>9. Others(w)
  <2>1. \A v \in Workers \ {w} :
          busy_coros'[v] = busy_coros[v] /\ idle_coros'[v] = idle_coros[v]
    BY <1>0, <1>2 DEF LoopTypeOK
  <2> QED BY <2>1, <1>1, <1>3, Zenon DEF Others
<1>10. busy_coros'[w] = busy /\ idle_coros'[w] = idle BY <1>0, <1>2 DEF LoopTypeOK
<1>11. Turn(w)'
  <2>1. /\ Len(idle) + Len(busy) = NumWorkerCoros
        /\ Range(idle) \cup Range(busy) = Coros
    BY <1>0, <1>6, Zenon DEF Turn
  <2>2. Len(burst'[w]) <= Len(idle) BY <1>1, <1>4, <1>6, Zenon
  <2>3. dispatch_index[w] < DispatchRingDequeuePeriod
    BY <1>0, <1>1, <1>5 DEF Turn
  <2>4. dispatch_index[w] <= DispatchRingDequeuePeriod
    BY <2>3, <1>0, Types, Numbers
  <2>5. w_pc'[w] \notin {"run", "settle", "poll"} BY <1>1
  <2>6. Len(tx_bufs[w]) <= TxQueueBurstSize /\ Len(return_rx_bufs[w]) <= ReturnRingBurstSize
    BY <1>0 DEF Turn
  <2> QED BY <2>1, <2>2, <2>3, <2>4, <2>5, <2>6, <1>1, <1>3, <1>6, <1>10, Zenon DEF Turn
<1> QED BY <1>8, <1>9, <1>11, OthersKeep

LEMMA FlushStep ==
  ASSUME TurnInv, NEW w \in Workers, Flush(w) PROVE TurnInv'
<1>0. LoopTypeOK /\ Turn(w) BY DEF TurnInv
<1>1. /\ w_pc[w] = "flush" /\ w_pc' = [w_pc EXCEPT ![w] = "run"]
      /\ UNCHANGED <<rx_mbuf_dispatch_q, busy_coros, idle_coros, rx_mbuf, num_quanta,
                     burst, dispatch_index, force_flush, offered>>
  BY DEF Flush, Goto, coroVars
<1>2. \/ /\ TxDue(w)
         /\ tx_bufs' = [tx_bufs EXCEPT ![w] = <<>>]
         /\ flush_index' = [flush_index EXCEPT ![w] = 0]
      \/ ~TxDue(w) /\ UNCHANGED <<tx_bufs, flush_index>>
  BY Zenon DEF Flush, Transmit
<1>3. \/ return_rx_bufs' = [return_rx_bufs EXCEPT ![w] = <<>>]
      \/ /\ Len(return_rx_bufs[w]) # ReturnRingBurstSize
         /\ UNCHANGED return_rx_bufs
  BY Zenon DEF Flush, ReturnRxBufs
<1>4. <<>> \in Seq(0..MaxPackets) /\ Len(<<>>) = 0 /\ 0 \in 0..(U16 - 1)
  BY Numbers
<1>5. /\ tx_bufs[w] \in Seq(0..MaxPackets) /\ return_rx_bufs[w] \in Seq(0..MaxPackets)
      /\ flush_index[w] \in Nat
  BY <1>0, Types
<1>6. /\ tx_bufs' \in [Workers -> Seq(0..MaxPackets)]
      /\ flush_index' \in [Workers -> 0..(U16 - 1)]
      /\ \A v \in Workers \ {w} :
           tx_bufs'[v] = tx_bufs[v] /\ flush_index'[v] = flush_index[v]
  <2>1. /\ tx_bufs \in [Workers -> Seq(0..MaxPackets)]
        /\ flush_index \in [Workers -> 0..(U16 - 1)]
    BY <1>0 DEF LoopTypeOK
  <2>2. CASE /\ tx_bufs' = [tx_bufs EXCEPT ![w] = <<>>]
             /\ flush_index' = [flush_index EXCEPT ![w] = 0]
    BY <2>1, <2>2, <1>4
  <2>3. CASE UNCHANGED <<tx_bufs, flush_index>> BY <2>1, <2>3
  <2> QED BY <1>2, <2>2, <2>3
<1>7. /\ return_rx_bufs' \in [Workers -> Seq(0..MaxPackets)]
      /\ \A v \in Workers \ {w} : return_rx_bufs'[v] = return_rx_bufs[v]
  BY <1>0, <1>3, <1>4, Zenon DEF LoopTypeOK
<1>8. Len(return_rx_bufs'[w]) < ReturnRingBurstSize
  <2>1. CASE return_rx_bufs' = [return_rx_bufs EXCEPT ![w] = <<>>]
    <3>1. return_rx_bufs'[w] = <<>> BY <2>1, <1>0 DEF LoopTypeOK
    <3> QED BY <3>1, <1>4, Numbers
  <2>2. CASE /\ Len(return_rx_bufs[w]) # ReturnRingBurstSize
             /\ UNCHANGED return_rx_bufs
    <3>1. Len(return_rx_bufs[w]) <= ReturnRingBurstSize BY <1>0 DEF Turn
    <3>2. Len(return_rx_bufs[w]) \in Nat BY <1>5
    <3> QED BY <2>2, <3>1, <3>2, Numbers
  <2> QED BY <1>3, <2>1, <2>2
<1>9. /\ Len(tx_bufs'[w]) < TxQueueBurstSize
      /\ tx_bufs'[w] # <<>> => busy_coros[w] # <<>> /\ flush_index'[w] < TxDequeuePeriod
  <2>1. CASE tx_bufs' = [tx_bufs EXCEPT ![w] = <<>>]
    <3>1. tx_bufs'[w] = <<>> BY <2>1, <1>0 DEF LoopTypeOK
    <3> QED BY <3>1, <1>4, Numbers
  <2>2. CASE ~TxDue(w) /\ UNCHANGED <<tx_bufs, flush_index>>
    <3>1. /\ ~force_flush[w] /\ Len(tx_bufs[w]) # TxQueueBurstSize
          /\ tx_bufs[w] # <<>> => ~(flush_index[w] >= TxDequeuePeriod)
      BY <2>2 DEF TxDue
    <3>2. Len(tx_bufs[w]) <= TxQueueBurstSize BY <1>0 DEF Turn
    <3>3. tx_bufs[w] # <<>> => force_flush[w] \/ busy_coros[w] # <<>>
      BY <1>0, <1>1, Zenon DEF Turn
    <3>4. Len(tx_bufs[w]) \in Nat BY <1>5
    <3>5. Len(tx_bufs[w]) < TxQueueBurstSize BY <3>1, <3>2, <3>4, Numbers
    <3>6. tx_bufs[w] # <<>> => flush_index[w] < TxDequeuePeriod
      BY <3>1, <1>5, Numbers
    <3> QED BY <2>2, <3>1, <3>3, <3>5, <3>6
  <2> QED BY <1>2, <2>1, <2>2
<1>10. LoopTypeOK'
  <2>1. w_pc' \in [Workers -> {"run", "settle", "poll", "take", "flush", "crashed"}]
    BY <1>0, <1>1 DEF LoopTypeOK
  <2> QED BY <2>1, <1>0, <1>1, <1>6, <1>7, Zenon DEF LoopTypeOK
<1>11. Others(w)
  <2>1. \A v \in Workers \ {w} : w_pc'[v] = w_pc[v] BY <1>0, <1>1 DEF LoopTypeOK
  <2> QED BY <2>1, <1>1, <1>6, <1>7, Zenon DEF Others
<1>12. w_pc'[w] = "run" BY <1>0, <1>1 DEF LoopTypeOK
<1>13. Turn(w)'
  <2>1. Len(tx_bufs'[w]) <= TxQueueBurstSize /\ Len(return_rx_bufs'[w]) <= ReturnRingBurstSize
    <3>1. Len(tx_bufs'[w]) \in Nat /\ Len(return_rx_bufs'[w]) \in Nat
      BY <1>6, <1>7
    <3> QED BY <3>1, <1>8, <1>9, Numbers
  <2>2. /\ Len(idle_coros[w]) + Len(busy_coros[w]) = NumWorkerCoros
        /\ Range(idle_coros[w]) \cup Range(busy_coros[w]) = Coros
        /\ Placed(idle_coros[w], busy_coros[w])
        /\ Len(burst[w]) <= Len(idle_coros[w])
        /\ idle_coros[w] # <<>> => dispatch_index[w] < DispatchRingDequeuePeriod
        /\ LAS /\ idle_coros[w] = <<>> => dispatch_index[w] <= DispatchRingDequeuePeriod
    BY <1>0, <1>1, Zenon DEF Turn
  <2> QED BY <2>1, <2>2, <1>1, <1>8, <1>9, <1>12, Zenon DEF Turn
<1> QED BY <1>10, <1>11, <1>13, OthersKeep

LEMMA OfferStep ==
  ASSUME TurnInv, NEW w \in Workers, EnvOffer(w) PROVE TurnInv'
<1>0. LoopTypeOK BY DEF TurnInv
<1> DEFINE q == rx_mbuf_dispatch_q[w]
<1>1. PICK n \in 1..(MaxPackets - offered) :
        \E k \in 0..EnqueueCount(q, DispatchRingSize, n) :
          /\ rx_mbuf_dispatch_q' =
               [rx_mbuf_dispatch_q EXCEPT ![w] = @ \o [j \in 1..k |-> offered + j]]
          /\ offered' = offered + n
  BY Zenon DEF EnvOffer
<1>2. PICK k \in 0..EnqueueCount(q, DispatchRingSize, n) :
        /\ rx_mbuf_dispatch_q' =
             [rx_mbuf_dispatch_q EXCEPT ![w] = @ \o [j \in 1..k |-> offered + j]]
        /\ offered' = offered + n
  BY <1>1, Zenon
<1> DEFINE new == [j \in 1..k |-> offered + j]
<1>3. /\ q \in Seq(Packets) /\ offered \in 0..MaxPackets /\ MaxPackets \in Nat
      /\ DispatchRingSize \in Nat
  BY <1>0, Types, Numbers, WorkerAssumption DEF LoopTypeOK, WorkerAssumption
<1>4. k \in Nat /\ k <= n /\ offered + n \in 0..MaxPackets
  <2>1. Len(q) \in Nat BY <1>3
  <2>2. FreeCount(q, DispatchRingSize) \in Int BY <2>1, <1>3 DEF FreeCount
  <2>3. /\ EnqueueCount(q, DispatchRingSize, n) \in Int
        /\ EnqueueCount(q, DispatchRingSize, n) <= n
    BY <2>2, <1>3, LesserProperties DEF EnqueueCount
  <2> QED BY <2>3, <1>3
<1>5. new \in Seq(Packets) BY <1>3, <1>4 DEF Packets
<1> HIDE DEF new
<1>6. q \o new \in Seq(Packets) BY <1>3, <1>5, ConcatFacts
<1>7. rx_mbuf_dispatch_q' = [rx_mbuf_dispatch_q EXCEPT ![w] = q \o new]
  BY <1>2 DEF new
<1>8. /\ rx_mbuf_dispatch_q' \in [Workers -> Seq(Packets)] /\ offered' \in 0..MaxPackets
  <2> HIDE DEF q
  <2> QED BY <1>0, <1>2, <1>4, <1>6, <1>7, ZenonT(30) DEF LoopTypeOK
<1>9. UNCHANGED <<w_pc, coroVars, burst, indexVars, tx_bufs, return_rx_bufs>>
  BY DEF EnvOffer, workerVars
<1>10. LoopTypeOK' BY <1>0, <1>8, <1>9 DEF LoopTypeOK, coroVars, indexVars
<1>11. Turn(w)' /\ Others(w)
  <2>1. Turn(w) BY DEF TurnInv
  <2> QED BY <2>1, <1>9, Zenon DEF Turn, Others, coroVars, indexVars
<1> QED BY <1>10, <1>11, OthersKeep

(* Steps that leave the loop's variables alone.                            *)
LEMMA LoopStays ==
  ASSUME TurnInv, UNCHANGED <<rx_mbuf_dispatch_q, workerVars, offered>> PROVE TurnInv'
<1>1. UNCHANGED <<rx_mbuf_dispatch_q, w_pc, busy_coros, idle_coros, rx_mbuf, num_quanta,
                  burst, dispatch_index, flush_index, force_flush, tx_bufs,
                  return_rx_bufs, offered>>
  BY DEF workerVars, coroVars, indexVars
<1>2. LoopTypeOK' BY <1>1 DEF TurnInv, LoopTypeOK
<1>3. ASSUME NEW w \in Workers PROVE Turn(w)'
  <2>1. Turn(w) BY DEF TurnInv
  <2> QED BY <2>1, <1>1, Zenon DEF Turn
<1> QED BY <1>2, <1>3 DEF TurnInv

LEMMA TurnStep == TurnInv /\ [Next]_vars => TurnInv'
<1> SUFFICES ASSUME TurnInv, [Next]_vars PROVE TurnInv' OBVIOUS
<1>1. CASE UNCHANGED vars BY <1>1, LoopStays DEF vars
<1>2. ASSUME NEW w \in Workers, WorkerNext(w) PROVE TurnInv'
  BY <1>2, PreemptStep, FinishStep, SettleStep, PollStep, AcceptStep, NoBufferStep,
     DiscardStep, FlushStep, Zenon DEF WorkerNext
<1>3. ASSUME NEW w \in Workers, NicSends(w) PROVE TurnInv'
  BY <1>3, LoopStays DEF NicSends
<1>4. ASSUME NEW w \in Workers, EnvOffer(w) PROVE TurnInv'
  BY <1>4, OfferStep
<1> QED BY <1>1, <1>2, <1>3, <1>4 DEF Next

(* In every state each worker is where Turn says in a turn of its loop,    *)
(* however the workers, the NIC and the dispatcher interleave and whatever *)
(* the sizes and periods of the build.                                     *)
THEOREM TurnInvariant == Spec => []TurnInv
<1>1. TurnInv /\ [Next]_vars => TurnInv' BY TurnStep
<1> QED BY <1>1, TurnInit, PTL DEF Spec

--------------------------------------------------------------------------------
(* A worker never writes past tx_bufs or return_rx_bufs and never pops an  *)
(* empty idle_coros, whatever the sizes and periods.                       *)
THEOREM WorkerBuffersFit == Spec => []BuffersFit
<1>1. TurnInv => BuffersFit BY Zenon DEF TurnInv, Turn, BuffersFit
<1> QED BY <1>1, TurnInvariant, PTL

(* A worker's coroutines are shared out between idle_coros and busy_coros: *)
(* none is lost, none is in both or twice in one.                          *)
THEOREM WorkerCorosPartitioned == Spec => []CorosPartitioned
<1>1. TurnInv => CorosPartitioned
  <2> SUFFICES ASSUME TurnInv, NEW w \in Workers
               PROVE  /\ Len(idle_coros[w] \o busy_coros[w]) = NumWorkerCoros
                      /\ Range(idle_coros[w] \o busy_coros[w]) = Coros
    BY Zenon DEF CorosPartitioned
  <2> DEFINE s == idle_coros[w]
             t == busy_coros[w]
  <2>1. /\ s \in Seq(Coros) /\ t \in Seq(Coros)
        /\ Len(s) + Len(t) = NumWorkerCoros /\ Range(s) \cup Range(t) = Coros
    BY Types, Zenon DEF TurnInv, Turn
  <2> HIDE DEF s, t
  <2>2. Len(s \o t) = Len(s) + Len(t) BY <2>1, ConcatFacts
  <2>3. Range(s \o t) = Range(s) \cup Range(t) BY <2>1, RangeConcat
  <2> QED BY <2>1, <2>2, <2>3, Zenon DEF s, t
<1> QED BY <1>1, TurnInvariant, PTL

(* No response is left in tx_bufs for want of a next request: a worker     *)
(* that starts a turn with one has a job and sends within the flush period.*)
THEOREM WorkerNoResponseStuck == Spec => []NoResponseStuck
<1>1. TurnInv => NoResponseStuck BY Zenon DEF TurnInv, Turn, NoResponseStuck
<1> QED BY <1>1, TurnInvariant, PTL

(* While a coroutine is idle the ring is polled within the dequeue period. *)
THEOREM WorkerIdleCorosPollSoon == Spec => []IdleCorosPollSoon
<1>1. TurnInv => IdleCorosPollSoon BY Zenon DEF TurnInv, Turn, IdleCorosPollSoon
<1> QED BY <1>1, TurnInvariant, PTL

(* num_assigned_quanta, an unsigned number, is never computed below 0, and *)
(* it is 0, "run to the end", only when no coroutine is idle.              *)
THEOREM WorkerPreemptibleWhileIdle == Spec => []PreemptibleWhileIdle
<1>1. TurnInv => PreemptibleWhileIdle
  <2> SUFFICES ASSUME TurnInv, NEW w \in Workers, w_pc[w] = "run",
                      NEW i \in NextCoros(w)
               PROVE  NumAssignedQuanta(w, i) >= IF idle_coros[w] = <<>> THEN 0 ELSE 1
    BY DEF PreemptibleWhileIdle
  <2> DEFINE n == NumAssignedQuanta(w, i)
             left == DispatchRingDequeuePeriod - dispatch_index[w]
             least == IF idle_coros[w] = <<>> THEN 0 ELSE 1
  <2>1. LoopTypeOK /\ Turn(w) BY DEF TurnInv
  <2>2. /\ n \in Int /\ (~LAS => n = 1)
        /\ LAS => n = left \/ n >= 1
    BY <2>1, Assigned
  <2>3. least \in {0, 1} OBVIOUS
  <2>4. LAS => left \in Int /\ left >= least
    <3>1. dispatch_index[w] \in Nat BY <2>1, Types
    <3>2. idle_coros[w] # <<>> => dispatch_index[w] < DispatchRingDequeuePeriod
      BY <2>1 DEF Turn
    <3>3. LAS /\ idle_coros[w] = <<>> => dispatch_index[w] <= DispatchRingDequeuePeriod
      BY <2>1 DEF Turn
    <3> QED BY <3>1, <3>2, <3>3, Numbers
  <2> HIDE DEF n, left, least
  <2>5. n >= least
    <3>1. CASE LAS
      <4>1. n = left \/ n >= 1 BY <2>2, <3>1
      <4>2. left \in Int /\ left >= least BY <2>4, <3>1
      <4> QED BY <4>1, <4>2, <2>2, <2>3
    <3>2. CASE ~LAS
      <4>1. n = 1 BY <2>2, <3>2
      <4> QED BY <4>1, <2>3
    <3> QED BY <3>1, <3>2
  <2> QED BY <2>5 DEF n, least
<1> QED BY <1>1, TurnInvariant, PTL

(* The steps that touch the queue of jobs or their quanta.                 *)
LEMMA QueueSteps ==
  ASSUME [Next]_vars
  PROVE  \/ UNCHANGED <<busy_coros, num_quanta>>
         \/ \E w \in Workers : Preempt(w) \/ Finish(w) \/ Accept(w)
<1>1. CASE UNCHANGED vars BY <1>1 DEF vars, workerVars, coroVars
<1>2. ASSUME NEW w \in Workers,
             Settle(w) \/ Poll(w) \/ AcceptWithoutBuffer(w) \/ Discard(w) \/ Flush(w)
      PROVE  UNCHANGED coroVars
  BY <1>2, Zenon DEF Settle, Poll, AcceptWithoutBuffer, Discard, Flush
<1>3. ASSUME NEW w \in Workers, NicSends(w) \/ EnvOffer(w)
      PROVE  UNCHANGED coroVars
  BY <1>3 DEF NicSends, EnvOffer, workerVars
<1> QED BY <1>1, <1>2, <1>3 DEF Next, WorkerNext, coroVars

(* With LAS, a job that is preempted is at most one quantum ahead of every *)
(* other job of its worker, however many quanta in a row                   *)
(* num_assigned_quanta gave it.                                            *)
THEOREM LasServesLeast == ASSUME LAS PROVE Spec => LeastServedFirst
<1> DEFINE Served ==
      \A w \in Workers : \A c, d \in Range(busy_coros[w]) :
        num_quanta'[w][c] > num_quanta[w][c] /\ c # d =>
          num_quanta'[w][c] <= num_quanta[w][d] + 1
<1>1. TurnInv /\ [Next]_vars => Served
  <2> SUFFICES ASSUME TurnInv, [Next]_vars, NEW v \in Workers,
                      NEW c \in Range(busy_coros[v]), NEW d \in Range(busy_coros[v]),
                      num_quanta'[v][c] > num_quanta[v][c], c # d
               PROVE  num_quanta'[v][c] <= num_quanta[v][d] + 1
    BY Zenon
  <2>1. LoopTypeOK BY DEF TurnInv
  <2>2. busy_coros[v] \in Seq(Coros) BY <2>1, Types
  <2>3. PICK x \in 1..Len(busy_coros[v]) : busy_coros[v][x] = c BY <2>2 DEF Range
  <2>4. PICK j \in 1..Len(busy_coros[v]) : busy_coros[v][j] = d BY <2>2 DEF Range
  <2>5. /\ c \in Coros /\ d \in Coros
        /\ num_quanta[v][c] \in Nat /\ num_quanta[v][d] \in Nat
    <3>1. c \in Coros /\ d \in Coros BY <2>2, <2>3, <2>4
    <3> QED BY <3>1, <2>1, Types
  <2>6. ASSUME UNCHANGED num_quanta PROVE FALSE BY <2>5, <2>6
  <2>7. ASSUME NEW w \in Workers, Accept(w) PROVE FALSE
    <3> DEFINE e == Back(idle_coros[w])
    <3>1. num_quanta' = [num_quanta EXCEPT ![w] = [num_quanta[w] EXCEPT ![e] = 0]]
      BY <2>7 DEF Accept
    <3> HIDE DEF e
    <3>2. num_quanta'[v][c] = num_quanta[v][c] \/ num_quanta'[v][c] = 0
      BY <3>1, <2>1, <2>5 DEF LoopTypeOK
    <3> QED BY <3>2, <2>5
  <2>8. ASSUME NEW w \in Workers, Preempt(w)
        PROVE  num_quanta'[v][c] <= num_quanta[v][d] + 1
    <3>1. PICK i \in NextCoros(w) :
            num_quanta' = [num_quanta EXCEPT ![w][busy_coros[w][i]] =
                             @ + NumAssignedQuanta(w, i)]
      BY <2>8, Zenon DEF Preempt
    <3> DEFINE e == busy_coros[w][i]
               n == NumAssignedQuanta(w, i)
    <3>2. /\ n \in Int
          /\ \A y \in 1..Len(busy_coros[w]) : y # i =>
               n <= QuantaAt(w, y) - QuantaAt(w, i) + 1
      BY <2>1, Assigned
    <3>3. num_quanta' = [num_quanta EXCEPT ![w] =
                           [num_quanta[w] EXCEPT ![e] = num_quanta[w][e] + n]]
      BY <3>1, <2>1 DEF LoopTypeOK
    <3>4. e = busy_coros[w][i] OBVIOUS
    <3> HIDE DEF e, n
    <3>5. ~(v = w /\ c = e) => num_quanta'[v][c] = num_quanta[v][c]
      BY <3>3, <2>1, <2>5 DEF LoopTypeOK
    <3>6. v = w /\ c = e BY SMTT(30), <3>5, <2>5
    <3>7. num_quanta'[v][c] = num_quanta[v][c] + n
      BY <3>3, <3>6, <2>1, <2>5 DEF LoopTypeOK
    <3>8. j # i BY <2>4, <3>4, <3>6
    <3>9. n <= num_quanta[v][d] - num_quanta[v][c] + 1
      BY <3>2, <3>4, <3>6, <3>8, <2>4 DEF QuantaAt
    <3> QED BY <3>2, <3>7, <3>9, <2>5
  <2>9. ASSUME NEW w \in Workers, Finish(w) PROVE UNCHANGED num_quanta
    BY <2>9, Zenon DEF Finish
  <2> QED BY <2>6, <2>7, <2>8, <2>9, QueueSteps, Zenon
<1> QED BY <1>1, TurnInvariant, PTL DEF Spec, LeastServedFirst

(* No coroutine is in two places.                                          *)
LEMMA CorosDistinct ==
  ASSUME TurnInv, NEW w \in Workers
  PROVE  /\ \A x, y \in 1..Len(busy_coros[w]) :
              busy_coros[w][x] = busy_coros[w][y] => x = y
         /\ idle_coros[w] # <<>> =>
              \A x \in 1..Len(busy_coros[w]) : busy_coros[w][x] # Back(idle_coros[w])
<1> DEFINE s == idle_coros[w]
           t == busy_coros[w]
<1>1. s \in Seq(Coros) /\ t \in Seq(Coros) BY Types, Zenon DEF TurnInv
<1>2. NoRepeat(t) /\ Range(s) \cap Range(t) = {} BY Zenon DEF TurnInv, Turn, Placed
<1> HIDE DEF s, t
<1>3. \A x, y \in 1..Len(t) : t[x] = t[y] => x = y BY <1>2, Zenon DEF NoRepeat
<1>4. s # <<>> => \A x \in 1..Len(t) : t[x] # Back(s)
  <2> SUFFICES ASSUME s # <<>>, NEW x \in 1..Len(t) PROVE t[x] # Back(s) OBVIOUS
  <2>1. Range(s) = Range(PopBack(s)) \cup {Back(s)} BY <1>1, RangePopBack
  <2>2. t[x] \in Range(t) BY <1>1 DEF Range
  <2> QED BY <2>1, <2>2, <1>2, Zenon
<1> QED BY <1>3, <1>4, Zenon DEF s, t

(* The jobs of worker w that never ran come first.                         *)
NewFirst(w) ==
  \A i, j \in 1..Len(busy_coros[w]) :
    i < j /\ QuantaAt(w, j) = 0 => QuantaAt(w, i) = 0

(* A queue with its first job gone, or moved to the end once it has run.   *)
LEMMA NewFirstShifts ==
  ASSUME NEW w \in Workers, NewFirst(w), NEW L \in Nat, NEW M \in Nat,
         L = Len(busy_coros[w]), M <= L, Len(busy_coros'[w]) = M,
         \A x \in 1..M : x < L => QuantaAt(w, x)' = QuantaAt(w, x + 1),
         M = L => QuantaAt(w, L)' # 0
  PROVE  NewFirst(w)'
<1> SUFFICES ASSUME NEW i \in 1..M, NEW j \in 1..M, i < j, QuantaAt(w, j)' = 0
             PROVE  QuantaAt(w, i)' = 0
  BY DEF NewFirst
<1>1. j # L OBVIOUS
<1>2. j < L /\ i < L /\ i + 1 \in 1..L /\ j + 1 \in 1..L /\ i + 1 < j + 1 BY <1>1
<1>3. QuantaAt(w, j)' = QuantaAt(w, j + 1) /\ QuantaAt(w, i)' = QuantaAt(w, i + 1)
  BY <1>2
<1> QED BY <1>2, <1>3 DEF NewFirst

LEMMA NewFirstKept ==
  ASSUME NEW w \in Workers, NewFirst(w), busy_coros'[w] = busy_coros[w],
         num_quanta'[w] = num_quanta[w]
  PROVE  NewFirst(w)'
  BY Zenon DEF NewFirst, QuantaAt

(* The place of next_coro in the deque.                                    *)
LEMMA DequeFront ==
  ASSUME ~LAS, LoopTypeOK, NEW w \in Workers, NEW i \in NextCoros(w)
  PROVE  /\ i = 1 /\ 1 \in 1..Len(busy_coros[w]) /\ NumAssignedQuanta(w, i) = 1
         /\ Erase(busy_coros[w], 1) \in Seq(Coros)
         /\ Len(Erase(busy_coros[w], 1)) = Len(busy_coros[w]) - 1
         /\ \A x \in 1..(Len(busy_coros[w]) - 1) :
              Erase(busy_coros[w], 1)[x] = busy_coros[w][x + 1]
<1>1. i = 1 BY DEF NextCoros
<1>2. 1 \in 1..Len(busy_coros[w]) /\ NumAssignedQuanta(w, i) = 1 BY <1>1, Assigned
<1> DEFINE t == busy_coros[w]
<1>3. t \in Seq(Coros) /\ 1 \in 1..Len(t) BY <1>2, Types
<1> HIDE DEF t
<1>4. /\ Erase(t, 1) \in Seq(Coros) /\ Len(Erase(t, 1)) = Len(t) - 1
      /\ \A x \in 1..(Len(t) - 1) :
           Erase(t, 1)[x] = IF x < 1 THEN t[x] ELSE t[x + 1]
  BY <1>3, EraseProps
<1>5. \A x \in 1..(Len(t) - 1) : Erase(t, 1)[x] = t[x + 1] BY <1>3, <1>4
<1> QED BY <1>1, <1>2, <1>4, <1>5 DEF t

LEMMA NewFirstPreempt ==
  ASSUME ~LAS, TurnInv, NEW w \in Workers, NewFirst(w), Preempt(w)
  PROVE  /\ NewFirst(w)'
         /\ \A v \in Workers \ {w} :
              busy_coros'[v] = busy_coros[v] /\ num_quanta'[v] = num_quanta[v]
<1>0. LoopTypeOK BY DEF TurnInv
<1> DEFINE t == busy_coros[w]
           c == t[1]
           r == Erase(t, 1)
           L == Len(t)
<1>1. PICK i \in NextCoros(w) :
        /\ num_quanta' = [num_quanta EXCEPT ![w][busy_coros[w][i]] =
                            @ + NumAssignedQuanta(w, i)]
        /\ busy_coros' = [busy_coros EXCEPT ![w] = Requeued(w, i)]
  BY Zenon DEF Preempt
<1>2. /\ i = 1 /\ 1 \in 1..L /\ NumAssignedQuanta(w, i) = 1
      /\ r \in Seq(Coros) /\ Len(r) = L - 1
      /\ \A x \in 1..(L - 1) : r[x] = t[x + 1]
  BY <1>0, DequeFront
<1>3. /\ num_quanta' = [num_quanta EXCEPT ![w] =
                          [num_quanta[w] EXCEPT ![c] = num_quanta[w][c] + 1]]
      /\ busy_coros' = [busy_coros EXCEPT ![w] = Append(r, c)]
  BY <1>0, <1>1, <1>2, Zenon DEF LoopTypeOK, Requeued
<1>4. t \in Seq(Coros) /\ L \in Nat BY <1>0, Types
<1>5. c \in Coros /\ num_quanta[w][c] \in Nat
  <2>1. c \in Coros BY <1>2, <1>4
  <2> QED BY <2>1, <1>0, Types
<1>6. \A x \in 1..L : x # 1 => t[x] # c
  <2>1. \A x, y \in 1..L : t[x] = t[y] => x = y BY CorosDistinct, Zenon
  <2>2. c = t[1] /\ 1 \in 1..L BY <1>2, <1>4
  <2> HIDE DEF t, c, L
  <2> QED BY <2>1, <2>2, Zenon
<1>7. \A x \in 1..L : t[x] \in Coros BY <1>4
<1> DEFINE b == Append(r, c)
<1> HIDE DEF t, c, r, L
<1>8. /\ Len(b) = L /\ b[L] = c /\ \A x \in 1..(L - 1) : b[x] = t[x + 1]
  <2>1. /\ Len(b) = Len(r) + 1 /\ b[Len(r) + 1] = c
        /\ \A x \in 1..Len(r) : b[x] = r[x]
    BY <1>2, <1>5, AppendFacts
  <2>2. Len(r) + 1 = L BY <1>2, <1>4
  <2> QED BY <2>1, <2>2, <1>2
<1> HIDE DEF b
<1>9. busy_coros'[w] = b BY <1>0, <1>3 DEF LoopTypeOK, b
<1>10. /\ num_quanta'[w][c] = num_quanta[w][c] + 1
       /\ \A d \in Coros : d # c => num_quanta'[w][d] = num_quanta[w][d]
  BY <1>0, <1>3, <1>5 DEF LoopTypeOK
<1>len. PICK m \in Nat : m = L BY <1>4
<1>11. QuantaAt(w, m)' # 0
  <2>1. QuantaAt(w, m)' = num_quanta[w][c] + 1
    BY <1>8, <1>9, <1>10, <1>len, Zenon DEF QuantaAt
  <2> QED BY <2>1, <1>5
<1>12. ASSUME NEW x \in 1..m, x < m PROVE QuantaAt(w, x)' = QuantaAt(w, x + 1)
  <2>1. x \in 1..(L - 1) /\ x + 1 \in 1..L /\ x + 1 # 1 BY <1>len, <1>12
  <2>2. b[x] = t[x + 1] /\ t[x + 1] # c /\ t[x + 1] \in Coros
    BY <2>1, <1>6, <1>7, <1>8, Zenon
  <2>3. num_quanta'[w][b[x]] = num_quanta[w][t[x + 1]] BY <2>2, <1>10, Zenon
  <2> QED BY <2>3, <1>9, Zenon DEF QuantaAt, t
<1>13. m <= m /\ m = Len(busy_coros[w]) /\ Len(busy_coros'[w]) = m
  BY <1>len, <1>8, <1>9 DEF L, t
<1>14. NewFirst(w)' BY <1>11, <1>12, <1>13, NewFirstShifts, Zenon
<1>15. \A v \in Workers \ {w} :
         busy_coros'[v] = busy_coros[v] /\ num_quanta'[v] = num_quanta[v]
  BY <1>0, <1>3 DEF LoopTypeOK
<1> QED BY <1>14, <1>15

LEMMA NewFirstFinish ==
  ASSUME ~LAS, TurnInv, NEW w \in Workers, NewFirst(w), Finish(w)
  PROVE  /\ NewFirst(w)'
         /\ \A v \in Workers \ {w} :
              busy_coros'[v] = busy_coros[v] /\ num_quanta'[v] = num_quanta[v]
<1>0. LoopTypeOK BY DEF TurnInv
<1> DEFINE t == busy_coros[w]
           r == Erase(t, 1)
<1>1. PICK i \in NextCoros(w) :
        busy_coros' = [busy_coros EXCEPT ![w] = Erase(busy_coros[w], i)]
  BY Zenon DEF Finish
<1>2. /\ i = 1 /\ 1 \in 1..Len(t)
      /\ r \in Seq(Coros) /\ Len(r) = Len(t) - 1
      /\ \A x \in 1..(Len(t) - 1) : r[x] = t[x + 1]
  BY <1>0, DequeFront
<1>3. t \in Seq(Coros) BY <1>0, Types
<1>4. busy_coros' = [busy_coros EXCEPT ![w] = r] BY <1>1, <1>2
<1>5. num_quanta' = num_quanta BY DEF Finish
<1> HIDE DEF r, t
<1>6. busy_coros'[w] = r BY <1>0, <1>4 DEF LoopTypeOK
<1>7. PICK m \in Nat : m = Len(t) BY <1>3
<1>8. PICK k \in Nat : k = m - 1 BY <1>2, <1>7
<1>9. ASSUME NEW x \in 1..k, x < m PROVE QuantaAt(w, x)' = QuantaAt(w, x + 1)
  <2>1. r[x] = t[x + 1] BY <1>2, <1>7, <1>8
  <2> QED BY <2>1, <1>5, <1>6 DEF QuantaAt, t
<1>10. /\ k <= m /\ k # m /\ m = Len(busy_coros[w]) /\ Len(busy_coros'[w]) = k
  BY <1>2, <1>6, <1>7, <1>8 DEF t
<1>11. NewFirst(w)' BY <1>9, <1>10, NewFirstShifts
<1>12. \A v \in Workers \ {w} :
         busy_coros'[v] = busy_coros[v] /\ num_quanta'[v] = num_quanta[v]
  BY <1>0, <1>4, <1>5 DEF LoopTypeOK
<1> QED BY <1>11, <1>12, Zenon

LEMMA NewFirstAccept ==
  ASSUME TurnInv, NEW w \in Workers, NewFirst(w), Accept(w)
  PROVE  /\ NewFirst(w)'
         /\ \A v \in Workers \ {w} :
              busy_coros'[v] = busy_coros[v] /\ num_quanta'[v] = num_quanta[v]
<1>0. LoopTypeOK /\ Turn(w) BY DEF TurnInv
<1> DEFINE s == idle_coros[w]
           t == busy_coros[w]
           c == Back(s)
           b == <<c>> \o t
<1>1. /\ num_quanta' = [num_quanta EXCEPT ![w] = [num_quanta[w] EXCEPT ![c] = 0]]
      /\ busy_coros' = [busy_coros EXCEPT ![w] = b]
  BY DEF Accept, WithNewJob
<1>2. s \in Seq(Coros) /\ t \in Seq(Coros) BY <1>0, Types
<1>3. s # <<>>
  <2>1. burst[w] # <<>> /\ burst[w] \in Seq(Packets) /\ Len(burst[w]) <= Len(s)
    BY <1>0, BurstShrinks, Types DEF Accept, Turn
  <2> HIDE DEF s
  <2> QED BY <2>1, <1>2
<1>4. \A x \in 1..Len(t) : t[x] # c BY <1>3, CorosDistinct
<1> HIDE DEF s
<1>5. c \in Coros BY <1>2, <1>3, PopBackProps
<1> HIDE DEF t, c
<1>6. /\ Len(b) = Len(t) + 1 /\ b[1] = c
      /\ \A x \in 1..Len(t) : b[x + 1] = t[x]
  <2>1. <<c>> \in Seq(Coros) /\ Len(<<c>>) = 1 BY <1>5
  <2>2. Len(t) \in Nat BY <1>2
  <2> DEFINE u == <<c>>
  <2>3. u \in Seq(Coros) /\ Len(u) = 1 /\ u[1] = c BY <2>1
  <2> HIDE DEF u
  <2>4. /\ Len(u \o t) = Len(u) + Len(t)
        /\ \A x \in 1..(Len(u) + Len(t)) :
             (u \o t)[x] = IF x <= Len(u) THEN u[x] ELSE t[x - Len(u)]
    BY <2>3, <1>2, ConcatFacts, Zenon
  <2>5. (u \o t)[1] = c BY <2>2, <2>3, <2>4
  <2>6. ASSUME NEW x \in 1..Len(t) PROVE (u \o t)[x + 1] = t[x]
    <3>1. x + 1 \in 1..(1 + Len(t)) /\ ~(x + 1 <= 1) /\ (x + 1) - 1 = x BY <2>2
    <3> QED BY <3>1, <2>3, <2>4
  <2>7. Len(u \o t) = Len(t) + 1 BY <2>2, <2>3, <2>4
  <2> QED BY <2>5, <2>6, <2>7 DEF u
<1> HIDE DEF b
<1>7. busy_coros'[w] = b BY <1>0, <1>1 DEF LoopTypeOK
<1>8. /\ num_quanta'[w][c] = 0
      /\ \A d \in Coros : d # c => num_quanta'[w][d] = num_quanta[w][d]
  BY <1>0, <1>1, <1>5 DEF LoopTypeOK
<1>9. QuantaAt(w, 1)' = 0 BY <1>6, <1>7, <1>8, Zenon DEF QuantaAt
<1>10. ASSUME NEW x \in 1..Len(t) PROVE QuantaAt(w, x + 1)' = QuantaAt(w, x)
  <2>1. t[x] \in Coros /\ t[x] # c /\ b[x + 1] = t[x]
    <3>1. t[x] \in Coros BY <1>2, <1>10
    <3>2. t[x] # c BY <1>4, <1>10, Zenon
    <3>3. b[x + 1] = t[x] BY <1>6, <1>10, Zenon
    <3> QED BY <3>1, <3>2, <3>3, Zenon
  <2>2. num_quanta'[w][b[x + 1]] = num_quanta[w][t[x]] BY <2>1, <1>8, Zenon
  <2> QED BY <2>2, <1>7, Zenon DEF QuantaAt, t
<1>11. NewFirst(w)'
  <2> SUFFICES ASSUME NEW i \in 1..Len(b), NEW j \in 1..Len(b), i < j,
                      QuantaAt(w, j)' = 0, i # 1
               PROVE  QuantaAt(w, i)' = 0
    BY <1>7, <1>9 DEF NewFirst
  <2>1. Len(t) \in Nat BY <1>2
  <2>2. PICK x \in 1..Len(t) : i = x + 1
    <3>1. i - 1 \in 1..Len(t) /\ i = (i - 1) + 1 BY <2>1, <1>6
    <3> QED BY <3>1
  <2>3. PICK y \in 1..Len(t) : j = y + 1
    <3>1. j - 1 \in 1..Len(t) /\ j = (j - 1) + 1 BY <2>1, <1>6
    <3> QED BY <3>1
  <2>4. x < y BY <2>2, <2>3
  <2>5. QuantaAt(w, y) = 0 BY <2>3, <1>10
  <2>6. QuantaAt(w, x) = 0 BY <2>4, <2>5 DEF NewFirst, t
  <2> QED BY <2>2, <2>6, <1>10
<1>12. \A v \in Workers \ {w} :
         busy_coros'[v] = busy_coros[v] /\ num_quanta'[v] = num_quanta[v]
  BY <1>0, <1>1 DEF LoopTypeOK
<1> QED BY <1>11, <1>12

(* Without LAS: a job that has never run comes before every job that has   *)
(* been preempted ("prioritize new jobs").                                 *)
THEOREM WorkerNewJobsFirst == Spec => []NewJobsFirst
<1> DEFINE First == LAS \/ \A w \in Workers : NewFirst(w)
<1>1. Init => First
  <2>1. Init => \A w \in Workers : Len(busy_coros[w]) = 0 BY DEF Init, WorkerInit
  <2> QED BY <2>1 DEF NewFirst
<1>2. TurnInv /\ First /\ [Next]_vars => First'
  <2> SUFFICES ASSUME TurnInv, ~LAS, \A w \in Workers : NewFirst(w), [Next]_vars,
                      NEW v \in Workers
               PROVE  NewFirst(v)'
    BY Zenon
  <2>1. CASE UNCHANGED <<busy_coros, num_quanta>> BY <2>1, NewFirstKept, Zenon
  <2>2. ASSUME NEW w \in Workers, Preempt(w) \/ Finish(w) \/ Accept(w)
        PROVE  NewFirst(v)'
    <3>1. /\ NewFirst(w)'
          /\ \A u \in Workers \ {w} :
               busy_coros'[u] = busy_coros[u] /\ num_quanta'[u] = num_quanta[u]
      BY <2>2, NewFirstPreempt, NewFirstFinish, NewFirstAccept
    <3>2. CASE v = w BY <3>1, <3>2
    <3>3. CASE v # w BY <3>1, <3>3, NewFirstKept
    <3> QED BY <3>2, <3>3
  <2> QED BY <2>1, <2>2, QueueSteps
<1>3. TurnInv /\ First => NewJobsFirst
  <2> SUFFICES ASSUME TurnInv, ~LAS, \A w \in Workers : NewFirst(w), NEW v \in Workers
               PROVE  \A i, j \in DOMAIN busy_coros[v] :
                        i < j /\ num_quanta[v][busy_coros[v][j]] = 0 =>
                          num_quanta[v][busy_coros[v][i]] = 0
    BY Zenon DEF NewJobsFirst
  <2>1. DOMAIN busy_coros[v] = 1..Len(busy_coros[v])
    <3>1. busy_coros[v] \in Seq(Coros) BY Types, Zenon DEF TurnInv
    <3> QED BY <3>1
  <2> QED BY <2>1 DEF NewFirst, QuantaAt
<1> QED BY <1>1, <1>2, <1>3, TurnInvariant, PTL DEF Spec

================================================================================
