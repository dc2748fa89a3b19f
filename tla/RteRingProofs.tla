----------------------------- MODULE RteRingProofs -----------------------------
(***************************************************************************)
(* What the ring operations of RteRing.tla return, for rings and bursts of *)
(* any size, and which packets a queue holds once it has grown, shrunk or  *)
(* been split.  The proofs about the dispatcher, the workers and the       *)
(* server cite these.                                                      *)
(***************************************************************************)
EXTENDS RteRing, Functions, TLAPS

(* What the operators on sequences return.                                 *)
LEMMA AppendFacts ==
  ASSUME NEW S, NEW s \in Seq(S), NEW x \in S
  PROVE  /\ Append(s, x) \in Seq(S) /\ Append(s, x) # <<>>
         /\ Len(Append(s, x)) = Len(s) + 1
         /\ \A i \in 1..Len(s) : Append(s, x)[i] = s[i]
         /\ Append(s, x)[Len(s) + 1] = x
  OBVIOUS

LEMMA ConcatFacts ==
  ASSUME NEW S, NEW s \in Seq(S), NEW t \in Seq(S)
  PROVE  /\ s \o t \in Seq(S) /\ Len(s \o t) = Len(s) + Len(t)
         /\ \A i \in 1..(Len(s) + Len(t)) :
              (s \o t)[i] = IF i <= Len(s) THEN s[i] ELSE t[i - Len(s)]
  OBVIOUS

LEMMA SeqsEqual ==
  ASSUME NEW S, NEW s \in Seq(S), NEW t \in Seq(S), Len(s) = Len(t),
         \A i \in 1..Len(s) : s[i] = t[i]
  PROVE  s = t
  OBVIOUS

(* Lesser is the minimum of two integers.                                  *)
LEMMA LesserProperties ==
  ASSUME NEW m \in Int, NEW n \in Int
  PROVE  /\ Lesser(m, n) \in Int
         /\ Lesser(m, n) = m \/ Lesser(m, n) = n
         /\ Lesser(m, n) <= m /\ Lesser(m, n) <= n
  BY DEF Lesser

(* The first n packets of a batch of at least n are n of its packets.      *)
LEMMA FirstOfProperties ==
  ASSUME NEW S, NEW s \in Seq(S), NEW n \in 0..Len(s)
  PROVE  /\ FirstOf(s, n) \in Seq(S) /\ Len(FirstOf(s, n)) = n
         /\ \A i \in 1..n : FirstOf(s, n)[i] = s[i]
  BY DEF FirstOf

(* What is left of a batch once its first n packets are gone.              *)
LEMMA AllAfterProperties ==
  ASSUME NEW S, NEW s \in Seq(S), NEW n \in 0..Len(s)
  PROVE  /\ AllAfter(s, n) \in Seq(S) /\ Len(AllAfter(s, n)) = Len(s) - n
         /\ \A i \in 1..(Len(s) - n) : AllAfter(s, n)[i] = s[n + i]
  BY DEF AllAfter

(* A burst enqueue never overfills the ring, takes no more than it is      *)
(* given, and takes less only when the whole burst does not fit.           *)
LEMMA EnqueueCountProperties ==
  ASSUME NEW S, NEW q \in Seq(S), NEW size \in Nat, NEW n \in Nat,
         Len(q) <= size - 1
  PROVE  /\ EnqueueCount(q, size, n) \in 0..n
         /\ Len(q) + EnqueueCount(q, size, n) <= size - 1
         /\ EnqueueCount(q, size, n) < n => Len(q) + n >= size
  BY DEF EnqueueCount, FreeCount, Lesser

(* A burst dequeue takes at most what was asked for and what is there.     *)
LEMMA DequeueCountProperties ==
  ASSUME NEW S, NEW q \in Seq(S), NEW n \in Int
  PROVE  /\ DequeueCount(q, n) \in Int
         /\ DequeueCount(q, n) <= n
         /\ DequeueCount(q, n) <= Len(q)
  BY DEF DequeueCount, Lesser

--------------------------------------------------------------------------------
(* How the elements of a sequence change with it.                          *)
LEMMA RangeAppend ==
  ASSUME NEW S, NEW s \in Seq(S), NEW x \in S
  PROVE  Range(Append(s, x)) = Range(s) \cup {x}
<1>1. ASSUME NEW y \in Range(s) \cup {x} PROVE y \in Range(Append(s, x))
  <2>1. CASE y \in Range(s)
    <3>1. PICK i \in 1..Len(s) : s[i] = y BY <2>1 DEF Range
    <3> QED BY <3>1 DEF Range
  <2>2. CASE y = x
    <3>1. Len(s) + 1 \in 1..Len(Append(s, x)) /\ Append(s, x)[Len(s) + 1] = x
      OBVIOUS
    <3> QED BY <2>2, <3>1 DEF Range
  <2> QED BY <1>1, <2>1, <2>2
<1>2. ASSUME NEW y \in Range(Append(s, x)) PROVE y \in Range(s) \cup {x}
  <2>1. PICK i \in 1..(Len(s) + 1) : Append(s, x)[i] = y BY <1>2 DEF Range
  <2> QED BY <2>1 DEF Range
<1> QED BY <1>1, <1>2

LEMMA RangeConcat ==
  ASSUME NEW S, NEW s \in Seq(S), NEW t \in Seq(S)
  PROVE  Range(s \o t) = Range(s) \cup Range(t)
<1>1. ASSUME NEW x \in Range(s) PROVE x \in Range(s \o t)
  <2>1. PICK i \in 1..Len(s) : s[i] = x BY <1>1 DEF Range
  <2> QED BY <2>1 DEF Range
<1>2. ASSUME NEW x \in Range(t) PROVE x \in Range(s \o t)
  <2>1. PICK i \in 1..Len(t) : t[i] = x BY <1>2 DEF Range
  <2>2. i + Len(s) \in 1..Len(s \o t) /\ (s \o t)[i + Len(s)] = x BY <2>1
  <2> QED BY <2>2 DEF Range
<1>3. ASSUME NEW x \in Range(s \o t) PROVE x \in Range(s) \cup Range(t)
  <2>1. PICK i \in 1..(Len(s) + Len(t)) : (s \o t)[i] = x BY <1>3 DEF Range
  <2>2. CASE i <= Len(s) BY <2>1, <2>2 DEF Range
  <2>3. CASE i > Len(s)
    <3>1. i - Len(s) \in 1..Len(t) /\ t[i - Len(s)] = x BY <2>1, <2>3
    <3> QED BY <3>1 DEF Range
  <2> QED BY <2>1, <2>2, <2>3
<1> QED BY <1>1, <1>2, <1>3

(* No element of a sequence is in it twice.                                *)
NoRepeat(s) == \A i, j \in 1..Len(s) : s[i] = s[j] => i = j

LEMMA NoRepeatSplit ==
  ASSUME NEW S, NEW s \in Seq(S), NoRepeat(s), NEW k \in 0..Len(s)
  PROVE  /\ NoRepeat(FirstOf(s, k)) /\ NoRepeat(AllAfter(s, k))
         /\ Range(FirstOf(s, k)) \cup Range(AllAfter(s, k)) = Range(s)
         /\ Range(FirstOf(s, k)) \cap Range(AllAfter(s, k)) = {}
<1> DEFINE a == FirstOf(s, k)
           b == AllAfter(s, k)
           m == Len(s)
<1>1. /\ a \in Seq(S) /\ Len(a) = k /\ \A i \in 1..k : a[i] = s[i]
  BY DEF FirstOf
<1>2. /\ b \in Seq(S) /\ Len(b) = m - k /\ \A i \in 1..(m - k) : b[i] = s[k + i]
  BY DEF AllAfter
<1>3. m \in Nat /\ k \in Nat /\ k <= m OBVIOUS
<1>4. \A i, j \in 1..m : s[i] = s[j] => i = j BY DEF NoRepeat
<1>5. \A x : x \in Range(s) <=> \E i \in 1..m : s[i] = x BY DEF Range
<1> HIDE DEF a, b, m
<1>6. \A x : x \in Range(a) <=> \E i \in 1..k : a[i] = x BY <1>1 DEF Range
<1>7. \A x : x \in Range(b) <=> \E i \in 1..(m - k) : b[i] = x
  <2>1. DOMAIN b = 1..(m - k) BY <1>2
  <2> QED BY <2>1 DEF Range
<1>8. \A i \in 1..k : i \in 1..m BY <1>3
<1>9. \A i \in 1..(m - k) : k + i \in 1..m /\ k + i > k BY <1>3
<1>10. NoRepeat(a) BY <1>1, <1>4, <1>8 DEF NoRepeat
<1>11. NoRepeat(b)
  <2> SUFFICES ASSUME NEW i \in 1..(m - k), NEW j \in 1..(m - k), b[i] = b[j]
               PROVE  i = j
    BY <1>2 DEF NoRepeat
  <2>1. k + i = k + j BY <1>2, <1>4, <1>9
  <2> QED BY <2>1, <1>3
<1>12. ASSUME NEW x \in Range(s) PROVE x \in Range(a) \cup Range(b)
  <2>1. PICK i \in 1..m : s[i] = x BY <1>5
  <2>2. CASE i <= k
    <3>1. i \in 1..k /\ a[i] = x BY <2>1, <2>2, <1>1, <1>3
    <3> QED BY <3>1, <1>6
  <2>3. CASE ~(i <= k)
    <3>1. i - k \in 1..(m - k) /\ k + (i - k) = i BY <2>3, <1>3
    <3>2. b[i - k] = x BY <3>1, <2>1, <1>2
    <3> QED BY <3>1, <3>2, <1>7
  <2> QED BY <2>2, <2>3
<1>13. ASSUME NEW x \in Range(a) PROVE x \in Range(s) /\ x \notin Range(b)
  <2>1. PICK i \in 1..k : a[i] = x BY <1>6
  <2>2. i \in 1..m /\ s[i] = x BY <2>1, <1>1, <1>8
  <2>3. ASSUME NEW j \in 1..(m - k), b[j] = x PROVE FALSE
    <3>1. k + j \in 1..m /\ s[k + j] = x /\ k + j > k BY <2>3, <1>2, <1>9
    <3>2. i = k + j BY <3>1, <2>2, <1>4
    <3> QED BY <3>1, <3>2, <1>3
  <2> QED BY <2>2, <2>3, <1>5, <1>7
<1>14. ASSUME NEW x \in Range(b) PROVE x \in Range(s)
  <2>1. PICK i \in 1..(m - k) : b[i] = x BY <1>7
  <2> QED BY <2>1, <1>2, <1>5, <1>9
<1> QED BY <1>10, <1>11, <1>12, <1>13, <1>14, Zenon DEF a, b

LEMMA NoRepeatConcat ==
  ASSUME NEW S, NEW s \in Seq(S), NEW t \in Seq(S), NoRepeat(s), NoRepeat(t),
         Range(s) \cap Range(t) = {}
  PROVE  /\ s \o t \in Seq(S) /\ NoRepeat(s \o t)
         /\ Range(s \o t) = Range(s) \cup Range(t)
<1> DEFINE u == s \o t
           m == Len(s)
           n == Len(t)
<1>1. /\ u \in Seq(S) /\ Len(u) = m + n
      /\ \A i \in 1..(m + n) : u[i] = IF i <= m THEN s[i] ELSE t[i - m]
  BY ConcatFacts
<1>2. m \in Nat /\ n \in Nat OBVIOUS
<1>3. \A i \in 1..m : s[i] \in Range(s) BY DEF Range
<1>4. \A i \in 1..n : t[i] \in Range(t) BY DEF Range
<1>5. /\ \A i, j \in 1..m : s[i] = s[j] => i = j
      /\ \A i, j \in 1..n : t[i] = t[j] => i = j
  BY DEF NoRepeat
<1> HIDE DEF u, m, n
<1>6. ASSUME NEW i \in 1..(m + n), NEW j \in 1..(m + n), u[i] = u[j] PROVE i = j
  <2>1. i <= m => i \in 1..m /\ u[i] = s[i] BY <1>1, <1>2
  <2>2. j <= m => j \in 1..m /\ u[j] = s[j] BY <1>1, <1>2
  <2>3. ~(i <= m) => i - m \in 1..n /\ u[i] = t[i - m] BY <1>1, <1>2
  <2>4. ~(j <= m) => j - m \in 1..n /\ u[j] = t[j - m] BY <1>1, <1>2
  <2>5. CASE i <= m /\ j <= m BY <2>1, <2>2, <2>5, <1>5, <1>6, Zenon
  <2>6. CASE ~(i <= m) /\ ~(j <= m)
    <3>1. i - m = j - m BY <2>3, <2>4, <2>6, <1>5, <1>6, Zenon
    <3> QED BY <3>1, <1>2
  <2>7. CASE i <= m /\ ~(j <= m) BY <2>1, <2>4, <2>7, <1>3, <1>4, <1>6, Zenon
  <2>8. CASE ~(i <= m) /\ j <= m BY <2>2, <2>3, <2>8, <1>3, <1>4, <1>6, Zenon
  <2> QED BY <2>5, <2>6, <2>7, <2>8, Zenon
<1>7. Range(u) = Range(s) \cup Range(t) BY RangeConcat DEF u
<1> QED BY <1>1, <1>6, <1>7 DEF NoRepeat, u

LEMMA NoRepeatAppend ==
  ASSUME NEW S, NEW s \in Seq(S), NEW x \in S, NoRepeat(s), x \notin Range(s)
  PROVE  /\ NoRepeat(Append(s, x)) /\ Range(Append(s, x)) = Range(s) \cup {x}
<1> DEFINE m == Len(s)
           a == Append(s, x)
<1>1. /\ Len(a) = m + 1 /\ a[m + 1] = x /\ \A i \in 1..m : a[i] = s[i]
  BY AppendFacts
<1>2. m \in Nat OBVIOUS
<1>3. \A i \in 1..m : s[i] # x BY DEF Range
<1>4. \A i, j \in 1..m : s[i] = s[j] => i = j BY DEF NoRepeat
<1> HIDE DEF m, a
<1>5. \A i \in 1..(m + 1) : i \in 1..m \/ i = m + 1 BY <1>2
<1>6. \A i, j \in 1..(m + 1) : a[i] = a[j] => i = j
  BY <1>1, <1>3, <1>4, <1>5, Zenon
<1> QED BY <1>1, <1>6, RangeAppend DEF NoRepeat, a

================================================================================
