------------------------------ MODULE BufferProofs ------------------------------
(***************************************************************************)
(* Proofs about the packets of Worker.tla: which place each of them is in, *)
(* and what every step does to the fate of a packet.                       *)
(***************************************************************************)
EXTENDS WorkerProofs

LEMMA NoRepeatAppendPacket ==
  ASSUME NEW s \in Seq(0..MaxPackets), NEW x \in 0..MaxPackets,
         NoRepeat(s), x \notin Range(s)
  PROVE  /\ NoRepeat(Append(s, x)) /\ Range(Append(s, x)) = Range(s) \cup {x}
<1> DEFINE S == 0..MaxPackets
<1>1. s \in Seq(S) /\ x \in S OBVIOUS
<1> HIDE DEF S
<1> QED BY <1>1, NoRepeatAppend

--------------------------------------------------------------------------------
(* The packets worker w has on its ring, in its burst, in its jobs, in     *)
(* return_rx_bufs and in tx_bufs.                                          *)
RingOf(w) == Range(rx_mbuf_dispatch_q[w])
BurstOf(w) == Range(burst[w])
JobsOf(w) == {rx_mbuf[w][c] : c \in Range(busy_coros[w])}
DoneOf(w) == Range(return_rx_bufs[w])
TxOf(w) == Range(tx_bufs[w])

(* Those it has not finished with, and all it has to do with.              *)
Open(w) == RingOf(w) \cup BurstOf(w) \cup JobsOf(w)
Mine(w) == Open(w) \cup DoneOf(w) \cup TxOf(w)

(* No packet is twice in one place of worker w.                            *)
Once(w) ==
  /\ NoRepeat(rx_mbuf_dispatch_q[w]) /\ NoRepeat(burst[w])
  /\ NoRepeat(return_rx_bufs[w]) /\ NoRepeat(tx_bufs[w])
  /\ \A c, d \in Range(busy_coros[w]) : rx_mbuf[w][c] = rx_mbuf[w][d] => c = d

(* No packet is in two places of worker w, but for a response that waits   *)
(* in tx_bufs while its request waits in return_rx_bufs.                   *)
Apart(w) ==
  /\ RingOf(w) \cap BurstOf(w) = {} /\ RingOf(w) \cap JobsOf(w) = {}
  /\ BurstOf(w) \cap JobsOf(w) = {}
  /\ Open(w) \cap (DoneOf(w) \cup TxOf(w)) = {}

Own(w) ==
  /\ Once(w) /\ Apart(w)
  /\ w_pc[w] \in {"run", "settle", "poll", "flush"} => burst[w] = <<>>

(* What worker w still holds has not been given away before.               *)
Fresh(w) ==
  /\ Open(w) \cap (freed \cup leaked) = {} /\ Open(w) \cap (sent \cup unsent) = {}
  /\ DoneOf(w) \cap (freed \cup leaked) = {}
  /\ TxOf(w) \cap (sent \cup unsent) = {}

(* The inductive invariant.  Packets are numbered as they come, so none    *)
(* that a dispatcher has yet to offer is anywhere.                         *)
BInv ==
  /\ \A w \in Workers : Own(w) /\ Fresh(w) /\ Mine(w) \subseteq 1..offered
  /\ \A v, w \in Workers : v # w => Mine(v) \cap Mine(w) = {}
  /\ freed \cup leaked \subseteq 1..offered /\ sent \cup unsent \subseteq 1..offered

(* The packets of worker v stay where they are.                            *)
Still(v) ==
  /\ rx_mbuf_dispatch_q'[v] = rx_mbuf_dispatch_q[v] /\ burst'[v] = burst[v]
  /\ Range(busy_coros'[v]) = Range(busy_coros[v]) /\ rx_mbuf'[v] = rx_mbuf[v]
  /\ return_rx_bufs'[v] = return_rx_bufs[v] /\ tx_bufs'[v] = tx_bufs[v]

(* What a step of worker w does with its packets: it moves none, finishes  *)
(* a job, starts one, discards a packet, or gives away what is done.       *)
WaitOf(w) == RingOf(w) \cup BurstOf(w)

MovesNone(w) ==
  /\ WaitOf(w)' = WaitOf(w) /\ JobsOf(w)' = JobsOf(w)
  /\ DoneOf(w)' = DoneOf(w) /\ TxOf(w)' = TxOf(w)
  /\ UNCHANGED <<invalid, freed, leaked, sent, unsent>>

MovesFinished(w) ==
  /\ WaitOf(w)' = WaitOf(w) /\ UNCHANGED <<invalid, freed, leaked, sent, unsent>>
  /\ \E p \in JobsOf(w) :
       /\ JobsOf(w)' = JobsOf(w) \ {p} /\ DoneOf(w)' = DoneOf(w) \cup {p}
       /\ TxOf(w)' = TxOf(w) \cup {p}

MovesStarted(w) ==
  /\ DoneOf(w)' = DoneOf(w) /\ TxOf(w)' = TxOf(w)
  /\ UNCHANGED <<invalid, freed, leaked, sent, unsent>>
  /\ \E p \in WaitOf(w) :
       WaitOf(w)' = WaitOf(w) \ {p} /\ JobsOf(w)' = JobsOf(w) \cup {p}

MovesDiscarded(w) ==
  /\ JobsOf(w)' = JobsOf(w) /\ TxOf(w)' = TxOf(w) /\ UNCHANGED <<freed, sent, unsent>>
  /\ \E p \in WaitOf(w) :
       /\ p \in Packets /\ WaitOf(w)' = WaitOf(w) \ {p}
       /\ invalid' = [invalid EXCEPT ![w] = @ \cup {p}]
       /\ \/ DoneOf(w)' = DoneOf(w) /\ leaked' = leaked \cup {p}
          \/ DoneOf(w)' = DoneOf(w) \cup {p} /\ leaked' = leaked

MovesOut(w) ==
  /\ WaitOf(w)' = WaitOf(w) /\ JobsOf(w)' = JobsOf(w) /\ UNCHANGED <<invalid, leaked>>
  /\ \/ DoneOf(w)' = DoneOf(w) /\ freed' = freed
     \/ DoneOf(w)' = {} /\ freed' = freed \cup DoneOf(w)
  /\ \/ TxOf(w)' = TxOf(w) /\ UNCHANGED <<sent, unsent>>
     \/ /\ TxOf(w)' = {}
        /\ \E S \in SUBSET TxOf(w) :
             sent' = sent \cup S /\ unsent' = unsent \cup (TxOf(w) \ S)

Moves(w) ==
  /\ \A v \in Workers \ {w} : Still(v)
  /\ \/ MovesNone(w) \/ MovesFinished(w) \/ MovesStarted(w)
     \/ MovesDiscarded(w) \/ MovesOut(w)

LEMMA StillSame ==
  ASSUME NEW v \in Workers, Still(v)
  PROVE  /\ RingOf(v)' = RingOf(v) /\ BurstOf(v)' = BurstOf(v)
         /\ JobsOf(v)' = JobsOf(v) /\ DoneOf(v)' = DoneOf(v) /\ TxOf(v)' = TxOf(v)
         /\ Open(v)' = Open(v) /\ Mine(v)' = Mine(v)
         /\ Own(v) /\ w_pc'[v] = w_pc[v] => Own(v)'
         /\ Once(v) => Once(v)'
         /\ Apart(v) => Apart(v)'
<1>1. /\ RingOf(v)' = RingOf(v) /\ BurstOf(v)' = BurstOf(v)
      /\ JobsOf(v)' = JobsOf(v) /\ DoneOf(v)' = DoneOf(v) /\ TxOf(v)' = TxOf(v)
  BY DEF Still, RingOf, BurstOf, JobsOf, DoneOf, TxOf
<1>2. Open(v)' = Open(v) BY <1>1 DEF Open
<1>3. Mine(v)' = Mine(v) BY <1>1, <1>2 DEF Mine
<1>4. Once(v) => Once(v)' BY Zenon DEF Still, Once
<1>5. Apart(v) => Apart(v)' BY <1>1, <1>2, Zenon DEF Apart
<1>6. Own(v) /\ w_pc'[v] = w_pc[v] => Own(v)' BY <1>4, <1>5, Zenon DEF Own, Still
<1> QED BY <1>1, <1>2, <1>3, <1>4, <1>5, <1>6

(* A worker's step moves its packets forward, and what it gives away it no *)
(* longer holds.                                                           *)
LEMMA MovesForward ==
  ASSUME BInv, NEW w \in Workers, UNCHANGED offered,
         \A v \in Workers \ {w} : Still(v) /\ w_pc'[v] = w_pc[v],
         Own(w)', Open(w)' \subseteq Open(w),
         DoneOf(w)' \subseteq DoneOf(w) \cup Open(w),
         TxOf(w)' \subseteq TxOf(w) \cup Open(w),
         freed' \cup leaked' \subseteq (freed \cup leaked) \cup
           ((Open(w) \cup DoneOf(w)) \ (Open(w)' \cup DoneOf(w)')),
         sent' \cup unsent' \subseteq (sent \cup unsent) \cup
           ((Open(w) \cup TxOf(w)) \ (Open(w)' \cup TxOf(w)'))
  PROVE  BInv'
<1> DEFINE gone == freed \cup leaked
           out == sent \cup unsent
<1>1. /\ \A v \in Workers : Own(v) /\ Mine(v) \subseteq 1..offered
      /\ \A v \in Workers : /\ Open(v) \cap gone = {} /\ Open(v) \cap out = {}
                            /\ DoneOf(v) \cap gone = {} /\ TxOf(v) \cap out = {}
      /\ \A u, v \in Workers : u # v => Mine(u) \cap Mine(v) = {}
      /\ gone \subseteq 1..offered /\ out \subseteq 1..offered
  BY Zenon DEF BInv, Fresh
<1>2. \A v \in Workers : /\ Open(v) \subseteq Mine(v) /\ DoneOf(v) \subseteq Mine(v)
                         /\ TxOf(v) \subseteq Mine(v)
  BY Zenon DEF Mine
<1>3. Mine(w)' \subseteq Mine(w) BY Zenon DEF Mine
<1>4. /\ gone' \subseteq gone \cup Mine(w) /\ out' \subseteq out \cup Mine(w) BY <1>2, Zenon
<1>5. gone' \subseteq gone \cup ((Open(w) \cup DoneOf(w)) \ (Open(w)' \cup DoneOf(w)'))
      /\ out' \subseteq out \cup ((Open(w) \cup TxOf(w)) \ (Open(w)' \cup TxOf(w)'))
  BY Zenon
<1> HIDE DEF gone, out
<1>6. ASSUME NEW v \in Workers
      PROVE  Own(v)' /\ Mine(v)' \subseteq Mine(v)
  <2>1. CASE v = w BY <2>1, <1>3
  <2>2. CASE v # w BY <2>2, <1>1, StillSame, Zenon
  <2> QED BY <2>1, <2>2
<1>7. ASSUME NEW v \in Workers
      PROVE  /\ Open(v)' \cap gone' = {} /\ Open(v)' \cap out' = {}
             /\ DoneOf(v)' \cap gone' = {} /\ TxOf(v)' \cap out' = {}
  <2>1. CASE v = w
    <3>1. /\ Open(w) \cap gone = {} /\ Open(w) \cap out = {}
          /\ DoneOf(w) \cap gone = {} /\ TxOf(w) \cap out = {}
      BY <1>1
    <3>2. Open(w)' \cap gone' = {} /\ Open(w)' \cap out' = {} BY <3>1, <1>5, Zenon
    <3>3. DoneOf(w)' \cap gone' = {} BY <3>1, <1>5, Zenon
    <3>4. TxOf(w)' \cap out' = {} BY <3>1, <1>5, Zenon
    <3> QED BY <2>1, <3>2, <3>3, <3>4
  <2>2. CASE v # w
    <3>1. Open(v)' = Open(v) /\ DoneOf(v)' = DoneOf(v) /\ TxOf(v)' = TxOf(v)
      BY <2>2, StillSame, Zenon
    <3>2. Mine(v) \cap Mine(w) = {} BY <2>2, <1>1
    <3>3. /\ Open(v) \cap gone = {} /\ Open(v) \cap out = {}
          /\ DoneOf(v) \cap gone = {} /\ TxOf(v) \cap out = {}
          /\ Open(v) \subseteq Mine(v) /\ DoneOf(v) \subseteq Mine(v)
          /\ TxOf(v) \subseteq Mine(v)
      BY <1>1, <1>2
    <3> QED BY <3>1, <3>2, <3>3, <1>4
  <2> QED BY <2>1, <2>2
<1>8. \A u, v \in Workers : u # v => Mine(u)' \cap Mine(v)' = {}
  BY <1>1, <1>6
<1>9. \A v \in Workers : Mine(v)' \subseteq 1..offered' BY <1>1, <1>6, Zenon
<1>10. gone' \subseteq 1..offered' /\ out' \subseteq 1..offered' BY <1>1, <1>4, Zenon
<1>11. ASSUME NEW v \in Workers PROVE Fresh(v)' BY <1>7 DEF Fresh, gone, out
<1> QED BY <1>6, <1>8, <1>9, <1>10, <1>11 DEF BInv, gone, out

(* A step in which no packet moves.                                        *)
LEMMA NothingMoves ==
  ASSUME BInv, UNCHANGED <<offered, freed, leaked, sent, unsent>>,
         NEW w \in Workers, \A v \in Workers : Still(v),
         \A v \in Workers \ {w} : w_pc'[v] = w_pc[v],
         w_pc'[w] \in {"run", "settle", "poll", "flush"} => burst[w] = <<>>
  PROVE  BInv'
<1>1. Own(w) BY DEF BInv
<1>2. /\ Open(w)' = Open(w) /\ DoneOf(w)' = DoneOf(w) /\ TxOf(w)' = TxOf(w)
      /\ Once(w)' /\ Apart(w)'
  BY <1>1, StillSame DEF Own
<1>3. Own(w)' BY <1>2, Zenon DEF Own, Still
<1> QED BY <1>2, <1>3, MovesForward

LEMMA StillMoves ==
  ASSUME NEW w \in Workers, \A v \in Workers : Still(v), UNCHANGED fateVars
  PROVE  Moves(w)
<1>1. MovesNone(w) BY StillSame DEF MovesNone, WaitOf, fateVars
<1> QED BY <1>1 DEF Moves

LEMMA InitB == Init => BInv
<1> SUFFICES ASSUME Init PROVE BInv OBVIOUS
<1>1. Range(<<>>) = {} /\ NoRepeat(<<>>) BY DEF Range, NoRepeat
<1>2. /\ offered = 0 /\ freed = {} /\ leaked = {} /\ sent = {} /\ unsent = {}
      /\ \A w \in Workers : /\ rx_mbuf_dispatch_q[w] = <<>> /\ burst[w] = <<>>
                            /\ busy_coros[w] = <<>> /\ return_rx_bufs[w] = <<>>
                            /\ tx_bufs[w] = <<>>
  BY DEF Init, WorkerInit
<1>3. ASSUME NEW w \in Workers
      PROVE  /\ RingOf(w) = {} /\ BurstOf(w) = {} /\ JobsOf(w) = {} /\ DoneOf(w) = {}
             /\ TxOf(w) = {} /\ Once(w) /\ burst[w] = <<>>
  BY <1>1, <1>2 DEF RingOf, BurstOf, JobsOf, DoneOf, TxOf, Once
<1>4. \A w \in Workers : Mine(w) = {} /\ Own(w) /\ Fresh(w)
  BY <1>3 DEF Mine, Open, Own, Apart, Fresh
<1> QED BY <1>2, <1>4 DEF BInv

LEMMA PreemptB ==
  ASSUME TurnInv, BInv, NEW w \in Workers, Preempt(w)
  PROVE  BInv' /\ Moves(w)
<1>0. LoopTypeOK BY DEF TurnInv
<1>1. PICK i \in NextCoros(w) : busy_coros' = [busy_coros EXCEPT ![w] = Requeued(w, i)]
  BY Zenon DEF Preempt
<1>2. /\ w_pc[w] = "run" /\ w_pc' = [w_pc EXCEPT ![w] = "poll"]
      /\ UNCHANGED <<rx_mbuf_dispatch_q, rx_mbuf, burst, tx_bufs, return_rx_bufs, offered>>
      /\ UNCHANGED <<freed, leaked, sent, unsent>>
  BY DEF Preempt, Goto, fateVars
<1>3. Range(Requeued(w, i)) = Range(busy_coros[w]) BY <1>0, Assigned, RequeuedProps
<1>4. \A v \in Workers : Range(busy_coros'[v]) = Range(busy_coros[v])
  BY <1>0, <1>1, <1>3 DEF LoopTypeOK
<1>5. \A v \in Workers : Still(v) BY <1>2, <1>4 DEF Still
<1>6. \A v \in Workers \ {w} : w_pc'[v] = w_pc[v] BY <1>0, <1>2 DEF LoopTypeOK
<1>7. burst[w] = <<>> BY <1>2 DEF BInv, Own
<1>8. BInv' BY <1>2, <1>5, <1>6, <1>7, NothingMoves
<1>9. UNCHANGED fateVars BY DEF Preempt
<1> QED BY <1>5, <1>8, <1>9, StillMoves

LEMMA SettleB ==
  ASSUME TurnInv, BInv, NEW w \in Workers, Settle(w) \/ AcceptWithoutBuffer(w)
  PROVE  BInv' /\ Moves(w)
<1>0. LoopTypeOK BY DEF TurnInv
<1>1. /\ \/ w_pc[w] = "settle" /\ w_pc' = [w_pc EXCEPT ![w] = "poll"]
         \/ w_pc' = [w_pc EXCEPT ![w] = "crashed"]
      /\ UNCHANGED <<rx_mbuf_dispatch_q, coroVars, burst, tx_bufs, return_rx_bufs, offered>>
      /\ UNCHANGED <<freed, leaked, sent, unsent>>
  BY Zenon DEF Settle, AcceptWithoutBuffer, Goto, fateVars
<1>2. \A v \in Workers : Still(v) BY <1>1 DEF Still, coroVars
<1>3. \A v \in Workers \ {w} : w_pc'[v] = w_pc[v] BY <1>0, <1>1, Zenon DEF LoopTypeOK
<1>4. w_pc'[w] \in {"run", "settle", "poll", "flush"} => burst[w] = <<>>
  <2>1. w_pc[w] = "settle" => burst[w] = <<>> BY DEF BInv, Own
  <2>2. w_pc[w] = "settle" \/ w_pc'[w] = "crashed" BY <1>0, <1>1 DEF LoopTypeOK
  <2> QED BY <2>1, <2>2
<1>5. BInv' BY <1>1, <1>2, <1>3, <1>4, NothingMoves
<1>6. UNCHANGED fateVars BY DEF Settle, AcceptWithoutBuffer
<1> QED BY <1>2, <1>5, <1>6, StillMoves

LEMMA FinishB ==
  ASSUME TurnInv, BInv, NEW w \in Workers, Finish(w)
  PROVE  BInv' /\ Moves(w)
<1>0. LoopTypeOK BY DEF TurnInv
<1>1. PICK i \in NextCoros(w) :
        LET packet == rx_mbuf[w][busy_coros[w][i]]
        IN  /\ return_rx_bufs' = [return_rx_bufs EXCEPT ![w] = Append(@, packet)]
            /\ tx_bufs' = [tx_bufs EXCEPT ![w] = Append(@, packet)]
            /\ busy_coros' = [busy_coros EXCEPT ![w] = Erase(@, i)]
  BY Zenon DEF Finish
<1> DEFINE t == busy_coros[w]
           c == t[i]
           p == rx_mbuf[w][c]
           r == return_rx_bufs[w]
           x == tx_bufs[w]
<1>2. /\ w_pc[w] = "run" /\ w_pc' = [w_pc EXCEPT ![w] = "settle"]
      /\ UNCHANGED <<rx_mbuf_dispatch_q, rx_mbuf, burst, offered>>
      /\ UNCHANGED <<freed, leaked, sent, unsent>>
  BY DEF Finish, Goto, fateVars
<1>3. /\ i \in 1..Len(t) /\ c \in Coros /\ t \in Seq(Coros) /\ p \in 0..MaxPackets
      /\ r \in Seq(0..MaxPackets) /\ x \in Seq(0..MaxPackets)
  <2>1. i \in 1..Len(t) /\ c \in Coros BY <1>0, Assigned
  <2> QED BY <2>1, <1>0, Types
<1>4. /\ busy_coros'[w] = Erase(t, i) /\ return_rx_bufs'[w] = Append(r, p)
      /\ tx_bufs'[w] = Append(x, p) /\ w_pc'[w] = "settle"
      /\ \A v \in Workers \ {w} :
           /\ busy_coros'[v] = busy_coros[v] /\ return_rx_bufs'[v] = return_rx_bufs[v]
           /\ tx_bufs'[v] = tx_bufs[v] /\ w_pc'[v] = w_pc[v]
  BY <1>0, <1>1, <1>2, Zenon DEF LoopTypeOK
<1>5. NoRepeat(t) BY CorosDistinct DEF NoRepeat
<1>6. Own(w) /\ Once(w) /\ Apart(w) /\ burst[w] = <<>> BY <1>2 DEF BInv, Own
<1> HIDE DEF t, r, x
<1>7. c \notin Range(Erase(t, i)) /\ Range(t) = Range(Erase(t, i)) \cup {c}
  BY <1>3, <1>5, NoRepeatErase
<1> HIDE DEF c, p
<1>8. /\ p \in JobsOf(w) /\ JobsOf(w)' = JobsOf(w) \ {p}
      /\ \A d, e \in Range(busy_coros'[w]) : rx_mbuf'[w][d] = rx_mbuf'[w][e] => d = e
  <2>1. \A d, e \in Range(t) : rx_mbuf[w][d] = rx_mbuf[w][e] => d = e
    BY <1>6 DEF Once, t
  <2>2. JobsOf(w) = {rx_mbuf[w][d] : d \in Range(t)} BY DEF JobsOf, t
  <2>3. JobsOf(w)' = {rx_mbuf[w][d] : d \in Range(Erase(t, i))}
    BY <1>2, <1>4 DEF JobsOf
  <2>4. p = rx_mbuf[w][c] /\ c \in Range(t) BY <1>7 DEF p
  <2>5. ASSUME NEW d \in Range(Erase(t, i))
        PROVE  rx_mbuf[w][d] \in JobsOf(w) /\ rx_mbuf[w][d] # p
    <3>1. d \in Range(t) /\ d # c BY <1>7
    <3> QED BY <3>1, <2>1, <2>2, <2>4
  <2>6. ASSUME NEW y \in JobsOf(w), y # p PROVE y \in JobsOf(w)'
    <3>1. PICK d \in Range(t) : y = rx_mbuf[w][d] BY <2>2, <2>6
    <3>2. d \in Range(Erase(t, i)) BY <3>1, <2>4, <2>6, <1>7
    <3> QED BY <3>1, <3>2, <2>3
  <2>7. \A y \in JobsOf(w)' : y \in JobsOf(w) /\ y # p BY <2>3, <2>5
  <2>8. p \in JobsOf(w) BY <2>2, <2>4
  <2>9. JobsOf(w)' = JobsOf(w) \ {p} BY <2>6, <2>7, Zenon
  <2>10. Range(busy_coros'[w]) \subseteq Range(t) /\ rx_mbuf' = rx_mbuf BY <1>2, <1>4, <1>7
  <2> QED BY <2>1, <2>8, <2>9, <2>10
<1>9. p \in Open(w) /\ p \notin DoneOf(w) /\ p \notin TxOf(w)
  BY <1>6, <1>8 DEF Open, Apart
<1>10. /\ NoRepeat(Append(r, p)) /\ Range(Append(r, p)) = Range(r) \cup {p}
       /\ NoRepeat(Append(x, p)) /\ Range(Append(x, p)) = Range(x) \cup {p}
  <2>1. NoRepeat(r) /\ NoRepeat(x) /\ p \notin Range(r) /\ p \notin Range(x)
    BY <1>6, <1>9 DEF Once, DoneOf, TxOf, r, x
  <2>2. /\ NoRepeat(Append(r, p)) /\ Range(Append(r, p)) = Range(r) \cup {p}
    BY <2>1, <1>3, NoRepeatAppendPacket
  <2>3. /\ NoRepeat(Append(x, p)) /\ Range(Append(x, p)) = Range(x) \cup {p}
    BY <2>1, <1>3, NoRepeatAppendPacket
  <2> QED BY <2>2, <2>3
<1>11. /\ DoneOf(w)' = DoneOf(w) \cup {p} /\ TxOf(w)' = TxOf(w) \cup {p}
       /\ RingOf(w)' = RingOf(w) /\ BurstOf(w)' = BurstOf(w)
  BY <1>2, <1>4, <1>10 DEF DoneOf, TxOf, RingOf, BurstOf, r, x
<1>12. Open(w)' \subseteq Open(w) /\ p \notin Open(w)'
  BY <1>6, <1>8, <1>11 DEF Open, Apart
<1>13. Once(w)' BY <1>2, <1>4, <1>6, <1>8, <1>10, Zenon DEF Once
<1>14. Apart(w)' BY <1>6, <1>8, <1>11, <1>12 DEF Apart
<1>15. Own(w)' BY <1>2, <1>6, <1>13, <1>14 DEF Own
<1>16. \A v \in Workers \ {w} : Still(v) /\ w_pc'[v] = w_pc[v] BY <1>2, <1>4 DEF Still
<1>17. BInv' BY <1>2, <1>9, <1>11, <1>12, <1>15, <1>16, MovesForward
<1>18. UNCHANGED <<invalid, freed, leaked, sent, unsent>> BY Zenon DEF Finish, fateVars
<1>19. MovesFinished(w) BY <1>8, <1>11, <1>18, Zenon DEF MovesFinished, WaitOf
<1> QED BY <1>16, <1>17, <1>19, Zenon DEF Moves

LEMMA PollB ==
  ASSUME TurnInv, BInv, NEW w \in Workers, Poll(w)
  PROVE  BInv' /\ Moves(w)
<1>0. LoopTypeOK BY DEF TurnInv
<1> DEFINE q == rx_mbuf_dispatch_q[w]
           k == IF PollDue(w) THEN DequeueCount(q, Len(idle_coros[w])) ELSE 0
           pc == IF k = 0 THEN "flush" ELSE "take"
<1>1. /\ burst' = [burst EXCEPT ![w] = FirstOf(q, k)]
      /\ rx_mbuf_dispatch_q' = [rx_mbuf_dispatch_q EXCEPT ![w] = AllAfter(q, k)]
      /\ w_pc' = [w_pc EXCEPT ![w] = pc]
  BY Zenon DEF Poll, Goto
<1>2. /\ w_pc[w] \in {"poll", "run"}
      /\ UNCHANGED <<busy_coros, rx_mbuf, tx_bufs, return_rx_bufs, offered>>
      /\ UNCHANGED <<freed, leaked, sent, unsent>>
  BY Zenon DEF Poll, coroVars, fateVars
<1>3. /\ q \in Seq(Packets) /\ Len(q) \in Nat /\ Len(idle_coros[w]) \in Nat
  BY <1>0, Types
<1>4. k \in 0..Len(q) BY <1>3 DEF DequeueCount, Lesser
<1>5. pc \in {"flush", "take"} /\ (pc = "flush" => k = 0) OBVIOUS
<1>6. Own(w) /\ Once(w) /\ Apart(w) /\ burst[w] = <<>> BY <1>2 DEF BInv, Own
<1>7. NoRepeat(q) BY <1>6 DEF Once
<1> HIDE DEF q, k, pc
<1>8. /\ burst'[w] = FirstOf(q, k) /\ rx_mbuf_dispatch_q'[w] = AllAfter(q, k)
      /\ w_pc'[w] = pc
      /\ \A v \in Workers \ {w} :
           /\ burst'[v] = burst[v] /\ rx_mbuf_dispatch_q'[v] = rx_mbuf_dispatch_q[v]
           /\ w_pc'[v] = w_pc[v]
  BY <1>0, <1>1 DEF LoopTypeOK
<1>9. /\ NoRepeat(FirstOf(q, k)) /\ NoRepeat(AllAfter(q, k))
      /\ Range(FirstOf(q, k)) \cup Range(AllAfter(q, k)) = Range(q)
      /\ Range(FirstOf(q, k)) \cap Range(AllAfter(q, k)) = {}
  BY <1>3, <1>4, <1>7, NoRepeatSplit, Zenon
<1>10. /\ RingOf(w)' \cup BurstOf(w)' = RingOf(w) /\ RingOf(w)' \cap BurstOf(w)' = {}
       /\ JobsOf(w)' = JobsOf(w) /\ DoneOf(w)' = DoneOf(w) /\ TxOf(w)' = TxOf(w)
  BY <1>2, <1>8, <1>9 DEF RingOf, BurstOf, JobsOf, DoneOf, TxOf, q
<1>11. Open(w)' \subseteq Open(w) BY <1>10, Zenon DEF Open
<1>12. Once(w)' BY <1>2, <1>6, <1>8, <1>9 DEF Once
<1>13. Apart(w)'
  <2>1. /\ RingOf(w) \cap JobsOf(w) = {} /\ Open(w) \cap (DoneOf(w) \cup TxOf(w)) = {}
    BY <1>6 DEF Apart
  <2>2. /\ RingOf(w)' \cap JobsOf(w)' = {} /\ BurstOf(w)' \cap JobsOf(w)' = {}
    BY <2>1, <1>10, Zenon
  <2>3. Open(w)' \cap (DoneOf(w)' \cup TxOf(w)') = {} BY <2>1, <1>10, <1>11, Zenon
  <2> QED BY <2>2, <2>3, <1>10 DEF Apart
<1>14. w_pc'[w] \in {"run", "settle", "poll", "flush"} => burst'[w] = <<>>
  <2>1. k = 0 => FirstOf(q, k) = <<>>
    <3>1. FirstOf(q, k) \in Seq(Packets) /\ Len(FirstOf(q, k)) = k
      BY <1>3, <1>4, FirstOfProperties
    <3> QED BY <3>1
  <2> QED BY <2>1, <1>5, <1>8
<1>15. Own(w)' BY <1>12, <1>13, <1>14, Zenon DEF Own
<1>16. \A v \in Workers \ {w} : Still(v) /\ w_pc'[v] = w_pc[v] BY <1>2, <1>8 DEF Still
<1>17. /\ freed' \cup leaked' = freed \cup leaked /\ sent' \cup unsent' = sent \cup unsent
  BY <1>2
<1>18. BInv' BY <1>2, <1>10, <1>11, <1>15, <1>16, <1>17, MovesForward
<1>19. WaitOf(w)' = WaitOf(w)
  <2>1. BurstOf(w) = {} BY <1>6 DEF BurstOf, Range
  <2> QED BY <2>1, <1>10 DEF WaitOf
<1>20. UNCHANGED <<invalid, freed, leaked, sent, unsent>> BY DEF Poll, fateVars
<1>21. MovesNone(w) BY <1>10, <1>19, <1>20, Zenon DEF MovesNone
<1> QED BY <1>16, <1>18, <1>21, Zenon DEF Moves

(* The packet that is examined leaves the burst.                           *)
LEMMA BurstB ==
  ASSUME TurnInv, BInv, NEW w \in Workers, NextOfBurst(w), AfterTake(w)
  PROVE  /\ Back(burst[w]) \in BurstOf(w) /\ Back(burst[w]) \in Packets
         /\ BurstOf(w)' = BurstOf(w) \ {Back(burst[w])} /\ NoRepeat(burst'[w])
         /\ w_pc'[w] \in {"run", "settle", "poll", "flush"} => burst'[w] = <<>>
         /\ \A v \in Workers \ {w} : w_pc'[v] = w_pc[v] /\ burst'[v] = burst[v]
<1>0. LoopTypeOK BY DEF TurnInv
<1> DEFINE b == burst[w]
<1>1. b \in Seq(Packets) /\ b # <<>> /\ Back(b) \in Packets
  BY <1>0, BurstShrinks, Types, Zenon
<1>2. NoRepeat(b) BY DEF BInv, Own, Once
<1>3. /\ burst' = [burst EXCEPT ![w] = PopBack(b)]
      /\ w_pc' = [w_pc EXCEPT ![w] = IF Len(b) = 1 THEN "flush" ELSE "take"]
  BY DEF NextOfBurst, AfterTake, Goto
<1> HIDE DEF b
<1>4. /\ NoRepeat(PopBack(b)) /\ Back(b) \notin Range(PopBack(b))
      /\ Range(b) = Range(PopBack(b)) \cup {Back(b)} /\ Back(b) \in Range(b)
  BY <1>1, <1>2, NoRepeatPopBack
<1>5. burst'[w] = PopBack(b) BY <1>0, <1>3 DEF LoopTypeOK
<1>6. Range(PopBack(b)) = Range(b) \ {Back(b)} BY <1>4, Zenon
<1>7. w_pc'[w] \in {"run", "settle", "poll", "flush"} => Len(b) = 1
  BY <1>0, <1>3 DEF LoopTypeOK
<1>8. Len(b) = 1 => PopBack(b) = <<>>
  <2>1. PopBack(b) \in Seq(Packets) /\ Len(PopBack(b)) = Len(b) - 1
    BY <1>1, PopBackProps
  <2> QED BY <2>1
<1>9. \A v \in Workers \ {w} : w_pc'[v] = w_pc[v] /\ burst'[v] = burst[v]
  BY BurstShrinks
<1> QED BY <1>1, <1>4, <1>5, <1>6, <1>7, <1>8, <1>9 DEF BurstOf, b

LEMMA AcceptB ==
  ASSUME TurnInv, BInv, NEW w \in Workers, Accept(w)
  PROVE  BInv' /\ Moves(w)
<1>0. LoopTypeOK /\ Turn(w) BY DEF TurnInv
<1> DEFINE s == idle_coros[w]
           t == busy_coros[w]
           e == Back(s)
           p == Back(burst[w])
<1>1. /\ p \in BurstOf(w) /\ p \in Packets
      /\ BurstOf(w)' = BurstOf(w) \ {p} /\ NoRepeat(burst'[w])
      /\ w_pc'[w] \in {"run", "settle", "poll", "flush"} => burst'[w] = <<>>
      /\ \A v \in Workers \ {w} : w_pc'[v] = w_pc[v] /\ burst'[v] = burst[v]
  BY BurstB DEF Accept
<1>2. /\ rx_mbuf' = [rx_mbuf EXCEPT ![w] = [@ EXCEPT ![e] = p]]
      /\ busy_coros' = [busy_coros EXCEPT ![w] = <<e>> \o t]
      /\ UNCHANGED <<rx_mbuf_dispatch_q, tx_bufs, return_rx_bufs, offered>>
      /\ UNCHANGED <<freed, leaked, sent, unsent>>
  BY DEF Accept, NextOfBurst, WithNewJob, fateVars
<1>3. s \in Seq(Coros) /\ t \in Seq(Coros) BY <1>0, Types
<1>4. s # <<>>
  <2>1. burst[w] # <<>> /\ burst[w] \in Seq(Packets) /\ Len(burst[w]) <= Len(s)
    BY <1>0, BurstShrinks, Types DEF Accept, Turn
  <2> HIDE DEF s
  <2> QED BY <2>1, <1>3
<1>5. \A x \in 1..Len(t) : t[x] # e BY <1>4, CorosDistinct
<1>6. Own(w) /\ Once(w) /\ Apart(w) BY DEF BInv, Own
<1> HIDE DEF s, t
<1>7. e \in Coros BY <1>3, <1>4, PopBackProps
<1>8. e \notin Range(t) /\ Range(t) \subseteq Coros BY <1>3, <1>5 DEF Range
<1> HIDE DEF e
<1>9. Range(<<e>> \o t) = {e} \cup Range(t)
  <2> DEFINE u == <<e>>
  <2>1. u \in Seq(Coros) /\ Range(u) = {e} BY <1>7 DEF Range
  <2> HIDE DEF u
  <2>2. Range(u \o t) = Range(u) \cup Range(t) BY <2>1, <1>3, RangeConcat
  <2> QED BY <2>1, <2>2 DEF u
<1> HIDE DEF p
<1>10. /\ busy_coros'[w] = <<e>> \o t /\ rx_mbuf'[w][e] = p
       /\ \A c \in Coros : c # e => rx_mbuf'[w][c] = rx_mbuf[w][c]
       /\ \A v \in Workers \ {w} :
            busy_coros'[v] = busy_coros[v] /\ rx_mbuf'[v] = rx_mbuf[v]
  BY <1>0, <1>2, <1>7 DEF LoopTypeOK
<1>11. \A c \in Range(t) : c # e /\ rx_mbuf'[w][c] = rx_mbuf[w][c] BY <1>8, <1>10
<1>12. JobsOf(w)' = JobsOf(w) \cup {p}
  BY <1>9, <1>10, <1>11 DEF JobsOf, t
<1>13. p \in Open(w) /\ p \notin JobsOf(w) /\ p \notin RingOf(w)
  BY <1>1, <1>6 DEF Open, Apart
<1>14. \A c, d \in Range(busy_coros'[w]) : rx_mbuf'[w][c] = rx_mbuf'[w][d] => c = d
  <2>1. \A c, d \in Range(t) : rx_mbuf[w][c] = rx_mbuf[w][d] => c = d
    BY <1>6 DEF Once, t
  <2>2. \A c \in Range(t) : rx_mbuf[w][c] # p BY <1>13 DEF JobsOf, t
  <2> QED BY <2>1, <2>2, <1>9, <1>10, <1>11
<1>15. /\ RingOf(w)' = RingOf(w) /\ DoneOf(w)' = DoneOf(w) /\ TxOf(w)' = TxOf(w)
  BY <1>2 DEF RingOf, DoneOf, TxOf
<1>16. Open(w)' = Open(w) BY <1>1, <1>12, <1>15 DEF Open
<1>17. Once(w)' BY <1>1, <1>2, <1>6, <1>14 DEF Once
<1>18. Apart(w)' BY <1>1, <1>6, <1>12, <1>13, <1>15, <1>16, Zenon DEF Apart
<1>19. Own(w)' BY <1>1, <1>17, <1>18, Zenon DEF Own
<1>20. \A v \in Workers \ {w} : Still(v) /\ w_pc'[v] = w_pc[v]
  BY <1>1, <1>2, <1>10 DEF Still
<1>21. /\ freed' \cup leaked' = freed \cup leaked /\ sent' \cup unsent' = sent \cup unsent
  BY <1>2
<1>22. BInv' BY <1>2, <1>15, <1>16, <1>19, <1>20, <1>21, MovesForward
<1>23. p \in WaitOf(w) /\ WaitOf(w)' = WaitOf(w) \ {p} BY <1>1, <1>13, <1>15, Zenon DEF WaitOf
<1>24. UNCHANGED <<invalid, freed, leaked, sent, unsent>> BY DEF Accept, fateVars
<1>25. MovesStarted(w) BY <1>12, <1>15, <1>23, <1>24, Zenon DEF MovesStarted
<1> QED BY <1>20, <1>22, <1>25, Zenon DEF Moves

LEMMA DiscardB ==
  ASSUME TurnInv, BInv, NEW w \in Workers, Discard(w)
  PROVE  BInv' /\ Moves(w)
<1>0. LoopTypeOK BY DEF TurnInv
<1> DEFINE p == Back(burst[w])
           r == return_rx_bufs[w]
<1>1. /\ p \in BurstOf(w) /\ p \in Packets
      /\ BurstOf(w)' = BurstOf(w) \ {p} /\ NoRepeat(burst'[w])
      /\ w_pc'[w] \in {"run", "settle", "poll", "flush"} => burst'[w] = <<>>
      /\ \A v \in Workers \ {w} : w_pc'[v] = w_pc[v] /\ burst'[v] = burst[v]
  BY BurstB, Zenon DEF Discard
<1>2. /\ UNCHANGED <<rx_mbuf_dispatch_q, busy_coros, rx_mbuf, tx_bufs, offered>>
      /\ UNCHANGED <<freed, sent, unsent>>
  BY DEF Discard, NextOfBurst, coroVars
<1>3. \/ leaked' = leaked \cup {p} /\ UNCHANGED return_rx_bufs
      \/ /\ leaked' = leaked
         /\ return_rx_bufs' = [return_rx_bufs EXCEPT ![w] = Append(r, p)]
  BY Zenon DEF Discard
<1>4. r \in Seq(0..MaxPackets) /\ p \in 0..MaxPackets
  BY <1>0, <1>1, Types, Numbers DEF Packets
<1>5. Own(w) /\ Once(w) /\ Apart(w) BY DEF BInv, Own
<1>6. p \in Open(w) /\ p \notin JobsOf(w) /\ p \notin RingOf(w) /\ p \notin DoneOf(w)
  BY <1>1, <1>5, Zenon DEF Open, Apart
<1>7. NoRepeat(r) /\ p \notin Range(r) BY <1>5, <1>6, Zenon DEF Once, DoneOf
<1> HIDE DEF p, r
<1>8. NoRepeat(Append(r, p)) /\ Range(Append(r, p)) = Range(r) \cup {p}
  BY <1>4, <1>7, NoRepeatAppendPacket
<1>9. /\ NoRepeat(return_rx_bufs'[w])
      /\ \A v \in Workers \ {w} : return_rx_bufs'[v] = return_rx_bufs[v]
      /\ \/ DoneOf(w)' = DoneOf(w) /\ leaked' = leaked \cup {p}
         \/ DoneOf(w)' = DoneOf(w) \cup {p} /\ leaked' = leaked
  <2>1. CASE leaked' = leaked \cup {p} /\ UNCHANGED return_rx_bufs
    BY <2>1, <1>5, Zenon DEF Once, DoneOf
  <2>2. CASE /\ leaked' = leaked
             /\ return_rx_bufs' = [return_rx_bufs EXCEPT ![w] = Append(r, p)]
    <3>1. return_rx_bufs'[w] = Append(r, p) BY <2>2, <1>0 DEF LoopTypeOK
    <3>2. \A v \in Workers \ {w} : return_rx_bufs'[v] = return_rx_bufs[v]
      BY <2>2, <1>0 DEF LoopTypeOK
    <3> QED BY <2>2, <3>1, <3>2, <1>8, Zenon DEF DoneOf, r
  <2> QED BY <1>3, <2>1, <2>2
<1>10. /\ RingOf(w)' = RingOf(w) /\ JobsOf(w)' = JobsOf(w) /\ TxOf(w)' = TxOf(w)
  BY <1>2 DEF RingOf, JobsOf, TxOf
<1>11. Open(w)' \subseteq Open(w) /\ p \notin Open(w)' BY <1>1, <1>6, <1>10 DEF Open
<1>12. Once(w)' BY <1>1, <1>2, <1>5, <1>9, Zenon DEF Once
<1>13. Apart(w)'
  <2>1. /\ RingOf(w)' \cap BurstOf(w)' = {} /\ RingOf(w)' \cap JobsOf(w)' = {}
        /\ BurstOf(w)' \cap JobsOf(w)' = {}
    BY <1>1, <1>5, <1>10, Zenon DEF Apart
  <2>2. DoneOf(w)' \subseteq DoneOf(w) \cup {p} BY <1>9, Zenon
  <2>3. Open(w) \cap (DoneOf(w) \cup TxOf(w)) = {} BY <1>5 DEF Apart
  <2>4. Open(w)' \cap (DoneOf(w)' \cup TxOf(w)') = {} BY <2>2, <2>3, <1>10, <1>11
  <2> QED BY <2>1, <2>4 DEF Apart
<1>14. Own(w)' BY <1>1, <1>12, <1>13, Zenon DEF Own
<1>15. \A v \in Workers \ {w} : Still(v) /\ w_pc'[v] = w_pc[v]
  BY <1>1, <1>2, <1>9, Zenon DEF Still
<1>16. /\ DoneOf(w)' \subseteq DoneOf(w) \cup Open(w)
       /\ freed' \cup leaked' \subseteq (freed \cup leaked) \cup
            ((Open(w) \cup DoneOf(w)) \ (Open(w)' \cup DoneOf(w)'))
  BY <1>2, <1>6, <1>9, <1>11, Zenon
<1>17. sent' \cup unsent' = sent \cup unsent /\ offered' = offered BY <1>2
<1>18. BInv' BY <1>10, <1>11, <1>14, <1>15, <1>16, <1>17, MovesForward, Zenon
<1>19. p \in WaitOf(w) /\ WaitOf(w)' = WaitOf(w) \ {p} BY <1>1, <1>6, <1>10, Zenon DEF WaitOf
<1>20. invalid' = [invalid EXCEPT ![w] = @ \cup {p}] BY Zenon DEF Discard, p
<1>21. MovesDiscarded(w) BY <1>1, <1>2, <1>9, <1>10, <1>19, <1>20, Zenon DEF MovesDiscarded
<1> QED BY <1>15, <1>18, <1>21, Zenon DEF Moves

(* The NIC never has more of a worker's responses than descriptors.        *)
NicFits == nic_tx \in [Workers -> 0..TxRingSize]

(* What rte_eth_tx_burst takes.                                            *)
LEMMA BurstTaken ==
  ASSUME TurnInv, NicFits, NEW w \in Workers
  PROVE  LET nb_tx == Lesser(Len(tx_bufs[w]), TxRingSize - nic_tx[w])
         IN  nb_tx \in 0..Len(tx_bufs[w]) /\ nic_tx[w] + nb_tx \in 0..TxRingSize
<1>1. tx_bufs[w] \in Seq(0..MaxPackets) BY Types DEF TurnInv
<1>2. Len(tx_bufs[w]) \in Nat BY <1>1
<1>3. nic_tx[w] \in 0..TxRingSize /\ TxRingSize \in Nat
  BY WorkerAssumption DEF NicFits
<1>4. \A l, r, n \in Nat : n <= r =>
        Lesser(l, r - n) \in 0..l /\ n + Lesser(l, r - n) \in 0..r
  BY DEF Lesser
<1>5. nic_tx[w] \in Nat /\ nic_tx[w] <= TxRingSize BY <1>3
<1> QED BY <1>2, <1>3, <1>4, <1>5, Zenon

LEMMA NicStep ==
  ASSUME TurnInv, NicFits, [Next]_vars PROVE NicFits'
<1>1. CASE UNCHANGED nic_tx BY <1>1 DEF NicFits
<1>2. ASSUME NEW w \in Workers, Flush(w) PROVE NicFits'
  <2>1. CASE UNCHANGED nic_tx BY <2>1, <1>1
  <2>2. CASE ~UNCHANGED nic_tx
    <3> DEFINE nb == Lesser(Len(tx_bufs[w]), TxRingSize - nic_tx[w])
    <3>1. nic_tx' = [nic_tx EXCEPT ![w] = @ + nb] BY <1>2, <2>2, Zenon DEF Flush, Transmit
    <3>2. nic_tx[w] + nb \in 0..TxRingSize BY BurstTaken
    <3> HIDE DEF nb
    <3> QED BY <3>1, <3>2 DEF NicFits
  <2> QED BY <2>1, <2>2
<1>3. ASSUME NEW w \in Workers, NicSends(w) PROVE NicFits'
  <2>1. nic_tx[w] > 0 /\ nic_tx' = [nic_tx EXCEPT ![w] = @ - 1] BY <1>3 DEF NicSends
  <2>2. TxRingSize \in Nat BY WorkerAssumption
  <2> QED BY <2>1, <2>2 DEF NicFits
<1>4. ASSUME NEW w \in Workers, WorkerNext(w), ~Flush(w) PROVE UNCHANGED nic_tx
  BY <1>4, Zenon DEF WorkerNext, Preempt, Finish, Settle, Poll, Accept, AcceptWithoutBuffer,
       Discard, nicVars
<1>5. ASSUME NEW w \in Workers, EnvOffer(w) PROVE UNCHANGED nic_tx
  BY <1>5 DEF EnvOffer, nicVars
<1>6. UNCHANGED vars => UNCHANGED nic_tx BY DEF vars, nicVars
<1> QED BY <1>1, <1>2, <1>3, <1>4, <1>5, <1>6 DEF Next

LEMMA FlushB ==
  ASSUME TurnInv, NicFits, BInv, NEW w \in Workers, Flush(w)
  PROVE  BInv' /\ Moves(w)
<1>0. LoopTypeOK BY DEF TurnInv
<1> DEFINE t == tx_bufs[w]
           nb == Lesser(Len(t), TxRingSize - nic_tx[w])
<1>1. /\ w_pc[w] = "flush" /\ w_pc' = [w_pc EXCEPT ![w] = "run"]
      /\ UNCHANGED <<rx_mbuf_dispatch_q, busy_coros, rx_mbuf, burst, offered, leaked>>
  BY DEF Flush, Goto, coroVars
<1>2. \/ UNCHANGED <<sent, unsent, tx_bufs>>
      \/ /\ sent' = sent \cup Range(FirstOf(t, nb))
         /\ unsent' = unsent \cup Range(AllAfter(t, nb))
         /\ tx_bufs' = [tx_bufs EXCEPT ![w] = <<>>]
  BY Zenon DEF Flush, Transmit
<1>3. \/ UNCHANGED <<freed, return_rx_bufs>>
      \/ /\ freed' = freed \cup Range(return_rx_bufs[w])
         /\ return_rx_bufs' = [return_rx_bufs EXCEPT ![w] = <<>>]
  BY Zenon DEF Flush, ReturnRxBufs
<1>4. Own(w) /\ Once(w) /\ Apart(w) /\ burst[w] = <<>> BY <1>1 DEF BInv, Own
<1>5. Range(<<>>) = {} /\ NoRepeat(<<>>) BY DEF Range, NoRepeat
<1>6. t \in Seq(0..MaxPackets) /\ nb \in 0..Len(t) /\ NoRepeat(t)
  BY <1>0, <1>4, Types, BurstTaken, Zenon DEF Once
<1>7. /\ Range(FirstOf(t, nb)) \cup Range(AllAfter(t, nb)) = Range(t)
      /\ Range(FirstOf(t, nb)) \cap Range(AllAfter(t, nb)) = {}
  <2> DEFINE S == 0..MaxPackets
  <2>1. t \in Seq(S) BY <1>6
  <2> HIDE DEF S, t, nb
  <2> QED BY <2>1, <1>6, NoRepeatSplit
<1> HIDE DEF t, nb
<1>8. /\ NoRepeat(tx_bufs'[w])
      /\ \A v \in Workers \ {w} : tx_bufs'[v] = tx_bufs[v]
      /\ \/ TxOf(w)' = TxOf(w) /\ sent' \cup unsent' = sent \cup unsent
         \/ TxOf(w)' = {} /\ sent' \cup unsent' = (sent \cup unsent) \cup TxOf(w)
  <2>1. CASE UNCHANGED <<sent, unsent, tx_bufs>>
    BY <2>1, <1>4, Zenon DEF Once, TxOf
  <2>2. CASE /\ sent' = sent \cup Range(FirstOf(t, nb))
             /\ unsent' = unsent \cup Range(AllAfter(t, nb))
             /\ tx_bufs' = [tx_bufs EXCEPT ![w] = <<>>]
    <3>1. tx_bufs'[w] = <<>> /\ \A v \in Workers \ {w} : tx_bufs'[v] = tx_bufs[v]
      BY <2>2, <1>0 DEF LoopTypeOK
    <3>2. sent' \cup unsent' = (sent \cup unsent) \cup TxOf(w)
      BY <2>2, <1>7 DEF TxOf, t
    <3> QED BY <3>1, <3>2, <1>5 DEF TxOf
  <2> QED BY <1>2, <2>1, <2>2
<1>9. /\ NoRepeat(return_rx_bufs'[w])
      /\ \A v \in Workers \ {w} : return_rx_bufs'[v] = return_rx_bufs[v]
      /\ \/ DoneOf(w)' = DoneOf(w) /\ freed' = freed
         \/ DoneOf(w)' = {} /\ freed' = freed \cup DoneOf(w)
  <2>1. CASE UNCHANGED <<freed, return_rx_bufs>>
    BY <2>1, <1>4, Zenon DEF Once, DoneOf
  <2>2. CASE /\ freed' = freed \cup Range(return_rx_bufs[w])
             /\ return_rx_bufs' = [return_rx_bufs EXCEPT ![w] = <<>>]
    <3>1. /\ return_rx_bufs'[w] = <<>>
          /\ \A v \in Workers \ {w} : return_rx_bufs'[v] = return_rx_bufs[v]
      BY <2>2, <1>0 DEF LoopTypeOK
    <3> QED BY <2>2, <3>1, <1>5 DEF DoneOf
  <2> QED BY <1>3, <2>1, <2>2
<1>10. /\ RingOf(w)' = RingOf(w) /\ BurstOf(w)' = BurstOf(w) /\ JobsOf(w)' = JobsOf(w)
  BY <1>1 DEF RingOf, BurstOf, JobsOf
<1>11. Open(w)' = Open(w) BY <1>10, Zenon DEF Open
<1>12. Once(w)' BY <1>1, <1>4, <1>8, <1>9, Zenon DEF Once
<1>13. Apart(w)'
  <2>1. TxOf(w)' \subseteq TxOf(w) /\ DoneOf(w)' \subseteq DoneOf(w) BY <1>8, <1>9
  <2> QED BY <2>1, <1>4, <1>10, <1>11, Zenon DEF Apart
<1>14. Own(w)' BY <1>1, <1>4, <1>12, <1>13 DEF Own
<1>15. \A v \in Workers \ {w} : Still(v) /\ w_pc'[v] = w_pc[v]
  <2>1. \A v \in Workers \ {w} : w_pc'[v] = w_pc[v] BY <1>0, <1>1 DEF LoopTypeOK
  <2> QED BY <2>1, <1>1, <1>8, <1>9, Zenon DEF Still
<1>16. Open(w) \cap (DoneOf(w) \cup TxOf(w)) = {} BY <1>4, Zenon DEF Apart
<1>17. /\ DoneOf(w)' \subseteq DoneOf(w) \cup Open(w)
       /\ freed' \cup leaked' \subseteq (freed \cup leaked) \cup
            ((Open(w) \cup DoneOf(w)) \ (Open(w)' \cup DoneOf(w)'))
  BY <1>1, <1>9, <1>11, <1>16
<1>18. /\ TxOf(w)' \subseteq TxOf(w) \cup Open(w)
       /\ sent' \cup unsent' \subseteq (sent \cup unsent) \cup
            ((Open(w) \cup TxOf(w)) \ (Open(w)' \cup TxOf(w)'))
  BY <1>8, <1>11, <1>16
<1>19. Open(w)' \subseteq Open(w) /\ UNCHANGED offered BY <1>1, <1>11
<1>20. BInv' BY <1>14, <1>15, <1>17, <1>18, <1>19, MovesForward, Zenon
<1>21. \/ TxOf(w)' = TxOf(w) /\ UNCHANGED <<sent, unsent>>
       \/ /\ TxOf(w)' = {}
          /\ \E S \in SUBSET TxOf(w) :
               sent' = sent \cup S /\ unsent' = unsent \cup (TxOf(w) \ S)
  <2>1. CASE UNCHANGED <<sent, unsent, tx_bufs>> BY <2>1 DEF TxOf
  <2>2. CASE /\ sent' = sent \cup Range(FirstOf(t, nb))
             /\ unsent' = unsent \cup Range(AllAfter(t, nb))
             /\ tx_bufs' = [tx_bufs EXCEPT ![w] = <<>>]
    <3>1. TxOf(w)' = {} BY <2>2, <1>0, <1>5 DEF LoopTypeOK, TxOf
    <3>2. TxOf(w) = Range(t) BY DEF TxOf, t
    <3>3. /\ Range(FirstOf(t, nb)) \in SUBSET TxOf(w)
          /\ Range(AllAfter(t, nb)) = TxOf(w) \ Range(FirstOf(t, nb))
      BY <3>2, <1>7
    <3> QED BY <2>2, <3>1, <3>3, Zenon
  <2> QED BY <1>2, <2>1, <2>2
<1>22. UNCHANGED <<invalid, leaked>> BY DEF Flush
<1>23. MovesOut(w) BY <1>9, <1>10, <1>21, <1>22, Zenon DEF MovesOut, WaitOf
<1> QED BY <1>15, <1>20, <1>23, Zenon DEF Moves

(* A dispatcher's burst: packets that were nowhere before.                 *)
LEMMA OfferB ==
  ASSUME TurnInv, BInv, NEW w \in Workers, EnvOffer(w) PROVE BInv'
<1>0. LoopTypeOK BY DEF TurnInv
<1> DEFINE q == rx_mbuf_dispatch_q[w]
<1>1. PICK n \in 1..(MaxPackets - offered) :
        \E k \in 0..EnqueueCount(q, DispatchRingSize, n) :
          /\ rx_mbuf_dispatch_q' =
               [rx_mbuf_dispatch_q EXCEPT ![w] = @ \o [j \in 1..k |-> offered + j]]
          /\ offered' = offered + n
  BY Zenon DEF EnvOffer
<1>2. PICK k \in 0..EnqueueCount(q, DispatchRingSize, n) :
        /\ rx_mbuf_dispatch_q' =
             [rx_mbuf_dispatch_q EXCEPT ![w] = @ \o [j \in 1..k |-> offered + j]]
        /\ offered' = offered + n
  BY <1>1, Zenon
<1> DEFINE new == [j \in 1..k |-> offered + j]
<1>3. /\ q \in Seq(Packets) /\ offered \in Nat /\ MaxPackets \in Nat
      /\ DispatchRingSize \in Nat /\ offered <= MaxPackets
  BY SMTT(30), <1>0, Types, Numbers, WorkerAssumption DEF LoopTypeOK, WorkerAssumption
<1>4. k \in Nat /\ k <= n /\ n \in Nat /\ offered + n <= MaxPackets
  <2>1. Len(q) \in Nat BY <1>3
  <2>2. FreeCount(q, DispatchRingSize) \in Int BY <2>1, <1>3 DEF FreeCount
  <2>3. /\ EnqueueCount(q, DispatchRingSize, n) \in Int
        /\ EnqueueCount(q, DispatchRingSize, n) <= n
    BY <2>2, <1>3, LesserProperties DEF EnqueueCount
  <2> QED BY <2>3, <1>3
<1>5. new \in Seq(Packets) /\ NoRepeat(new)
  BY <1>3, <1>4 DEF Packets, NoRepeat
<1>6. \A p \in Range(new) : p \in 1..(offered + n) /\ p \notin 1..offered
  BY <1>3, <1>4 DEF Range
<1>7. 1..offered \subseteq 1..(offered + n) BY <1>3, <1>4
<1> DEFINE old == 1..offered
           now == 1..(offered + n)
<1>8. /\ \A v \in Workers : Own(v) /\ Fresh(v) /\ Mine(v) \subseteq old
      /\ \A u, v \in Workers : u # v => Mine(u) \cap Mine(v) = {}
      /\ freed \cup leaked \subseteq old /\ sent \cup unsent \subseteq old
  BY DEF BInv
<1>9. old \subseteq now /\ Range(new) \subseteq now /\ Range(new) \cap old = {} /\ offered' = offered + n
  BY <1>2, <1>6, <1>7
<1>10. 1..offered' = now BY <1>9
<1> HIDE DEF new, old, now
<1>11. /\ rx_mbuf_dispatch_q'[w] = q \o new
       /\ \A v \in Workers \ {w} : rx_mbuf_dispatch_q'[v] = rx_mbuf_dispatch_q[v]
  BY <1>0, <1>2 DEF LoopTypeOK, new
<1>12. UNCHANGED <<w_pc, busy_coros, rx_mbuf, burst, tx_bufs, return_rx_bufs, freed, leaked,
                   sent, unsent>>
  BY DEF EnvOffer, workerVars, coroVars, fateVars
<1>13. Once(w) /\ Apart(w) /\ Fresh(w) /\ RingOf(w) \subseteq Mine(w)
       /\ Open(w) \subseteq Mine(w) /\ DoneOf(w) \subseteq Mine(w) /\ TxOf(w) \subseteq Mine(w)
       /\ BurstOf(w) \subseteq Mine(w) /\ JobsOf(w) \subseteq Mine(w)
  BY <1>8, Zenon DEF Own, Mine, Open
<1>14. NoRepeat(q) /\ Range(q) \cap Range(new) = {}
  BY <1>8, <1>9, <1>13, Zenon DEF Once, RingOf
<1>15. NoRepeat(q \o new) /\ Range(q \o new) = Range(q) \cup Range(new)
  <2> HIDE DEF q
  <2> QED BY <1>3, <1>5, <1>14, NoRepeatConcat
<1>16. /\ RingOf(w)' = RingOf(w) \cup Range(new)
       /\ BurstOf(w)' = BurstOf(w) /\ JobsOf(w)' = JobsOf(w)
       /\ DoneOf(w)' = DoneOf(w) /\ TxOf(w)' = TxOf(w)
  BY <1>11, <1>12, <1>15 DEF RingOf, BurstOf, JobsOf, DoneOf, TxOf
<1>17. /\ Open(w)' = Open(w) \cup Range(new) BY <1>16 DEF Open
<1>18. Mine(w)' = Mine(w) \cup Range(new) BY <1>16, <1>17 DEF Mine
<1>19. Own(w)'
  <2>1. Once(w)' BY <1>11, <1>12, <1>13, <1>15, Zenon DEF Once
  <2>2. Apart(w)' BY <1>8, <1>9, <1>13, <1>16, <1>17 DEF Apart
  <2> QED BY <2>1, <2>2, <1>8, <1>12, Zenon DEF Own
<1>20. Fresh(w)' BY <1>8, <1>9, <1>12, <1>13, <1>16, <1>17 DEF Fresh
<1>21. ASSUME NEW v \in Workers \ {w}
       PROVE  Own(v)' /\ Fresh(v)' /\ Mine(v)' = Mine(v)
  <2>1. Still(v) /\ w_pc'[v] = w_pc[v] BY <1>11, <1>12, Zenon DEF Still
  <2>2. Own(v)' /\ Mine(v)' = Mine(v) /\ Open(v)' = Open(v) /\ DoneOf(v)' = DoneOf(v)
        /\ TxOf(v)' = TxOf(v)
    BY <2>1, <1>8, StillSame, Zenon
  <2>3. Fresh(v) BY <1>8
  <2> QED BY <2>2, <2>3, <1>12, Zenon DEF Fresh
<1>22. \A v \in Workers : Own(v)' /\ Fresh(v)' /\ Mine(v)' \subseteq now
  BY <1>8, <1>9, <1>18, <1>19, <1>20, <1>21
<1>23. \A u, v \in Workers : u # v => Mine(u)' \cap Mine(v)' = {}
  BY <1>8, <1>9, <1>18, <1>21
<1>24. freed' \cup leaked' \subseteq now /\ sent' \cup unsent' \subseteq now
  BY <1>8, <1>9, <1>12
<1> QED BY <1>10, <1>22, <1>23, <1>24, Zenon DEF BInv

(* Every step of a worker is one of these.                                 *)
LEMMA WorkerMoves ==
  ASSUME TurnInv, NicFits, BInv, NEW w \in Workers, WorkerNext(w)
  PROVE  BInv' /\ Moves(w)
  BY PreemptB, FinishB, SettleB, PollB, AcceptB, DiscardB, FlushB, Zenon DEF WorkerNext

LEMMA InvariantB == Spec => [](TurnInv /\ NicFits /\ BInv)
<1> DEFINE I == TurnInv /\ NicFits /\ BInv
<1>1. Init => I
  <2>1. Init => NicFits BY WorkerAssumption DEF Init, WorkerInit, NicFits
  <2> QED BY <2>1, TurnInit, InitB
<1>2. I /\ [Next]_vars => I'
  <2> SUFFICES ASSUME TurnInv, NicFits, BInv, [Next]_vars PROVE BInv'
    BY TurnStep, NicStep
  <2>1. ASSUME NEW w \in Workers, UNCHANGED <<rx_mbuf_dispatch_q, workerVars, offered>>
        PROVE  BInv'
    <3>1. UNCHANGED <<rx_mbuf_dispatch_q, burst, busy_coros, rx_mbuf, return_rx_bufs, tx_bufs,
                      w_pc, offered, freed, leaked, sent, unsent>>
      BY <2>1 DEF workerVars, coroVars, fateVars
    <3>2. w_pc'[w] \in {"run", "settle", "poll", "flush"} => burst[w] = <<>>
      BY <3>1 DEF BInv, Own
    <3> QED BY <3>1, <3>2, NothingMoves, Zenon DEF Still
  <2>2. CASE UNCHANGED vars
    <3>1. PICK w \in Workers : TRUE BY WorkerAssumption
    <3> QED BY <2>1, <2>2, <3>1 DEF vars
  <2>3. ASSUME NEW w \in Workers, NicSends(w) PROVE BInv' BY <2>1, <2>3 DEF NicSends
  <2>4. ASSUME NEW w \in Workers, WorkerNext(w) PROVE BInv' BY <2>4, WorkerMoves
  <2> QED BY <2>2, <2>3, <2>4, OfferB DEF Next
<1> HIDE DEF I
<1>3. Spec => []I BY <1>1, <1>2, PTL DEF Spec
<1> QED BY <1>3 DEF I

LEMMA SeqOfFunction ==
  ASSUME NEW S, NEW n \in Nat, NEW f \in [1..n -> S]
  PROVE  f \in Seq(S) /\ Len(f) = n
  OBVIOUS

LEMMA SeqWiden ==
  ASSUME NEW S, NEW T, S \subseteq T, NEW s \in Seq(S) PROVE s \in Seq(T)
  OBVIOUS

(* The receive buffers in a worker's hands.                                *)
LEMMA HeldIs ==
  ASSUME TurnInv, BInv, NEW w \in Workers
  PROVE  /\ Held(w) \in Seq(0..MaxPackets) /\ NoRepeat(Held(w))
         /\ Range(Held(w)) = Open(w) \cup DoneOf(w)
<1>0. LoopTypeOK BY DEF TurnInv
<1> DEFINE S == 0..MaxPackets
           q == rx_mbuf_dispatch_q[w]
           b == burst[w]
           t == busy_coros[w]
           j == JobPackets(w)
           r == return_rx_bufs[w]
<1>1. /\ q \in Seq(Packets) /\ b \in Seq(Packets) /\ t \in Seq(Coros)
      /\ r \in Seq(S) /\ \A c \in Coros : rx_mbuf[w][c] \in S
  BY <1>0, Types, Zenon
<1>2. Packets \subseteq S BY Numbers DEF Packets
<1>3. q \in Seq(S) /\ b \in Seq(S)
  <2> HIDE DEF q, b, S
  <2> QED BY <1>1, <1>2, SeqWiden
<1>4. Once(w) /\ Apart(w) BY DEF BInv, Own
<1>5. \A x, y \in 1..Len(t) : t[x] = t[y] => x = y BY CorosDistinct
<1> HIDE DEF S
<1>6. /\ j \in Seq(S) /\ Len(j) = Len(t) /\ DOMAIN t = 1..Len(t)
      /\ \A x \in 1..Len(t) : j[x] = rx_mbuf[w][t[x]] /\ t[x] \in Range(t)
  <2>1. /\ Len(t) \in Nat /\ DOMAIN t = 1..Len(t) /\ \A x \in 1..Len(t) : t[x] \in Coros
    BY <1>1
  <2>2. j = [x \in DOMAIN t |-> rx_mbuf[w][t[x]]] BY DEF JobPackets
  <2>3. \A x \in 1..Len(t) : t[x] \in Range(t) BY <2>1 DEF Range
  <2> DEFINE n == Len(t)
  <2>4. \A x \in 1..n : rx_mbuf[w][t[x]] \in S BY <2>1, <1>1
  <2>5. j = [x \in 1..n |-> rx_mbuf[w][t[x]]] BY <2>1, <2>2
  <2>6. n \in Nat BY <2>1
  <2> HIDE DEF j, t, n
  <2>7. j \in [1..n -> S] BY <2>4, <2>5
  <2>8. j \in Seq(S) /\ Len(j) = n BY <2>6, <2>7, SeqOfFunction
  <2>9. \A x \in 1..n : j[x] = rx_mbuf[w][t[x]] BY <2>5
  <2> QED BY <2>1, <2>3, <2>8, <2>9 DEF n
<1>7. Range(j) = JobsOf(w)
  <2>1. \A p : p \in Range(j) <=> \E x \in 1..Len(t) : j[x] = p BY <1>6 DEF Range
  <2>2. \A c : c \in Range(t) <=> \E x \in 1..Len(t) : t[x] = c BY <1>6 DEF Range
  <2>3. \A p : p \in JobsOf(w) <=> \E c \in Range(t) : rx_mbuf[w][c] = p BY DEF JobsOf
  <2> HIDE DEF j, t
  <2>4. ASSUME NEW p \in Range(j) PROVE p \in JobsOf(w)
    <3>1. PICK x \in 1..Len(t) : j[x] = p BY <2>1
    <3> QED BY <3>1, <1>6, <2>3
  <2>5. ASSUME NEW p \in JobsOf(w) PROVE p \in Range(j)
    <3>1. PICK c \in Range(t) : rx_mbuf[w][c] = p BY <2>3
    <3>2. PICK x \in 1..Len(t) : t[x] = c BY <2>2
    <3> QED BY <3>1, <3>2, <1>6, <2>1
  <2> QED BY <2>4, <2>5
<1>8. NoRepeat(j)
  <2>1. \A c, d \in Range(t) : rx_mbuf[w][c] = rx_mbuf[w][d] => c = d BY <1>4 DEF Once
  <2> HIDE DEF j, t
  <2> QED BY <2>1, <1>5, <1>6 DEF NoRepeat
<1>9. NoRepeat(q) /\ NoRepeat(b) /\ NoRepeat(r) BY <1>4 DEF Once
<1>10. /\ Range(q) \cap Range(b) = {} /\ (Range(q) \cup Range(b)) \cap Range(j) = {}
       /\ (Range(q) \cup Range(b) \cup Range(j)) \cap Range(r) = {}
       /\ Open(w) = Range(q) \cup Range(b) \cup Range(j) /\ DoneOf(w) = Range(r)
  <2>1. /\ RingOf(w) = Range(q) /\ BurstOf(w) = Range(b) /\ DoneOf(w) = Range(r)
    BY DEF RingOf, BurstOf, DoneOf
  <2> HIDE DEF q, b, j, r
  <2> QED BY <2>1, <1>4, <1>7 DEF Apart, Open
<1>11. Held(w) = ((q \o b) \o j) \o r BY DEF Held
<1> HIDE DEF q, b, j, r
<1>12. q \o b \in Seq(S) /\ NoRepeat(q \o b) /\ Range(q \o b) = Range(q) \cup Range(b)
  BY <1>3, <1>9, <1>10, NoRepeatConcat
<1> DEFINE u == q \o b
           v == u \o j
           h == v \o r
<1>13. u \in Seq(S) /\ NoRepeat(u) /\ Range(u) \cap Range(j) = {}
       /\ Range(u) = Range(q) \cup Range(b)
  BY <1>12, <1>10
<1> HIDE DEF u
<1>14. v \in Seq(S) /\ NoRepeat(v) /\ Range(v) = Range(u) \cup Range(j)
  BY SMTT(30), <1>6, <1>8, <1>13, NoRepeatConcat
<1>15. Range(v) \cap Range(r) = {} BY <1>10, <1>13, <1>14
<1> HIDE DEF v
<1>16. h \in Seq(S) /\ NoRepeat(h) /\ Range(h) = Range(v) \cup Range(r)
  BY SMTT(30), <1>1, <1>9, <1>14, <1>15, NoRepeatConcat DEF r
<1> HIDE DEF h
<1>18. Held(w) = h BY <1>11 DEF h, v, u
<1> QED BY <1>10, <1>13, <1>14, <1>16, <1>18, Zenon DEF S

--------------------------------------------------------------------------------
(* What TypeOK says beyond LoopTypeOK and the invariants on buffers.       *)
CountTypeOK ==
  /\ curr_size \in [Workers -> Nat] /\ curr_sq \in [Workers -> Int]
  /\ invalid \in [Workers -> SUBSET Packets]

LEMMA CountTypes ==
  ASSUME TurnInv, CountTypeOK, [Next]_vars PROVE CountTypeOK'
<1>0. LoopTypeOK BY DEF TurnInv
<1>1. CASE UNCHANGED <<curr_size, curr_sq, invalid>> BY <1>1 DEF CountTypeOK
<1>2. ASSUME NEW w \in Workers, Preempt(w) PROVE CountTypeOK'
  <2>1. PICK i \in NextCoros(w) :
          curr_sq' = [curr_sq EXCEPT ![w] = @ + NumAssignedQuanta(w, i)]
    BY <1>2, Zenon DEF Preempt
  <2>2. NumAssignedQuanta(w, i) \in Int BY <1>0, Assigned
  <2>3. UNCHANGED <<curr_size, invalid>> BY <1>2 DEF Preempt, fateVars
  <2> DEFINE n == NumAssignedQuanta(w, i)
  <2> HIDE DEF n
  <2>4. curr_sq' \in [Workers -> Int] BY <2>1, <2>2 DEF CountTypeOK, n
  <2> QED BY <2>3, <2>4 DEF CountTypeOK
<1>3. ASSUME NEW w \in Workers, Finish(w) PROVE CountTypeOK'
  <2>1. /\ curr_size' = [curr_size EXCEPT ![w] = @ + 1] /\ UNCHANGED <<curr_sq, invalid>>
    BY <1>3, Zenon DEF Finish, CountCompletion, fateVars
  <2> QED BY <2>1 DEF CountTypeOK
<1>4. ASSUME NEW w \in Workers, Settle(w) PROVE CountTypeOK'
  <2>1. /\ curr_sq' = [curr_sq EXCEPT ![w] = @ - QuantaOfFinished(w)]
        /\ UNCHANGED <<curr_size, invalid>> /\ idle_coros[w] # <<>>
    BY <1>4, Zenon DEF Settle, fateVars, TurnInv, Turn
  <2>2. QuantaOfFinished(w) \in Nat
    <3>1. idle_coros[w] \in Seq(Coros) BY <1>0, Types
    <3>2. Back(idle_coros[w]) \in Coros BY <2>1, <3>1, PopBackProps
    <3> QED BY <3>2, <1>0, Types DEF QuantaOfFinished
  <2> QED BY SMTT(30), <2>1, <2>2 DEF CountTypeOK
<1>5. ASSUME NEW w \in Workers, Discard(w) PROVE CountTypeOK'
  <2>1. /\ invalid' = [invalid EXCEPT ![w] = @ \cup {Back(burst[w])}]
        /\ UNCHANGED <<curr_size, curr_sq>>
    BY <1>5 DEF Discard, NextOfBurst, counterVars
  <2>2. Back(burst[w]) \in Packets BY <1>5, BurstShrinks, Zenon DEF Discard
  <2> QED BY <2>1, <2>2 DEF CountTypeOK
<1>6. ASSUME NEW w \in Workers, Poll(w) \/ Accept(w) \/ AcceptWithoutBuffer(w) \/ Flush(w)
      PROVE  UNCHANGED <<curr_size, curr_sq, invalid>>
  BY <1>6 DEF Poll, Accept, NextOfBurst, AcceptWithoutBuffer, Flush, counterVars, fateVars
<1>7. ASSUME NEW w \in Workers, NicSends(w) \/ EnvOffer(w)
      PROVE  UNCHANGED <<curr_size, curr_sq, invalid>>
  BY <1>7 DEF NicSends, EnvOffer, counterVars, workerVars, fateVars
<1>8. UNCHANGED vars => UNCHANGED <<curr_size, curr_sq, invalid>>
  BY DEF vars, counterVars, workerVars, fateVars
<1>9. ASSUME NEW w \in Workers, WorkerNext(w) PROVE CountTypeOK'
  BY <1>1, <1>2, <1>3, <1>4, <1>5, <1>6, <1>9 DEF WorkerNext
<1> QED BY <1>1, <1>7, <1>8, <1>9 DEF Next

LEMMA InvariantCounts == Spec => []CountTypeOK
<1>1. ASSUME Init PROVE CountTypeOK
  <2>1. /\ curr_size = [w \in Workers |-> 0] /\ curr_sq \in [Workers -> ServicedQuanta]
        /\ invalid = [w \in Workers |-> {}]
    BY <1>1 DEF Init, WorkerInit
  <2>2. ServicedQuanta \subseteq Int BY WorkerAssumption
  <2>3. curr_sq \in [Workers -> Int] BY <2>1, <2>2, Zenon
  <2>4. curr_size \in [Workers -> Nat] /\ invalid \in [Workers -> SUBSET Packets] BY <2>1
  <2> QED BY <2>3, <2>4 DEF CountTypeOK
<1>2. TurnInv /\ CountTypeOK /\ [Next]_vars => CountTypeOK' BY CountTypes
<1> QED BY <1>1, <1>2, TurnInvariant, PTL DEF Spec

--------------------------------------------------------------------------------
(* The union over all workers, when only the share of one of them changes. *)
LEMMA UnionGrows ==
  ASSUME NEW I, NEW f, NEW g, NEW w \in I, NEW D,
         \A v \in I \ {w} : g[v] = f[v], g[w] = f[w] \cup D
  PROVE  UNION {g[v] : v \in I} = (UNION {f[v] : v \in I}) \cup D
<1> DEFINE F == UNION {f[v] : v \in I}
           G == UNION {g[v] : v \in I}
<1>1. \A x : x \in F <=> \E v \in I : x \in f[v] OBVIOUS
<1>2. \A x : x \in G <=> \E v \in I : x \in g[v] OBVIOUS
<1> HIDE DEF F, G
<1>3. \A x : x \in G <=> x \in F \/ x \in D
  <2>1. \A x, v \in I : x \in g[v] => x \in D \/ x \in f[v] OBVIOUS
  <2>2. \A x, v \in I : x \in f[v] => x \in g[v] OBVIOUS
  <2>3. \A x \in D : x \in g[w] OBVIOUS
  <2> QED BY <1>1, <1>2, <2>1, <2>2, <2>3
<1>4. G = F \cup D BY <1>3
<1> QED BY <1>4 DEF F, G

LEMMA UnionShrinks ==
  ASSUME NEW I, NEW f, NEW g, NEW w \in I, NEW D,
         \A v \in I \ {w} : g[v] = f[v] /\ f[v] \cap D = {}, g[w] = f[w] \ D
  PROVE  UNION {g[v] : v \in I} = (UNION {f[v] : v \in I}) \ D
<1> DEFINE F == UNION {f[v] : v \in I}
           G == UNION {g[v] : v \in I}
<1>1. \A x : x \in F <=> \E v \in I : x \in f[v] OBVIOUS
<1>2. \A x : x \in G <=> \E v \in I : x \in g[v] OBVIOUS
<1> HIDE DEF F, G
<1>3. \A x : x \in G <=> x \in F /\ x \notin D
  <2>1. \A x, v \in I : x \in g[v] => x \notin D /\ x \in f[v] OBVIOUS
  <2>2. \A x, v \in I : x \in f[v] /\ x \notin D => x \in g[v] OBVIOUS
  <2> QED BY <1>1, <1>2, <2>1, <2>2
<1>4. G = F \ D BY <1>3
<1> QED BY <1>4 DEF F, G

--------------------------------------------------------------------------------
(* The packets that wait for a worker, that are being run, whose response  *)
(* waits to be sent, and that were found invalid.                          *)
Waiting == UNION {WaitOf(w) : w \in Workers}
Running == UNION {JobsOf(w) : w \in Workers}
Ready == UNION {TxOf(w) : w \in Workers}
Invalid == UNION {invalid[w] : w \in Workers}

(* The packets whose receive buffer a worker has, has freed or has lost.   *)
Kept == freed \cup leaked \cup UNION {Open(w) \cup DoneOf(w) : w \in Workers}

(* Every packet that was ever put on a ring has exactly one fate.          *)
FInv ==
  /\ invalid \in [Workers -> SUBSET Packets] /\ sent \cap unsent = {}
  /\ Invalid \cap (Waiting \cup Running \cup Ready \cup sent \cup unsent) = {}
  /\ Kept = Waiting \cup Running \cup Ready \cup Invalid \cup sent \cup unsent

(* What a step of a worker does to them.                                   *)
PacketMoves ==
  \/ UNCHANGED <<Waiting, Running, Ready, Invalid, sent, unsent>>
  \/ \E p \in Running :
       /\ Running' = Running \ {p} /\ Ready' = Ready \cup {p}
       /\ UNCHANGED <<Waiting, Invalid, sent, unsent>>
  \/ \E p \in Waiting :
       /\ Waiting' = Waiting \ {p} /\ Running' = Running \cup {p}
       /\ UNCHANGED <<Ready, Invalid, sent, unsent>>
  \/ \E p \in Waiting :
       /\ Waiting' = Waiting \ {p} /\ Invalid' = Invalid \cup {p}
       /\ UNCHANGED <<Running, Ready, sent, unsent>>
  \/ \E S, T \in SUBSET Ready :
       /\ S \cap T = {} /\ Ready' = Ready \ (S \cup T)
       /\ sent' = sent \cup S /\ unsent' = unsent \cup T
       /\ UNCHANGED <<Waiting, Running, Invalid>>

LEMMA WaitingChange ==
  ASSUME NEW w \in Workers, NEW D, \A v \in Workers \ {w} : WaitOf(v)' = WaitOf(v)
  PROVE  /\ WaitOf(w)' = WaitOf(w) \cup D => Waiting' = Waiting \cup D
         /\ (WaitOf(w)' = WaitOf(w) \ D /\ \A v \in Workers \ {w} : WaitOf(v) \cap D = {})
              => Waiting' = Waiting \ D
<1> DEFINE f == [v \in Workers |-> WaitOf(v)]
           g == [v \in Workers |-> WaitOf(v)']
<1>1. /\ \A v \in Workers : f[v] = WaitOf(v) /\ g[v] = WaitOf(v)'
      /\ Waiting = UNION {f[v] : v \in Workers} /\ Waiting' = UNION {g[v] : v \in Workers}
  BY DEF Waiting
<1> HIDE DEF f, g
<1>2. ASSUME WaitOf(w)' = WaitOf(w) \cup D PROVE Waiting' = Waiting \cup D
  <2>1. g[w] = f[w] \cup D /\ \A v \in Workers \ {w} : g[v] = f[v] BY <1>1, <1>2
  <2>2. UNION {g[v] : v \in Workers} = (UNION {f[v] : v \in Workers}) \cup D
    BY <2>1, UnionGrows
  <2> QED BY <2>2, <1>1, Zenon
<1>3. ASSUME WaitOf(w)' = WaitOf(w) \ D, \A v \in Workers \ {w} : WaitOf(v) \cap D = {}
      PROVE  Waiting' = Waiting \ D
  <2>1. /\ g[w] = f[w] \ D
        /\ \A v \in Workers \ {w} : g[v] = f[v] /\ f[v] \cap D = {}
    BY <1>1, <1>3
  <2>2. UNION {g[v] : v \in Workers} = (UNION {f[v] : v \in Workers}) \ D
    BY <2>1, UnionShrinks
  <2> QED BY <2>2, <1>1, Zenon
<1> QED BY <1>2, <1>3

LEMMA RunningChange ==
  ASSUME NEW w \in Workers, NEW D, \A v \in Workers \ {w} : JobsOf(v)' = JobsOf(v)
  PROVE  /\ JobsOf(w)' = JobsOf(w) \cup D => Running' = Running \cup D
         /\ (JobsOf(w)' = JobsOf(w) \ D /\ \A v \in Workers \ {w} : JobsOf(v) \cap D = {})
              => Running' = Running \ D
<1> DEFINE f == [v \in Workers |-> JobsOf(v)]
           g == [v \in Workers |-> JobsOf(v)']
<1>1. /\ \A v \in Workers : f[v] = JobsOf(v) /\ g[v] = JobsOf(v)'
      /\ Running = UNION {f[v] : v \in Workers} /\ Running' = UNION {g[v] : v \in Workers}
  BY DEF Running
<1> HIDE DEF f, g
<1>2. ASSUME JobsOf(w)' = JobsOf(w) \cup D PROVE Running' = Running \cup D
  <2>1. g[w] = f[w] \cup D /\ \A v \in Workers \ {w} : g[v] = f[v] BY <1>1, <1>2
  <2>2. UNION {g[v] : v \in Workers} = (UNION {f[v] : v \in Workers}) \cup D
    BY <2>1, UnionGrows
  <2> QED BY <2>2, <1>1, Zenon
<1>3. ASSUME JobsOf(w)' = JobsOf(w) \ D, \A v \in Workers \ {w} : JobsOf(v) \cap D = {}
      PROVE  Running' = Running \ D
  <2>1. /\ g[w] = f[w] \ D
        /\ \A v \in Workers \ {w} : g[v] = f[v] /\ f[v] \cap D = {}
    BY <1>1, <1>3
  <2>2. UNION {g[v] : v \in Workers} = (UNION {f[v] : v \in Workers}) \ D
    BY <2>1, UnionShrinks
  <2> QED BY <2>2, <1>1, Zenon
<1> QED BY <1>2, <1>3

LEMMA ReadyChange ==
  ASSUME NEW w \in Workers, NEW D, \A v \in Workers \ {w} : TxOf(v)' = TxOf(v)
  PROVE  /\ TxOf(w)' = TxOf(w) \cup D => Ready' = Ready \cup D
         /\ (TxOf(w)' = TxOf(w) \ D /\ \A v \in Workers \ {w} : TxOf(v) \cap D = {})
              => Ready' = Ready \ D
<1> DEFINE f == [v \in Workers |-> TxOf(v)]
           g == [v \in Workers |-> TxOf(v)']
<1>1. /\ \A v \in Workers : f[v] = TxOf(v) /\ g[v] = TxOf(v)'
      /\ Ready = UNION {f[v] : v \in Workers} /\ Ready' = UNION {g[v] : v \in Workers}
  BY DEF Ready
<1> HIDE DEF f, g
<1>2. ASSUME TxOf(w)' = TxOf(w) \cup D PROVE Ready' = Ready \cup D
  <2>1. g[w] = f[w] \cup D /\ \A v \in Workers \ {w} : g[v] = f[v] BY <1>1, <1>2
  <2>2. UNION {g[v] : v \in Workers} = (UNION {f[v] : v \in Workers}) \cup D
    BY <2>1, UnionGrows
  <2> QED BY <2>2, <1>1, Zenon
<1>3. ASSUME TxOf(w)' = TxOf(w) \ D, \A v \in Workers \ {w} : TxOf(v) \cap D = {}
      PROVE  Ready' = Ready \ D
  <2>1. /\ g[w] = f[w] \ D
        /\ \A v \in Workers \ {w} : g[v] = f[v] /\ f[v] \cap D = {}
    BY <1>1, <1>3
  <2>2. UNION {g[v] : v \in Workers} = (UNION {f[v] : v \in Workers}) \ D
    BY <2>1, UnionShrinks
  <2> QED BY <2>2, <1>1, Zenon
<1> QED BY <1>2, <1>3

LEMMA InvalidGrows ==
  ASSUME NEW w \in Workers, NEW D, \A v \in Workers \ {w} : invalid'[v] = invalid[v],
         invalid'[w] = invalid[w] \cup D
  PROVE  Invalid' = Invalid \cup D
<1> DEFINE f == [v \in Workers |-> invalid[v]]
           g == [v \in Workers |-> invalid'[v]]
<1>1. /\ \A v \in Workers : f[v] = invalid[v] /\ g[v] = invalid'[v]
      /\ Invalid = UNION {f[v] : v \in Workers} /\ Invalid' = UNION {g[v] : v \in Workers}
  BY DEF Invalid
<1> HIDE DEF f, g
<1>2. g[w] = f[w] \cup D /\ \A v \in Workers \ {w} : g[v] = f[v] BY <1>1
<1>3. UNION {g[v] : v \in Workers} = (UNION {f[v] : v \in Workers}) \cup D
  BY <1>2, UnionGrows
<1> QED BY <1>3, <1>1, Zenon

(* Nothing leaves Kept, and what joins it is what joins the share of one.  *)
LEMMA KeptChange ==
  ASSUME NEW w \in Workers, NEW D,
         \A v \in Workers \ {w} : Open(v)' = Open(v) /\ DoneOf(v)' = DoneOf(v),
         (freed \cup leaked \cup Open(w) \cup DoneOf(w))' =
           freed \cup leaked \cup Open(w) \cup DoneOf(w) \cup D,
         freed \cup leaked \subseteq freed' \cup leaked'
  PROVE  Kept' = Kept \cup D
<1>1. \A x : x \in Kept <=> \/ x \in freed \/ x \in leaked
                            \/ \E v \in Workers : x \in Open(v) \/ x \in DoneOf(v)
  BY DEF Kept
<1>2. \A x : x \in Kept' <=> \/ x \in freed' \/ x \in leaked'
                             \/ \E v \in Workers : x \in Open(v)' \/ x \in DoneOf(v)'
  BY DEF Kept
<1>3. ASSUME NEW x \in Kept' PROVE x \in Kept \cup D
  <2>1. CASE x \in freed' \/ x \in leaked' \/ x \in Open(w)' \/ x \in DoneOf(w)'
    <3>1. x \in freed \cup leaked \cup Open(w) \cup DoneOf(w) \cup D BY <2>1
    <3> QED BY <3>1, <1>1
  <2>2. CASE \E v \in Workers \ {w} : x \in Open(v)' \/ x \in DoneOf(v)'
    BY <2>2, <1>1
  <2> QED BY <2>1, <2>2, <1>2
<1>4. ASSUME NEW x, x \in Kept \/ x \in D PROVE x \in Kept'
  <2>1. CASE x \in freed \/ x \in leaked \/ x \in Open(w) \/ x \in DoneOf(w) \/ x \in D
    <3>1. x \in freed' \/ x \in leaked' \/ x \in Open(w)' \/ x \in DoneOf(w)' BY <2>1
    <3> QED BY <3>1, <1>2
  <2>2. CASE \E v \in Workers \ {w} : x \in Open(v) \/ x \in DoneOf(v)
    BY <2>2, <1>2
  <2> QED BY <1>4, <2>1, <2>2, <1>1
<1> QED BY <1>3, <1>4

(* The packets of a worker are no other worker's, and in one place.        *)
LEMMA FatesApart ==
  ASSUME BInv, FInv
  PROVE  /\ \A v, w \in Workers :
              v # w => /\ WaitOf(v) \cap WaitOf(w) = {} /\ JobsOf(v) \cap JobsOf(w) = {}
                       /\ TxOf(v) \cap TxOf(w) = {}
         /\ Waiting \cap Running = {} /\ Waiting \cap Ready = {} /\ Running \cap Ready = {}
         /\ (Waiting \cup Running \cup Ready) \cap (sent \cup unsent) = {}
         /\ Kept \subseteq 1..offered
<1>1. \A v, w \in Workers : v # w => Mine(v) \cap Mine(w) = {} BY DEF BInv
<1>2. \A v \in Workers : /\ WaitOf(v) \subseteq Mine(v) /\ JobsOf(v) \subseteq Mine(v)
                         /\ TxOf(v) \subseteq Mine(v)
  BY DEF WaitOf, Mine, Open
<1>3. \A v \in Workers : /\ WaitOf(v) \cap JobsOf(v) = {} /\ WaitOf(v) \cap TxOf(v) = {}
                         /\ JobsOf(v) \cap TxOf(v) = {}
                         /\ (WaitOf(v) \cup JobsOf(v) \cup TxOf(v)) \cap (sent \cup unsent) = {}
  <2> SUFFICES ASSUME NEW v \in Workers
               PROVE  /\ WaitOf(v) \cap JobsOf(v) = {} /\ WaitOf(v) \cap TxOf(v) = {}
                      /\ JobsOf(v) \cap TxOf(v) = {}
                      /\ (WaitOf(v) \cup JobsOf(v) \cup TxOf(v)) \cap (sent \cup unsent) = {}
    OBVIOUS
  <2>1. Apart(v) /\ Fresh(v) BY DEF BInv, Own
  <2> QED BY <2>1 DEF Apart, Fresh, Open, WaitOf
<1>4. \A x : /\ x \in Waiting <=> \E v \in Workers : x \in WaitOf(v)
             /\ x \in Running <=> \E v \in Workers : x \in JobsOf(v)
             /\ x \in Ready <=> \E v \in Workers : x \in TxOf(v)
  BY DEF Waiting, Running, Ready
<1>5. /\ Waiting \cap Running = {} /\ Waiting \cap Ready = {} /\ Running \cap Ready = {}
      /\ (Waiting \cup Running \cup Ready) \cap (sent \cup unsent) = {}
  BY <1>1, <1>2, <1>3, <1>4
<1>6. Kept \subseteq 1..offered
  <2>1. \A v \in Workers : Open(v) \cup DoneOf(v) \subseteq 1..offered BY DEF BInv, Mine
  <2>2. freed \cup leaked \subseteq 1..offered BY DEF BInv
  <2> QED BY <2>1, <2>2 DEF Kept
<1> QED BY <1>1, <1>2, <1>5, <1>6

(* A step of a worker changes the fates of its packets and no others.      *)
LEMMA FateStep ==
  ASSUME BInv, FInv, NEW w \in Workers, Moves(w)
  PROVE  FInv' /\ PacketMoves /\ Kept' = Kept
<1>1. \A v \in Workers \ {w} : /\ WaitOf(v)' = WaitOf(v) /\ JobsOf(v)' = JobsOf(v)
                               /\ TxOf(v)' = TxOf(v) /\ Open(v)' = Open(v)
                               /\ DoneOf(v)' = DoneOf(v)
  BY StillSame, Zenon DEF Moves, WaitOf
<1>2. \A v \in Workers : Open(v) = WaitOf(v) \cup JobsOf(v)
  BY Zenon DEF Open, WaitOf
<1>3. Open(w)' = WaitOf(w)' \cup JobsOf(w)' BY Zenon DEF Open, WaitOf
<1>4. \A x : /\ x \in WaitOf(w) => x \in Waiting
             /\ x \in JobsOf(w) => x \in Running
             /\ x \in TxOf(w) => x \in Ready
  BY DEF Waiting, Running, Ready
<1>5. \A v \in Workers \ {w} :
        \A D : /\ D \subseteq WaitOf(w) => WaitOf(v) \cap D = {}
               /\ D \subseteq JobsOf(w) => JobsOf(v) \cap D = {}
               /\ D \subseteq TxOf(w) => TxOf(v) \cap D = {}
  <2>1. \A v \in Workers \ {w} :
          /\ WaitOf(v) \cap WaitOf(w) = {} /\ JobsOf(v) \cap JobsOf(w) = {}
          /\ TxOf(v) \cap TxOf(w) = {}
    BY FatesApart
  <2> QED BY <2>1, Zenon
<1>6. /\ sent \cap unsent = {} /\ invalid \in [Workers -> SUBSET Packets]
      /\ Invalid \cap (Waiting \cup Running \cup Ready \cup sent \cup unsent) = {}
      /\ Kept = Waiting \cup Running \cup Ready \cup Invalid \cup sent \cup unsent
  BY DEF FInv
<1>7. /\ Waiting \cap Running = {} /\ Waiting \cap Ready = {} /\ Running \cap Ready = {}
      /\ (Waiting \cup Running \cup Ready) \cap (sent \cup unsent) = {}
  BY FatesApart
<1>8. UNCHANGED invalid => Invalid' = Invalid BY DEF Invalid
<1>9. WaitOf(w)' = WaitOf(w) => Waiting' = Waiting
  <2>1. WaitOf(w)' = WaitOf(w) => WaitOf(w)' = WaitOf(w) \cup {} OBVIOUS
  <2>2. WaitOf(w)' = WaitOf(w) => Waiting' = Waiting \cup {} BY <2>1, <1>1, WaitingChange, Zenon
  <2> QED BY <2>2
<1>10. JobsOf(w)' = JobsOf(w) => Running' = Running
  <2>1. JobsOf(w)' = JobsOf(w) => JobsOf(w)' = JobsOf(w) \cup {} OBVIOUS
  <2>2. JobsOf(w)' = JobsOf(w) => Running' = Running \cup {} BY <2>1, <1>1, RunningChange, Zenon
  <2> QED BY <2>2
<1>11. TxOf(w)' = TxOf(w) => Ready' = Ready
  <2>1. TxOf(w)' = TxOf(w) => TxOf(w)' = TxOf(w) \cup {} OBVIOUS
  <2>2. TxOf(w)' = TxOf(w) => Ready' = Ready \cup {} BY <2>1, <1>1, ReadyChange, Zenon
  <2> QED BY <2>2
<1>12. ASSUME /\ (freed \cup leaked \cup Open(w) \cup DoneOf(w))' =
                 freed \cup leaked \cup Open(w) \cup DoneOf(w)
              /\ freed \cup leaked \subseteq freed' \cup leaked'
       PROVE  Kept' = Kept
  <2>1. (freed \cup leaked \cup Open(w) \cup DoneOf(w))' =
          freed \cup leaked \cup Open(w) \cup DoneOf(w) \cup {}
    BY <1>12
  <2>2. Kept' = Kept \cup {} BY <2>1, <1>1, <1>12, KeptChange, Zenon
  <2> QED BY <2>2
<1>13. CASE MovesNone(w)
  <2>1. /\ WaitOf(w)' = WaitOf(w) /\ JobsOf(w)' = JobsOf(w)
        /\ DoneOf(w)' = DoneOf(w) /\ TxOf(w)' = TxOf(w)
        /\ UNCHANGED <<invalid, freed, leaked, sent, unsent>>
    BY <1>13 DEF MovesNone
  <2>2. UNCHANGED <<Waiting, Running, Ready, Invalid, sent, unsent>>
    BY <2>1, <1>8, <1>9, <1>10, <1>11
  <2>3. Kept' = Kept BY <2>1, <1>2, <1>3, <1>12
  <2>4. FInv' BY <2>1, <2>2, <2>3, <1>6 DEF FInv
  <2> QED BY <2>2, <2>3, <2>4 DEF PacketMoves
<1>14. CASE MovesFinished(w)
  <2>1. /\ WaitOf(w)' = WaitOf(w) /\ UNCHANGED <<invalid, freed, leaked, sent, unsent>>
    BY <1>14 DEF MovesFinished
  <2>2. PICK p \in JobsOf(w) :
          /\ JobsOf(w)' = JobsOf(w) \ {p} /\ DoneOf(w)' = DoneOf(w) \cup {p}
          /\ TxOf(w)' = TxOf(w) \cup {p}
    BY <1>14 DEF MovesFinished
  <2>3. Running' = Running \ {p}
    <3>1. {p} \subseteq JobsOf(w) BY <2>2
    <3>2. \A v \in Workers \ {w} : JobsOf(v) \cap {p} = {} BY <3>1, <1>5, Zenon
    <3>3. JobsOf(w)' = JobsOf(w) \ {p} BY <2>2, Zenon
    <3>4. \A v \in Workers \ {w} : JobsOf(v)' = JobsOf(v) BY <1>1, Zenon
    <3> QED BY <3>2, <3>3, <3>4, RunningChange, Zenon
  <2>4. Ready' = Ready \cup {p} BY <2>2, <1>1, ReadyChange, Zenon
  <2>5. /\ UNCHANGED <<Waiting, Invalid, sent, unsent>> /\ p \in Running
    BY <2>1, <2>2, <1>4, <1>8, <1>9
  <2>6. Kept' = Kept BY <2>1, <2>2, <1>2, <1>3, <1>12
  <2>7. FInv' BY SMTT(30), <2>1, <2>3, <2>4, <2>5, <2>6, <1>6 DEF FInv
  <2>8. PacketMoves BY <2>3, <2>4, <2>5, Zenon DEF PacketMoves
  <2> QED BY <2>6, <2>7, <2>8
<1>15. CASE MovesStarted(w)
  <2>1. /\ DoneOf(w)' = DoneOf(w) /\ TxOf(w)' = TxOf(w)
        /\ UNCHANGED <<invalid, freed, leaked, sent, unsent>>
    BY <1>15 DEF MovesStarted
  <2>2. PICK p \in WaitOf(w) :
          WaitOf(w)' = WaitOf(w) \ {p} /\ JobsOf(w)' = JobsOf(w) \cup {p}
    BY <1>15 DEF MovesStarted
  <2>3. Waiting' = Waiting \ {p}
    <3>1. {p} \subseteq WaitOf(w) BY <2>2
    <3>2. \A v \in Workers \ {w} : WaitOf(v) \cap {p} = {} BY <3>1, <1>5, Zenon
    <3>3. WaitOf(w)' = WaitOf(w) \ {p} BY <2>2, Zenon
    <3>4. \A v \in Workers \ {w} : WaitOf(v)' = WaitOf(v) BY <1>1, Zenon
    <3> QED BY <3>2, <3>3, <3>4, WaitingChange, Zenon
  <2>4. Running' = Running \cup {p} BY <2>2, <1>1, RunningChange, Zenon
  <2>5. /\ UNCHANGED <<Ready, Invalid, sent, unsent>> /\ p \in Waiting
    BY <2>1, <2>2, <1>4, <1>8, <1>11
  <2>6. Kept' = Kept BY <2>1, <2>2, <1>2, <1>3, <1>12
  <2>7. FInv' BY SMTT(30), <2>1, <2>3, <2>4, <2>5, <2>6, <1>6 DEF FInv
  <2>8. PacketMoves BY <2>3, <2>4, <2>5, Zenon DEF PacketMoves
  <2> QED BY <2>6, <2>7, <2>8
<1>16. CASE MovesDiscarded(w)
  <2>1. /\ JobsOf(w)' = JobsOf(w) /\ TxOf(w)' = TxOf(w) /\ UNCHANGED <<freed, sent, unsent>>
    BY <1>16 DEF MovesDiscarded
  <2>2. PICK p \in WaitOf(w) :
          /\ p \in Packets /\ WaitOf(w)' = WaitOf(w) \ {p}
          /\ invalid' = [invalid EXCEPT ![w] = @ \cup {p}]
          /\ \/ DoneOf(w)' = DoneOf(w) /\ leaked' = leaked \cup {p}
             \/ DoneOf(w)' = DoneOf(w) \cup {p} /\ leaked' = leaked
    BY <1>16, Zenon DEF MovesDiscarded
  <2>3. Waiting' = Waiting \ {p}
    <3>1. {p} \subseteq WaitOf(w) BY <2>2
    <3>2. \A v \in Workers \ {w} : WaitOf(v) \cap {p} = {} BY <3>1, <1>5, Zenon
    <3>3. WaitOf(w)' = WaitOf(w) \ {p} BY <2>2, Zenon
    <3>4. \A v \in Workers \ {w} : WaitOf(v)' = WaitOf(v) BY <1>1, Zenon
    <3> QED BY <3>2, <3>3, <3>4, WaitingChange, Zenon
  <2>4. Invalid' = Invalid \cup {p}
    <3>1. /\ invalid'[w] = invalid[w] \cup {p}
          /\ \A v \in Workers \ {w} : invalid'[v] = invalid[v]
      BY <2>2, <1>6
    <3> QED BY <3>1, InvalidGrows, Zenon
  <2>5. /\ UNCHANGED <<Running, Ready, sent, unsent>> /\ p \in Waiting
    BY <2>1, <2>2, <1>4, <1>10, <1>11
  <2>6. Kept' = Kept BY <2>1, <2>2, <1>2, <1>3, <1>12
  <2>7. invalid' \in [Workers -> SUBSET Packets] BY <2>2, <1>6
  <2>8. FInv' BY SMTT(30), <2>3, <2>4, <2>5, <2>6, <2>7, <1>6, <1>7 DEF FInv
  <2>9. PacketMoves BY <2>3, <2>4, <2>5, Zenon DEF PacketMoves
  <2> QED BY <2>6, <2>8, <2>9
<1>17. CASE MovesOut(w)
  <2>1. /\ WaitOf(w)' = WaitOf(w) /\ JobsOf(w)' = JobsOf(w) /\ UNCHANGED <<invalid, leaked>>
        /\ \/ DoneOf(w)' = DoneOf(w) /\ freed' = freed
           \/ DoneOf(w)' = {} /\ freed' = freed \cup DoneOf(w)
    BY <1>17, Zenon DEF MovesOut
  <2>2. UNCHANGED <<Waiting, Running, Invalid>> BY <2>1, <1>8, <1>9, <1>10
  <2>3. Kept' = Kept BY <2>1, <1>2, <1>3, <1>12
  <2>4. \E S, T \in SUBSET Ready :
          /\ S \cap T = {} /\ Ready' = Ready \ (S \cup T)
          /\ sent' = sent \cup S /\ unsent' = unsent \cup T
    <3>1. CASE TxOf(w)' = TxOf(w) /\ UNCHANGED <<sent, unsent>>
      <4>1. Ready' = Ready BY <3>1, <1>11
      <4>2. /\ {} \cap {} = {} /\ Ready' = Ready \ ({} \cup {})
            /\ sent' = sent \cup {} /\ unsent' = unsent \cup {}
        BY <3>1, <4>1
      <4>3. {} \in SUBSET Ready OBVIOUS
      <4> QED BY <4>2, <4>3, Zenon
    <3>2. CASE /\ TxOf(w)' = {}
               /\ \E S \in SUBSET TxOf(w) :
                    sent' = sent \cup S /\ unsent' = unsent \cup (TxOf(w) \ S)
      <4>1. PICK S \in SUBSET TxOf(w) :
              sent' = sent \cup S /\ unsent' = unsent \cup (TxOf(w) \ S)
        BY <3>2
      <4> DEFINE T == TxOf(w) \ S
      <4>2. S \in SUBSET Ready /\ T \in SUBSET Ready /\ S \cap T = {} /\ S \cup T = TxOf(w)
        BY <1>4
      <4>3. TxOf(w)' = TxOf(w) \ TxOf(w) BY <3>2
      <4>4. Ready' = Ready \ TxOf(w) BY SMTT(30), <4>3, <1>1, <1>5, ReadyChange
      <4> QED BY <4>1, <4>2, <4>4, Zenon
    <3> QED BY <1>17, <3>1, <3>2, Zenon DEF MovesOut
  <2>5. PICK S, T \in SUBSET Ready :
          /\ S \cap T = {} /\ Ready' = Ready \ (S \cup T)
          /\ sent' = sent \cup S /\ unsent' = unsent \cup T
    BY <2>4
  <2>6. FInv'
    <3>1. sent' \cap unsent' = {} BY <2>5, <1>6, <1>7
    <3>2. Invalid' \cap (Waiting' \cup Running' \cup Ready' \cup sent' \cup unsent') = {}
      BY <2>2, <2>5, <1>6
    <3>3. Kept' = Waiting' \cup Running' \cup Ready' \cup Invalid' \cup sent' \cup unsent'
      BY <2>2, <2>3, <2>5, <1>6
    <3> QED BY <3>1, <3>2, <3>3, <2>1, <1>6 DEF FInv
  <2>7. PacketMoves BY <2>2, <2>4, Zenon DEF PacketMoves
  <2> QED BY <2>3, <2>6, <2>7
<1> QED BY <1>13, <1>14, <1>15, <1>16, <1>17 DEF Moves

(* The packets a dispatcher puts on the ring of w begin to wait.           *)
LEMMA OfferFate ==
  ASSUME TurnInv, BInv, FInv, NEW w \in Workers, NEW k \in Nat,
         offered + k <= MaxPackets, UNCHANGED workerVars,
         rx_mbuf_dispatch_q' =
           [rx_mbuf_dispatch_q EXCEPT ![w] = @ \o [j \in 1..k |-> offered + j]]
  PROVE  /\ FInv' /\ Kept' = Kept \cup ((offered + 1)..(offered + k))
         /\ Waiting' = Waiting \cup ((offered + 1)..(offered + k))
         /\ UNCHANGED <<Running, Ready, Invalid, sent, unsent>>
<1> DEFINE q == rx_mbuf_dispatch_q[w]
           new == [j \in 1..k |-> offered + j]
           D == (offered + 1)..(offered + k)
<1>0. LoopTypeOK BY DEF TurnInv
<1>1. q \in Seq(Packets) /\ offered \in Nat /\ MaxPackets \in Nat
  <2>1. q \in Seq(Packets) BY <1>0, Types, Zenon
  <2>2. offered \in 0..MaxPackets BY <1>0, Zenon DEF LoopTypeOK
  <2>3. \A n \in Nat : \A m \in 0..n : m \in Nat OBVIOUS
  <2> QED BY <2>1, <2>2, <2>3, Numbers, Zenon
<1>2. new \in Seq(Packets) /\ Range(new) = D
  <2>1. new \in Seq(Packets) BY <1>1 DEF Packets
  <2>2. ASSUME NEW x \in D PROVE x \in Range(new)
    <3>1. x - offered \in 1..k /\ offered + (x - offered) = x BY <1>1
    <3> QED BY <3>1 DEF Range
  <2>3. \A x \in Range(new) : x \in D BY <1>1 DEF Range
  <2> QED BY <2>1, <2>2, <2>3, Zenon
<1>3. /\ rx_mbuf_dispatch_q'[w] = q \o new
      /\ \A v \in Workers \ {w} : rx_mbuf_dispatch_q'[v] = rx_mbuf_dispatch_q[v]
  BY <1>0 DEF LoopTypeOK
<1>4. UNCHANGED <<busy_coros, rx_mbuf, burst, tx_bufs, return_rx_bufs, invalid, freed, leaked,
                  sent, unsent>>
  BY DEF workerVars, coroVars, fateVars
<1>5. D \cap (1..offered) = {} BY <1>1
<1> HIDE DEF new, D
<1>6. RingOf(w)' = RingOf(w) \cup D
  <2> HIDE DEF q
  <2>1. Range(q \o new) = Range(q) \cup Range(new) BY <1>1, <1>2, RangeConcat
  <2> QED BY <2>1, <1>2, <1>3, Zenon DEF RingOf, q
<1>7. \A v \in Workers : /\ BurstOf(v)' = BurstOf(v) /\ JobsOf(v)' = JobsOf(v)
                         /\ DoneOf(v)' = DoneOf(v) /\ TxOf(v)' = TxOf(v)
  BY <1>4 DEF BurstOf, JobsOf, DoneOf, TxOf
<1>8. \A v \in Workers \ {w} : RingOf(v)' = RingOf(v) BY <1>3 DEF RingOf
<1>9. /\ WaitOf(w)' = WaitOf(w) \cup D /\ Open(w)' = Open(w) \cup D
      /\ \A v \in Workers \ {w} : WaitOf(v)' = WaitOf(v) /\ Open(v)' = Open(v)
  BY <1>6, <1>7, <1>8 DEF WaitOf, Open
<1>10. Waiting' = Waiting \cup D BY <1>9, WaitingChange
<1>11. UNCHANGED <<Running, Ready, Invalid, sent, unsent>>
  BY <1>4, <1>7, Zenon DEF Running, Ready, Invalid
<1>12. Kept' = Kept \cup D
  <2>1. (freed \cup leaked \cup Open(w) \cup DoneOf(w))' =
          freed \cup leaked \cup Open(w) \cup DoneOf(w) \cup D
    BY <1>4, <1>7, <1>9
  <2> QED BY <2>1, <1>4, <1>7, <1>9, KeptChange
<1>13. FInv'
  <2>1. Invalid \cap D = {}
    <3>1. Kept \subseteq 1..offered /\ Invalid \subseteq Kept BY FatesApart, Zenon DEF FInv
    <3> QED BY <3>1, <1>5, Zenon
  <2> QED BY <2>1, <1>4, <1>10, <1>11, <1>12 DEF FInv
<1> QED BY <1>10, <1>11, <1>12, <1>13 DEF D

(* A step that leaves the workers and their rings alone.                   *)
LEMMA NoFate ==
  ASSUME FInv, UNCHANGED <<rx_mbuf_dispatch_q, workerVars>>
  PROVE  FInv' /\ Kept' = Kept /\ UNCHANGED <<Waiting, Running, Ready, Invalid, sent, unsent>>
<1>1. UNCHANGED <<rx_mbuf_dispatch_q, busy_coros, rx_mbuf, burst, tx_bufs, return_rx_bufs,
                  invalid, freed, leaked, sent, unsent>>
  BY DEF workerVars, coroVars, fateVars
<1>2. \A v \in Workers : /\ RingOf(v)' = RingOf(v) /\ BurstOf(v)' = BurstOf(v)
                         /\ JobsOf(v)' = JobsOf(v)
                         /\ DoneOf(v)' = DoneOf(v) /\ TxOf(v)' = TxOf(v)
  BY <1>1, Zenon DEF RingOf, BurstOf, JobsOf, DoneOf, TxOf
<1>3. \A v \in Workers : WaitOf(v)' = WaitOf(v) /\ Open(v)' = Open(v)
  BY <1>2 DEF WaitOf, Open
<1>4. UNCHANGED <<Waiting, Running, Ready, Invalid, sent, unsent>>
  BY <1>1, <1>2, <1>3, Zenon DEF Waiting, Running, Ready, Invalid
<1>5. Kept' = Kept BY <1>1, <1>2, <1>3 DEF Kept
<1> QED BY <1>1, <1>4, <1>5 DEF FInv

(* Whatever the workers, the NIC and a dispatcher do, every packet that    *)
(* came on a ring waits, runs, is ready, was answered, lost or rejected,   *)
(* and only one of these.                                                  *)
LEMMA InvariantF == Spec => [](TurnInv /\ NicFits /\ BInv /\ FInv)
<1>1. Init => FInv
  <2> SUFFICES ASSUME Init PROVE FInv OBVIOUS
  <2>1. Range(<<>>) = {} BY DEF Range
  <2>2. /\ freed = {} /\ leaked = {} /\ sent = {} /\ unsent = {}
        /\ \A w \in Workers : /\ rx_mbuf_dispatch_q[w] = <<>> /\ burst[w] = <<>>
                              /\ busy_coros[w] = <<>> /\ return_rx_bufs[w] = <<>>
                              /\ tx_bufs[w] = <<>> /\ invalid[w] = {}
        /\ invalid \in [Workers -> SUBSET Packets]
    BY DEF Init, WorkerInit
  <2>3. \A w \in Workers : /\ RingOf(w) = {} /\ BurstOf(w) = {} /\ JobsOf(w) = {}
                           /\ DoneOf(w) = {} /\ TxOf(w) = {}
    BY <2>1, <2>2, Zenon DEF RingOf, BurstOf, JobsOf, DoneOf, TxOf
  <2>4. /\ Waiting = {} /\ Running = {} /\ Ready = {} /\ Invalid = {}
    <3>1. \A w \in Workers : WaitOf(w) = {} BY <2>3 DEF WaitOf
    <3>2. Waiting = {} BY <3>1 DEF Waiting
    <3>3. Running = {} BY <2>3 DEF Running
    <3>4. Ready = {} BY <2>3 DEF Ready
    <3>5. Invalid = {} BY <2>2 DEF Invalid
    <3> QED BY <3>2, <3>3, <3>4, <3>5
  <2>5. Kept = {} BY SMTT(30), <2>2, <2>3 DEF Kept, Open
  <2> QED BY <2>2, <2>4, <2>5, Zenon DEF FInv
<1>2. TurnInv /\ NicFits /\ BInv /\ FInv /\ [Next]_vars => FInv'
  <2> SUFFICES ASSUME TurnInv, NicFits, BInv, FInv, [Next]_vars PROVE FInv' OBVIOUS
  <2>1. CASE UNCHANGED vars BY <2>1, NoFate DEF vars
  <2>2. ASSUME NEW w \in Workers, NicSends(w) PROVE FInv' BY <2>2, NoFate DEF NicSends
  <2>3. ASSUME NEW w \in Workers, WorkerNext(w) PROVE FInv'
    BY <2>3, WorkerMoves, FateStep
  <2>4. ASSUME NEW w \in Workers, EnvOffer(w) PROVE FInv'
    <3>1. PICK n \in 1..(MaxPackets - offered) :
            \E k \in 0..EnqueueCount(rx_mbuf_dispatch_q[w], DispatchRingSize, n) :
              rx_mbuf_dispatch_q' =
                [rx_mbuf_dispatch_q EXCEPT ![w] = @ \o [j \in 1..k |-> offered + j]]
      BY <2>4, Zenon DEF EnvOffer
    <3>2. PICK k \in 0..EnqueueCount(rx_mbuf_dispatch_q[w], DispatchRingSize, n) :
            rx_mbuf_dispatch_q' =
              [rx_mbuf_dispatch_q EXCEPT ![w] = @ \o [j \in 1..k |-> offered + j]]
      BY <3>1, Zenon
    <3>3. /\ rx_mbuf_dispatch_q[w] \in Seq(Packets) /\ offered \in Nat /\ MaxPackets \in Nat
          /\ DispatchRingSize \in Nat
      <4>1. LoopTypeOK BY DEF TurnInv
      <4>2. rx_mbuf_dispatch_q[w] \in Seq(Packets) BY <4>1, Types
      <4>3. offered \in Nat /\ MaxPackets \in Nat BY SMTT(30), <4>1, Numbers DEF LoopTypeOK
      <4>4. DispatchRingSize \in Nat BY WorkerAssumption
      <4> QED BY <4>2, <4>3, <4>4
    <3>4. k \in Nat /\ offered + k <= MaxPackets
      <4>1. Len(rx_mbuf_dispatch_q[w]) \in Nat BY <3>3
      <4>2. FreeCount(rx_mbuf_dispatch_q[w], DispatchRingSize) \in Int
        BY <4>1, <3>3 DEF FreeCount
      <4>3. /\ EnqueueCount(rx_mbuf_dispatch_q[w], DispatchRingSize, n) \in Int
            /\ EnqueueCount(rx_mbuf_dispatch_q[w], DispatchRingSize, n) <= n
        BY <4>2, <3>3, LesserProperties DEF EnqueueCount
      <4> QED BY <4>3, <3>3
    <3>5. UNCHANGED workerVars BY <2>4 DEF EnvOffer
    <3> QED BY <3>2, <3>4, <3>5, OfferFate, Zenon
  <2> QED BY <2>1, <2>2, <2>3, <2>4 DEF Next
<1> QED BY <1>1, <1>2, InvariantB, PTL DEF Spec

================================================================================
