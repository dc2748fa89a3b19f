-------------------------------- MODULE RteRing --------------------------------
(***************************************************************************)
(* DPDK's rte_ring, single producer and single consumer, as tq_server.cpp  *)
(* uses it.  A ring is the sequence of the objects in it, oldest first.    *)
(* rte_ring_create(size) without RING_F_EXACT_SZ keeps one slot empty, so  *)
(* a ring of size n holds n - 1 objects.  The burst calls move as many     *)
(* objects as fit (or as there are) and return how many that was.          *)
(***************************************************************************)
EXTENDS Integers, Sequences

Lesser(m, n) == IF m <= n THEN m ELSE n

FirstOf(s, n) == SubSeq(s, 1, n)

AllAfter(s, n) == SubSeq(s, n + 1, Len(s))

(* The number of objects the ring still takes.                             *)
FreeCount(ring, size) == size - 1 - Len(ring)

(* What rte_ring_enqueue_burst of n objects returns.                       *)
EnqueueCount(ring, size, n) == Lesser(n, FreeCount(ring, size))

(* What rte_ring_dequeue_burst of at most n objects returns.               *)
DequeueCount(ring, n) == Lesser(n, Len(ring))
================================================================================
