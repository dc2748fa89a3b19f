------------------------------ MODULE JobService ------------------------------
(***************************************************************************)
(* What the server promises its clients, request by request: a request     *)
(* that reaches the server waits, then is dropped, rejected as invalid, or *)
(* runs; one that runs completes, and its response is then given to the    *)
(* network or lost.  Each of these happens once, none of them is undone,   *)
(* and no request takes a path of its own: a dropped or rejected request   *)
(* is never run, a request is never run or answered twice.                 *)
(***************************************************************************)
EXTENDS FiniteSets

CONSTANTS Requests

VARIABLE status

Statuses == {"unseen", "waiting", "dropped", "invalid", "running", "done",
             "answered", "lost"}

Outcomes == {"dropped", "invalid", "answered", "lost"}

Init == status = [r \in Requests |-> "unseen"]

(* A step from statuses s to statuses t moves some requests, all of them   *)
(* from one status to another.                                             *)
Moved(s, t) == {r \in Requests : t[r] # s[r]}

Move(s, t, from, to) == \A r \in Moved(s, t) : s[r] = from /\ t[r] \in to

MoveOne(s, t, from, to) ==
  Move(s, t, from, to) /\ Cardinality(Moved(s, t)) = 1

(* Requests arrive, are dropped and are answered in bursts; the network    *)
(* may refuse a part of a burst of responses.                              *)
Step(s, t) ==
  \/ Move(s, t, "unseen", {"waiting"})
  \/ Move(s, t, "waiting", {"dropped"})
  \/ MoveOne(s, t, "waiting", {"invalid"})
  \/ MoveOne(s, t, "waiting", {"running"})
  \/ MoveOne(s, t, "running", {"done"})
  \/ Move(s, t, "done", {"answered", "lost"})

Next == \E s \in {status}, t \in {status'} :
          t \in [Requests -> Statuses] /\ Step(s, t)

Spec == Init /\ [][Next]_status
================================================================================
