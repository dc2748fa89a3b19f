----------------------------- MODULE MCProbedRun ------------------------------
(***************************************************************************)
(* Functions for ProbedRun: the shapes that loop-simplified code is made   *)
(* of, with every choice of a few bodies for their blocks.                 *)
(***************************************************************************)
EXTENDS ProbedRun

Loop(nested, self, iv, init, step, final, blocks) ==
  [nested |-> nested, self |-> self, iv |-> iv, init |-> init, step |-> step,
   final |-> final, blocks |-> blocks]

Free(nested, self, blocks) == Loop(nested, self, FALSE, 0, 1, FALSE, blocks)

Function(succ, bodies, calls, loops) ==
  {[succ |-> succ, body |-> body, calls |-> calls, loops |-> loops] :
     body \in bodies}

Short == <<1>>
Mid == <<1, 5, 1>>
Big == <<5, CommitInterval, 5, 1>>
None(n) == [b \in 1..n |-> 0]

(* A branch that joins again. *)
Diamond ==
  Function(<< <<2, 3>>, <<4>>, <<4>>, <<>> >>,
           [1..4 -> {Short, Mid, Big}], None(4), <<>>)

(* while: header 2, body 3 and 4 with a branch around 4, latch 5. *)
While(loop) ==
  Function(<< <<2>>, <<3, 6>>, <<4, 5>>, <<5>>, <<2>>, <<>> >>,
           {[b \in 1..6 |-> IF b \in {1, 5} THEN Short ELSE g[b]] :
              g \in [{2, 3, 4, 6} -> {Short, Mid, Big}]},
           <<0, 0, 3, 0, 0, 0>>, <<5, 2>> :> loop)

(* Two loops of one block, 2 and 4, one after the other. *)
Sequence(first, second) ==
  Function(<< <<2>>, <<2, 3>>, <<4>>, <<4, 5>>, <<>> >>,
           [1..5 -> {Short, Mid}], None(5),
           (<<2, 2>> :> first) @@ (<<4, 4>> :> second))

(* A nest: outer header 2, preheader 3, inner loop of one block 4, latch 5. *)
NestSelf(outer, inner) ==
  Function(<< <<2>>, <<3, 6>>, <<4>>, <<4, 5>>, <<2>>, <<>> >>,
           {[b \in 1..6 |-> IF b \in {2, 4} THEN g[b] ELSE Short] :
              g \in [{2, 4} -> {Short, <<1, 1, 1>>}]},
           None(6), (<<5, 2>> :> outer) @@ (<<4, 4>> :> inner))

(* A nest: outer header 2, preheader 3, inner loop 4-5, exit and latch 6. *)
Nest(outer, inner) ==
  Function(<< <<2>>, <<3, 7>>, <<4>>, <<5, 6>>, <<4>>, <<2>>, <<>> >>,
           {[b \in 1..7 |-> IF b \in {2, 4, 6} THEN g[b] ELSE Short] :
              g \in [{2, 4, 6} -> {Short, Mid}]},
           None(7), (<<6, 2>> :> outer) @@ (<<5, 4>> :> inner))

MCFunctions ==
  Function(<< <<>> >>, {<<Short>>, <<Mid>>, <<Big>>}, None(1), <<>>)
  \cup Diamond
  \cup UNION {While(l) : l \in {Free(FALSE, FALSE, 2..5),
                                Loop(FALSE, FALSE, TRUE, 3, -1, FALSE, 2..5)}}
  \cup Sequence(Loop(FALSE, TRUE, TRUE, 0, 1, TRUE, {2}),
                 Free(FALSE, TRUE, {4}))
  \cup UNION {NestSelf(Free(FALSE, FALSE, 2..5), l) :
                l \in {Free(TRUE, TRUE, {4}),
                       Loop(TRUE, TRUE, TRUE, 0, 1, FALSE, {4}),
                       Loop(TRUE, TRUE, TRUE, 1, 2, TRUE, {4}),
                       Loop(TRUE, TRUE, TRUE, 6, -1, TRUE, {4})}}
  \cup UNION {Nest(Free(FALSE, FALSE, 2..6), l) :
                l \in {Free(TRUE, FALSE, 4..5),
                       Loop(TRUE, FALSE, TRUE, 0, 2, FALSE, 4..5)}}
================================================================================
