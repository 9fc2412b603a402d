------------------------------- MODULE MCBinary -------------------------------
(****************************************************************************)
(* BinarySystem on a small instance.                                        *)
(****************************************************************************)
EXTENDS BinarySystem

CONSTANTS c1, c2

(* Each load generator with both connections; and with one on which there   *)
(* are several requests in a round, or in flight, also more than the pool   *)
(* has slots for; and a program with a connection of its own.               *)
Programs ==
  {[program |-> "threads", depth |-> 1, conns |-> <<<<c1, c2>>>>],
   [program |-> "threads", depth |-> 2, conns |-> <<<<c1>>>>],
   [program |-> "uring", depth |-> 1, conns |-> <<<<c1, c2>>>>],
   [program |-> "other", depth |-> 2, conns |-> <<<<c1>>>>]}
    \cup [program : {"uring"}, depth : {2, 3}, conns : {<<<<c1>>>>}]
=============================================================================
