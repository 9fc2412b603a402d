------------------------------ MODULE BinaryUring -----------------------------
(****************************************************************************)
(* bench/binary_loadgen_uring.c: one thread that keeps Depth requests on    *)
(* their way on each connection through a ring.  Counts of results are left *)
(* out, and so is the cap on completions in a turn: the next turn may begin *)
(* with some of them left.                                                  *)
(****************************************************************************)
EXTENDS BinaryClient

CONSTANTS
  PoolSize,    \* SEND_POOL_SIZE
  SqSize,      \* RING_ENTRIES
  RecvSize     \* RECV_BUF_SIZE

ASSUME UringAssumption ==
  PoolSize \in Nat \ {0} /\ SqSize \in Nat \ {0} /\ RecvSize \in Nat \ {0}

UringConns == ConnsOf[1]

VARIABLES
  gen,   \* where the program is, its connection, the sends left to submit
  sq,    \* operations prepared
  ring,  \* operations the kernel has
  cq,    \* completions
  free,  \* the stack of free slots of the send pool
  uconn  \* in_flight and rbuf of each connection; whether a send failed,
         \* and whether its recv was given up (deaf)

uringVars == <<gen, sq, ring, cq, free, uconn>>

UringInit ==
  /\ gen = [pc |-> "connect", i |-> 1, left |-> 0]
  /\ sq = <<>> /\ ring = <<>> /\ cq = <<>>
  /\ free = [i \in 1 .. PoolSize |-> i]
  /\ uconn = [c \in Conns |-> [in_flight |-> 0, rbuf |-> <<>>, failed |-> FALSE, deaf |-> FALSE]]

Going(places) == client.program = "uring" /\ gen.pc \in places
It == UringConns[gen.i]
Go(place) == gen' = [gen EXCEPT !.pc = place]

(* io_uring_get_sqe and io_uring_prep: a full queue is submitted first.     *)
(* The kernel takes all of a queue or nothing of it.                        *)
Prepare(op) ==
  IF Len(sq) < SqSize THEN sq' = Append(sq, op) /\ UNCHANGED ring
  ELSE sq' = <<op>> /\ ring' = ring \o sq

(* The queue is full and could not be submitted: there is still no entry.   *)
NoEntry == Failures /\ Len(sq) = SqSize

Send(c, slot) == [op |-> "send", conn |-> c, slot |-> slot, off |-> 0]
Recv(c, off) == [op |-> "recv", conn |-> c, slot |-> 0, off |-> off]

(* The sockets are connected one after the other; one that cannot be ends   *)
(* the program.                                                             *)
uring_connect ==
  /\ Going({"connect"}) /\ UNCHANGED <<sq, ring, cq, free, uconn, clientVars>>
  /\ \/ /\ Connect(It)
        /\ gen' = IF gen.i < Len(UringConns) THEN [gen EXCEPT !.i = @ + 1]
                  ELSE [pc |-> "seed", i |-> 1, left |-> Depth]
     \/ /\ Failures \/ worker \in {"stopped", "aborted"}
        /\ Go("stopped") /\ Closing(Open) /\ UNCHANGED <<backlog, worker, cur, room>>

(* Mutant of alloc_send_slot: the slot is left on the stack.                *)
AllocKept == free # <<>> /\ UNCHANGED free

alloc_send_slot == free # <<>> /\ free' = Front(free)
free_send_slot(slot) ==
  free' = IF Len(free) < PoolSize THEN Append(free, slot) ELSE free

(* Mutant of submit_send: only what found a slot counts as in flight.       *)
SendCounted ==
  /\ Going({"seed", "refill"}) /\ gen.left > 0
  /\ gen' = [gen EXCEPT !.left = @ - 1]
  /\ alloc_send_slot /\ Prepare(Send(It, Last(free)))
  /\ UNCHANGED <<uconn, cq, serverVars, clientVars>>

(* One of the sends that seed or refill a connection.  The request counts   *)
(* as in flight also when there is no slot for it, or no entry and the slot *)
(* is put back, and is not tried again.                                     *)
submit_send ==
  /\ Going({"seed", "refill"}) /\ gen.left > 0
  /\ gen' = [gen EXCEPT !.left = @ - 1]
  /\ \/ /\ alloc_send_slot /\ Prepare(Send(It, Last(free)))
        /\ uconn' = [uconn EXCEPT ![It].in_flight = @ + 1]
     \/ /\ free = <<>> \/ NoEntry
        /\ UNCHANGED <<free, sq, ring>>
        /\ uconn' = [uconn EXCEPT ![It].in_flight = @ + 1, ![It].failed = TRUE]
  /\ UNCHANGED <<cq, serverVars, clientVars>>

(* Mutant of TailOff: a recv starts at the front of the buffer.             *)
TailFront(k) == 0

(* Where a recv puts its bytes.                                             *)
TailOff(k) == IF Len(k.rbuf) >= RecvSize THEN 0 ELSE Len(k.rbuf)

(* A recv for which there is no entry is given up, and nothing is received  *)
(* on the connection any more.                                              *)
Receive(c) ==
  \/ Prepare(Recv(c, TailOff(uconn[c]))) /\ UNCHANGED uconn
  \/ NoEntry /\ uconn' = [uconn EXCEPT ![c].deaf = TRUE] /\ UNCHANGED <<sq, ring>>

submit_recv ==
  /\ Going({"seed", "refill"}) /\ gen.left = 0
  /\ Receive(It)
  /\ gen' = IF gen.pc = "refill" THEN [gen EXCEPT !.pc = "reap"]
            ELSE IF gen.i < Len(UringConns) THEN [gen EXCEPT !.i = @ + 1, !.left = Depth]
            ELSE [gen EXCEPT !.pc = "loop"]
  /\ UNCHANGED <<cq, free, serverVars, clientVars>>

(* The loop: submit, wait for a completion, take what there is.  A call     *)
(* that failed may have submitted nothing; it ends the loop, or, if errno   *)
(* is EINTR, does not.                                                      *)
submit_and_wait ==
  /\ Going({"loop"}) /\ ~g_stop
  /\ \/ Go("wait") /\ ring' = ring \o sq /\ sq' = <<>>
     \/ Failures /\ Go("reap") /\ UNCHANGED <<sq, ring>>
  /\ UNCHANGED <<cq, free, uconn, serverVars, clientVars>>

woken ==
  /\ Going({"wait"}) /\ cq # <<>> /\ Go("reap")
  /\ UNCHANGED <<sq, ring, cq, free, uconn, serverVars, clientVars>>

cq_advance ==
  /\ Going({"reap"}) /\ Go("loop")
  /\ UNCHANGED <<sq, ring, cq, free, uconn, serverVars, clientVars>>

(* What the kernel does to the sockets, which do not block: an operation    *)
(* ends as it is issued, with an error if it found nothing to do.  A send   *)
(* may be cut; on a connection that was closed nothing arrives.             *)
Issue(op, res) ==
  /\ client.program = "uring" /\ gen.pc # "stopped"
  /\ ring # <<>> /\ Head(ring).op = op
  /\ ring' = Tail(ring) /\ cq' = Append(cq, [op |-> Head(ring), res |-> res])

Template == Payload(proto, [x |-> 1, hp |-> Byte - 1])
Packet == Frame(Template)

kernel_send ==
  /\ Issue("send", <<>>)
  /\ LET c == Head(ring).conn
         n == Least(Free(conn[c]), Len(Packet))
         k == Write(Owe(conn[c], Template), SubSeq(Packet, 1, n))
     IN \/ /\ n > 0 /\ conn[c].server # "closed"
           /\ conn' = [conn EXCEPT ![c] = [k EXCEPT !.whole = k.whole /\ n = Len(Packet)]]
           /\ UNCHANGED uconn
        \/ /\ n = 0 \/ conn[c].server = "closed"
           /\ uconn' = [uconn EXCEPT ![c].failed = TRUE] /\ UNCHANGED conn
  /\ UNCHANGED <<gen, sq, free, backlog, worker, cur, room, clientVars>>

Received(op) == Least(Len(conn[op.conn].down), RecvSize - op.off)
kernel_recv ==
  /\ ring # <<>>
  /\ LET op == Head(ring)
     IN /\ Issue("recv", SubSeq(conn[op.conn].down, 1, Received(op)))
        /\ conn' = [conn EXCEPT ![op.conn] = Read(@, Received(op))]
  /\ UNCHANGED <<gen, sq, free, uconn, backlog, worker, cur, room, clientVars>>

(* The completions, in order.                                               *)
Reap(op) ==
  /\ Going({"reap"}) /\ cq # <<>> /\ Head(cq).op.op = op
  /\ cq' = Tail(cq)
  /\ UNCHANGED <<serverVars, clientVars>>

reap_send ==
  /\ Reap("send") /\ free_send_slot(Head(cq).op.slot)
  /\ UNCHANGED <<gen, sq, ring, uconn>>

(* A recv of nothing is submitted again, also at the end of the connection. *)
reap_recv ==
  /\ Reap("recv") /\ UNCHANGED free
  /\ LET c == Head(cq).op.conn
         res == Head(cq).res
     IN \/ /\ res = <<>> /\ Receive(c) /\ UNCHANGED gen
        \/ /\ res # <<>> /\ UNCHANGED <<sq, ring>>
           /\ uconn' = [uconn EXCEPT ![c].rbuf = @ \o res]
           /\ gen' = [pc |-> "drain", left |-> 0,
                      i |-> CHOOSE i \in 1 .. Len(UringConns) : UringConns[i] = c]

(* Each packet of its own type has answered a request, for which another    *)
(* one is to be sent.                                                       *)
Answers(s) == IF s[3] = proto THEN 1 ELSE 0

(* Mutant of Drained: a packet is taken only when more has followed it.     *)
DrainedLate(s) == Incomplete(s) \/ BadLength(s) \/ Len(s) = 2 + Length(s)

Drained(s) == Incomplete(s) \/ BadLength(s)

drain_packets ==
  /\ Going({"drain"}) /\ ~Drained(uconn[It].rbuf)
  /\ LET s == uconn[It].rbuf
     IN /\ uconn' = [uconn EXCEPT ![It].rbuf = Drop(@, 2 + Length(s)),
                                  ![It].in_flight = @ - Answers(s)]
        /\ gen' = [gen EXCEPT !.left = @ + Answers(s)]
  /\ UNCHANGED <<sq, ring, cq, free, serverVars, clientVars>>

refill ==
  /\ Going({"drain"}) /\ Drained(uconn[It].rbuf) /\ Go("refill")
  /\ UNCHANGED <<sq, ring, cq, free, uconn, serverVars, clientVars>>

(* The alarm is set after the seed; it ends a wait.                         *)
on_sigalrm_uring ==
  /\ Going({"loop", "wait", "reap", "drain", "refill"}) /\ ~g_stop /\ g_stop' = TRUE
  /\ Go(IF gen.pc = "wait" THEN "reap" ELSE gen.pc)
  /\ UNCHANGED <<sq, ring, cq, free, uconn, serverVars, client, proto>>

uring_exit ==
  /\ Going({"loop"}) /\ (g_stop \/ Failures) /\ Go("stopped") /\ Closing(Open)
  /\ UNCHANGED <<sq, ring, cq, free, uconn, backlog, worker, cur, room, clientVars>>

UringNext ==
  \/ uring_connect \/ submit_send \/ submit_recv
  \/ submit_and_wait \/ woken \/ cq_advance
  \/ kernel_send \/ kernel_recv
  \/ reap_send \/ reap_recv \/ drain_packets \/ refill
  \/ on_sigalrm_uring \/ uring_exit

----------------------------------------------------------------------------
(* Properties                                                               *)

(* Operations whose completion is yet to be seen, in the order of their     *)
(* submission, and who has the buffers of the send pool.                    *)
Ops == [i \in 1 .. Len(cq) |-> cq[i].op] \o ring \o sq
Holders == free \o [i \in 1 .. Len(Ops) |-> Ops[i].slot]

(* A buffer of the send pool is never reused while a send that was given it *)
(* may still read it, nor is it lost: each slot is on the stack or belongs  *)
(* to one send whose completion has not been seen.                          *)
SlotsExclusive ==
  \A slot \in 1 .. PoolSize :
    \E i \in 1 .. Len(Holders) :
      \A j \in 1 .. Len(Holders) : Holders[j] = slot <=> j = i

(* Each connection has one recv and no more, also after errors and ends,    *)
(* until there is no entry for one in a full queue that cannot be           *)
(* submitted, after which it has none; and the recv was given the place     *)
(* where the bytes already there end: two of them, or one that is early,    *)
(* would write over a reply.                                                *)
Expects(c) ==
  CASE gen.pc \in {"connect", "stopped"} -> FALSE
    [] gen.pc = "seed" -> \E i \in 1 .. gen.i - 1 : UringConns[i] = c
    [] gen.pc \in {"drain", "refill"} -> c # It
    [] OTHER -> TRUE
Receiving(c) == Expects(c) /\ ~uconn[c].deaf
OneRecvAtTail ==
  client.program = "uring" /\ gen.pc # "stopped" =>
    \A c \in Range(UringConns) :
      LET recvs == {i \in 1 .. Len(Ops) : Ops[i].op = "recv" /\ Ops[i].conn = c}
          end == Len(uconn[c].rbuf)
      IN IF Receiving(c)
         THEN \E i \in recvs : recvs = {i} /\ (end < RecvSize => Ops[i].off = end)
         ELSE recvs = {}

(* There is room where a recv is to put its bytes: what is left of the      *)
(* replies once the complete ones are taken never fills the buffer.         *)
RecvHasRoom ==
  client.program = "uring" /\ gen.pc # "stopped" =>
    \A c \in Range(UringConns) : Receiving(c) => Len(uconn[c].rbuf) < RecvSize

(* The sends that the kernel has still to do, and what it has read for c    *)
(* that is still to be reaped.                                              *)
Pending == ring \o sq
Unsent(c) ==
  {i \in 1 .. Len(Pending) : Pending[i].op = "send" /\ Pending[i].conn = c}
Arrived(c) ==
  {i \in 1 .. Len(cq) : cq[i].op.op = "recv" /\ cq[i].op.conn = c}
Got(c) == IF Arrived(c) = {} THEN <<>> ELSE cq[CHOOSE i \in Arrived(c) : TRUE].res

(* The sends to be submitted on c in this seed or refill.                   *)
LeftOf(c) == IF gen.pc \in {"seed", "drain", "refill"} /\ c = It THEN gen.left ELSE 0

(* What in_flight counts is on its way: a send not yet done, a request or   *)
(* reply in the sockets or at the server, or bytes not yet taken as a       *)
(* packet; and it is Depth, but for the sends about to be submitted.  A     *)
(* send that was cut, failed or found no slot or entry breaks this for      *)
(* good, but even then there are never more than Depth.                     *)
InFlightIsReal ==
  client.program = "uring" /\ gen.pc # "stopped" =>
    /\ gen.left \in 0 .. Depth /\ \A c \in Conns : uconn[c].in_flight \in 0 .. Depth
    /\ \A c \in Range(UringConns) :
      conn[c].whole /\ ~uconn[c].failed /\ conn[c].server \in {"backlog", "open"} =>
        LET reply == Len(Owe(NoConn, Template).owed)
        IN /\ reply * uconn[c].in_flight =
                reply * Cardinality(Unsent(c)) + Len(conn[c].owed) + Len(Got(c))
                  + Len(uconn[c].rbuf)
           /\ uconn[c].in_flight + LeftOf(c) \in {0, Depth}
=============================================================================
