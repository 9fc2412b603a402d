--------------------------- MODULE BinaryUringProofs --------------------------
(****************************************************************************)
(* Proofs about the load generator with the ring: who has the buffers of    *)
(* its send pool, where its recvs put what they read and that there is      *)
(* room, and that what it counts as in flight is.                           *)
(*                                                                          *)
(* The first two rest on one view of the ring: the operations whose         *)
(* completion is to be seen (Ops) are a queue, to which a step prepares     *)
(* one at the end or from which it takes the first, while submission and    *)
(* the kernel move them along inside it.  The others rest on FlowInv: the   *)
(* bytes that were read and those on their way are replies one after the    *)
(* other, no more of them than were asked for.                              *)
(****************************************************************************)
EXTENDS BinaryReplyProofs, FiniteSetTheorems

----------------------------------------------------------------------------
(* Sequences                                                                *)

OpSeq == Seq(Operations)

LEMMA Associates ==
  \A a, b, c \in OpSeq : (a \o b) \o c = a \o (b \o c)
<1>1. ASSUME NEW a \in Seq(Operations), NEW b \in Seq(Operations), NEW c \in Seq(Operations)
      PROVE  (a \o b) \o c = a \o (b \o c)
  OBVIOUS
<1> QED
  BY <1>1 DEF OpSeq

LEMMA OpsGroup == \A a, b, c \in OpSeq : Groups(a, b, c)
BY Associates DEF Groups

LEMMA Joins ==
  \A a, b \in OpSeq : a \o b \in OpSeq
BY ConcatProperties DEF OpSeq

LEMMA JoinsNothing ==
  \A a \in OpSeq : a \o <<>> = a
BY ConcatEmptySeq DEF OpSeq

(* Of three sequences in a row: an element passes from one to the next, is  *)
(* put at the end or taken from the front.                                  *)
LEMMA Single ==
  \A a \in OpSeq, e \in Operations :
    Append(a, e) = a \o <<e>> /\ <<e>> \in OpSeq /\ Append(a, e) \in OpSeq
BY AppendIsConcat, AppendTyped DEF OpSeq

LEMMA AppendJoined ==
  ASSUME NEW a \in OpSeq, NEW b \in OpSeq, NEW c \in OpSeq, NEW e \in Operations
  PROVE  /\ (a \o b) \o Append(c, e) = Append((a \o b) \o c, e)
         /\ (a \o (b \o c)) \o <<e>> = Append((a \o b) \o c, e)
<1> DEFINE d == a \o b
           h == <<e>>
<1>1. d \in OpSeq /\ d \o c \in OpSeq
  BY Joins
<1>2. h \in OpSeq /\ Append(c, e) = c \o h
  BY Single
<1>3. Append(d \o c, e) = (d \o c) \o h
  BY <1>1, Single
<1>4. d \o c = a \o (b \o c)
  <2>1. Groups(a, b, c)
    BY OpsGroup
  <2> QED
    BY <2>1 DEF Groups
<1> HIDE DEF d, h
<1>5. (d \o c) \o h = d \o (c \o h)
  <2>1. Groups(d, c, h)
    BY <1>1, <1>2, OpsGroup
  <2> QED
    BY <2>1 DEF Groups
<1>6. d \o Append(c, e) = Append(d \o c, e) /\ (a \o (b \o c)) \o h = Append(d \o c, e)
  BY <1>2, <1>3, <1>4, <1>5, Zenon
<1> QED
  BY <1>6 DEF d, h

LEMMA HeadBack ==
  ASSUME NEW b \in OpSeq, b # <<>>
  PROVE  Head(b) \in Operations /\ Tail(b) \in OpSeq /\ b = <<Head(b)>> \o Tail(b)
<1> DEFINE h == <<Head(b)>>
           t == Tail(b)
           n == Len(b)
<1>1. /\ Head(b) \in Operations /\ t \in Seq(Operations) /\ n \in Nat \ {0}
      /\ Len(t) = n - 1 /\ \A i \in 1 .. n - 1 : t[i] = b[i + 1]
      /\ b \in Seq(Operations)
  BY HeadTailProperties, EmptySeq DEF OpSeq
<1>2. SubSeq(b, 1, n) = <<b[1]>> \o SubSeq(b, 2, n)
  <2>1. 1 \in 1 .. n /\ n \in 1 .. n /\ 1 + 1 = 2
    BY <1>1
  <2> QED
    BY <2>1, SubSeqRecursiveFirst DEF OpSeq
<1>3. SubSeq(b, 1, n) = b /\ t = SubSeq(b, 2, n) /\ Head(b) = b[1]
  BY SubSeqFull, TailIsSubSeq DEF OpSeq
<1> QED
  BY <1>1, <1>2, <1>3 DEF OpSeq

LEMMA MovedAlong ==
  ASSUME NEW a \in OpSeq, NEW b \in OpSeq, NEW c \in OpSeq, b # <<>>
  PROVE  (Append(a, Head(b)) \o Tail(b)) \o c = (a \o b) \o c
<1> DEFINE h == <<Head(b)>>
           t == Tail(b)
<1>1. Append(a, Head(b)) = a \o h /\ h \in OpSeq /\ t \in OpSeq /\ b = h \o t
  BY HeadBack, Single
<1> HIDE DEF h, t
<1>2. (a \o h) \o t = a \o (h \o t)
  <2>1. Groups(a, h, t)
    BY <1>1, OpsGroup
  <2> QED
    BY <2>1 DEF Groups
<1>3. (Append(a, Head(b)) \o t) \o c = (a \o b) \o c
  BY <1>1, <1>2, Zenon
<1> QED
  BY <1>3 DEF t

TakesFirst(a, b, c) ==
  /\ (Tail(a) \o b) \o c = Tail((a \o b) \o c)
  /\ Head((a \o b) \o c) = Head(a) /\ (a \o b) \o c # <<>>

LEMMA TakenFirst ==
  ASSUME NEW a \in OpSeq, NEW b \in OpSeq, NEW c \in OpSeq, a # <<>>
  PROVE  TakesFirst(a, b, c)
<1>1. ASSUME NEW x \in OpSeq, NEW y \in OpSeq, x # <<>>
      PROVE  Tail(x) \o y = Tail(x \o y) /\ Head(x \o y) = Head(x) /\ x \o y # <<>>
  <2>1. x \in Seq(Operations) /\ y \in Seq(Operations)
    BY DEF OpSeq
  <2>2. Head(x \o y) = Head(x)
    BY <1>1, <2>1
  <2>3. x \o y # <<>>
    BY <1>1, <2>1
  <2>4. Tail(x) \o y = Tail(x \o y)
    BY <1>1, <2>1
  <2> QED
    BY <2>2, <2>3, <2>4
<1>2. PICK d : d = a \o b
  OBVIOUS
<1>3. d \in OpSeq /\ Tail(a) \o b = Tail(d) /\ Head(d) = Head(a) /\ d # <<>>
  BY <1>1, <1>2, Joins
<1>4. Tail(d) \o c = Tail(d \o c) /\ Head(d \o c) = Head(d) /\ d \o c # <<>>
  BY <1>1, <1>3
<1> QED
  BY <1>2, <1>3, <1>4 DEF TakesFirst

----------------------------------------------------------------------------
(* The queue of operations                                                  *)

LEMMA Elements ==
  ASSUME NEW S, NEW s \in Seq(S)
  PROVE  Len(s) \in Nat /\ \A i \in 1 .. Len(s) : s[i] \in S
OBVIOUS

Completions == [op : Operations, res : Bytes]

LEMMA CompletionsTyped ==
  ASSUME UringTypes
  PROVE  /\ cq \in Seq(Completions) /\ Len(cq) \in Nat
         /\ \A i \in 1 .. Len(cq) : cq[i].op \in Operations
<1>1. cq \in Seq(Completions)
  BY DEF UringTypes, Completions
<1>2. Len(cq) \in Nat /\ \A i \in 1 .. Len(cq) : cq[i] \in Completions
  BY <1>1, Elements
<1>3. \A k \in Completions : k.op \in Operations
  BY DEF Completions
<1> QED
  BY <1>1, <1>2, <1>3

(* What the completions not yet taken are of.                               *)
Reported == [i \in 1 .. Len(cq) |-> cq[i].op]

LEMMA OpsTyped ==
  ASSUME UringTypes
  PROVE  /\ Reported \in Seq(Operations) /\ Len(Reported) = Len(cq) /\ Len(cq) \in Nat
         /\ sq \in Seq(Operations) /\ ring \in Seq(Operations)
         /\ Ops = (Reported \o ring) \o sq /\ Ops \in Seq(Operations)
         /\ Reported \in OpSeq /\ sq \in OpSeq /\ ring \in OpSeq /\ Ops \in OpSeq
<1>1. /\ cq \in Seq([op : Operations, res : Bytes])
      /\ sq \in Seq(Operations) /\ ring \in Seq(Operations)
  BY DEF UringTypes
<1>2. Len(cq) \in Nat /\ \A i \in 1 .. Len(cq) : cq[i].op \in Operations
  BY CompletionsTyped
<1>3. Reported \in Seq(Operations) /\ Len(Reported) = Len(cq)
  BY <1>2 DEF Reported
<1>4. Ops = (Reported \o ring) \o sq
  BY DEF Ops, Reported
<1>5. Reported \in OpSeq /\ sq \in OpSeq /\ ring \in OpSeq
  BY <1>1, <1>3 DEF OpSeq
<1>6. Ops \in OpSeq
  BY <1>4, <1>5, Joins
<1> QED
  BY <1>1, <1>2, <1>3, <1>4, <1>5, <1>6 DEF OpSeq

LEMMA PrepareAppends ==
  ASSUME UringTypes, NEW op \in Operations, Prepare(op), cq' = cq
  PROVE  Ops' = Append(Ops, op)
<1>1. Reported' = Reported
  BY DEF Reported
<1>2. Ops' = (Reported \o ring') \o sq'
  BY <1>1 DEF Ops, Reported
<1>3. \/ sq' = Append(sq, op) /\ ring' = ring
      \/ sq' = <<op>> /\ ring' = ring \o sq
  BY DEF Prepare
<1>4. /\ (Reported \o ring) \o Append(sq, op) = Append((Reported \o ring) \o sq, op)
      /\ (Reported \o (ring \o sq)) \o <<op>> = Append((Reported \o ring) \o sq, op)
  <2>1. Reported \in OpSeq /\ ring \in OpSeq /\ sq \in OpSeq
    BY OpsTyped
  <2> QED
    BY <2>1, AppendJoined
<1>5. Ops = (Reported \o ring) \o sq
  BY OpsTyped
<1> QED
  BY <1>2, <1>3, <1>4, <1>5, Zenon

LEMMA SubmitKeepsOps ==
  ASSUME UringTypes, ring' = ring \o sq, sq' = <<>>, cq' = cq
  PROVE  Ops' = Ops
<1>1. Ops' = (Reported \o (ring \o sq)) \o <<>>
  BY DEF Ops, Reported
<1>2. /\ Reported \o (ring \o sq) = (Reported \o ring) \o sq
      /\ (Reported \o ring) \o sq = Ops /\ Ops \in OpSeq
  BY OpsTyped, Associates, Zenon
<1> QED
  BY <1>1, <1>2, JoinsNothing, Zenon

LEMMA IssueKeepsOps ==
  ASSUME UringTypes, NEW op, NEW res, Issue(op, res), sq' = sq
  PROVE  Ops' = Ops
<1>1. /\ ring # <<>> /\ ring' = Tail(ring)
      /\ cq' = Append(cq, [op |-> Head(ring), res |-> res])
  BY DEF Issue
<1>2. Head(ring) \in Operations
  BY <1>1, HeadTyped DEF UringTypes
<1>3. Reported' = Append(Reported, Head(ring))
  <2> DEFINE h == Head(ring)
             n == Len(cq)
  <2>1. cq \in Seq([op : Operations, res : Bytes]) /\ n \in Nat
    BY DEF UringTypes
  <2>2. cq' = Append(cq, [op |-> h, res |-> res])
    BY <1>1
  <2> HIDE DEF h
  <2>3. /\ Len(cq') = n + 1 /\ cq'[n + 1].op = h
        /\ \A i \in 1 .. n : cq'[i] = cq[i]
    BY <2>1, <2>2
  <2>4. Reported' = [i \in 1 .. Len(cq') |-> cq'[i].op]
    BY DEF Reported
  <2>5. /\ Append(Reported, h) \in Seq(Operations) /\ Len(Append(Reported, h)) = n + 1
        /\ Append(Reported, h)[n + 1] = h
        /\ \A i \in 1 .. n : Append(Reported, h)[i] = cq[i].op
    <3>1. Reported \in Seq(Operations) /\ Len(Reported) = n /\ h \in Operations
      BY <1>2, OpsTyped DEF h
    <3>2. \A i \in 1 .. n : Reported[i] = cq[i].op
      BY DEF Reported
    <3> HIDE DEF n
    <3> QED
      BY <2>1, <3>1, <3>2
  <2>6. Reported' \in Seq(Operations) /\ Len(Reported') = n + 1
    <3>1. \A i \in 1 .. n + 1 : cq'[i].op \in Operations
      <4>1. \A i \in 1 .. n : cq[i].op \in Operations
        BY CompletionsTyped
      <4>2. cq'[n + 1].op \in Operations
        BY <1>2, <2>3 DEF h
      <4> HIDE DEF n
      <4>3. \A i \in 1 .. n + 1 : i \in 1 .. n \/ i = n + 1
        BY <2>1
      <4> QED
        BY <2>3, <4>1, <4>2, <4>3
    <3> HIDE DEF n
    <3> QED
      BY <2>1, <2>3, <2>4, <3>1
  <2>7. \A i \in 1 .. n + 1 : Reported'[i] = Append(Reported, h)[i]
    <3> HIDE DEF n
    <3> QED
      BY <2>1, <2>3, <2>4, <2>5
  <2>8. Reported' = Append(Reported, h)
    <3> HIDE DEF n
    <3> QED
      BY <2>1, <2>5, <2>6, <2>7
  <2> QED
    BY <2>8 DEF h
<1>4. Ops' = (Reported' \o ring') \o sq'
  BY DEF Ops, Reported
<1>5. (Append(Reported, Head(ring)) \o Tail(ring)) \o sq = (Reported \o ring) \o sq
  BY <1>1, OpsTyped, MovedAlong, Zenon
<1>6. Ops = (Reported \o ring) \o sq
  BY OpsTyped
<1> QED
  BY <1>1, <1>3, <1>4, <1>5, <1>6, Zenon

LEMMA ReapTakes ==
  ASSUME UringTypes, cq # <<>>, cq' = Tail(cq)
  PROVE  /\ Reported # <<>> /\ Head(Reported) = Head(cq).op
         /\ Reported' = Tail(Reported)
<1> DEFINE n == Len(cq)
<1>1. /\ cq \in Seq([op : Operations, res : Bytes]) /\ n \in Nat \ {0}
      /\ Len(cq') = n - 1 /\ \A i \in 1 .. n - 1 : cq'[i] = cq[i + 1]
      /\ Head(cq) = cq[1]
  BY DEF UringTypes
<1>2. Reported \in Seq(Operations) /\ Len(Reported) = n
  BY OpsTyped
<1>3. \A i \in 1 .. n : Reported[i] = cq[i].op
  BY DEF Reported
<1>4. Reported' = [i \in 1 .. Len(cq') |-> cq'[i].op]
  BY DEF Reported
<1> HIDE DEF n
<1>5. Reported # <<>> /\ Head(Reported) = Head(cq).op
  BY <1>1, <1>2, <1>3
<1>6. /\ Tail(Reported) \in Seq(Operations) /\ Len(Tail(Reported)) = n - 1
      /\ \A i \in 1 .. n - 1 : Tail(Reported)[i] = Reported[i + 1]
  BY <1>1, <1>2, <1>5
<1>7. \A i \in 1 .. n - 1 : Reported'[i] = Tail(Reported)[i]
  BY <1>1, <1>3, <1>4, <1>6
<1>8. Reported' = [i \in 1 .. n - 1 |-> Tail(Reported)[i]]
  BY <1>1, <1>4, <1>7
<1>9. Tail(Reported) = [i \in 1 .. n - 1 |-> Tail(Reported)[i]]
  <2>1. Tail(Reported) \in [1 .. n - 1 -> Operations]
    BY <1>6, LenProperties
  <2> QED
    BY <2>1
<1> QED
  BY <1>5, <1>8, <1>9

(* A completion is taken; in the same step an operation may be prepared.    *)
LEMMA ReapTakesFirst ==
  ASSUME UringTypes, cq # <<>>, cq' = Tail(cq)
  PROVE  /\ Ops # <<>> /\ Head(Ops) = Head(cq).op
         /\ UNCHANGED <<sq, ring>> => Ops' = Tail(Ops)
         /\ \A op \in Operations : Prepare(op) => Ops' = Append(Tail(Ops), op)
<1>1. /\ Reported # <<>> /\ Head(Reported) = Head(cq).op
      /\ Reported' = Tail(Reported)
  BY ReapTakes
<1>2. Reported \in Seq(Operations) /\ Tail(Reported) \in Seq(Operations)
  BY <1>1, OpsTyped
<1>3. Ops' = (Tail(Reported) \o ring') \o sq'
  BY <1>1 DEF Ops, Reported
<1>4. /\ (Tail(Reported) \o ring) \o sq = Tail(Ops)
      /\ Head(Ops) = Head(Reported) /\ Ops # <<>>
  <2>1. /\ (Tail(Reported) \o ring) \o sq = Tail((Reported \o ring) \o sq)
        /\ Head((Reported \o ring) \o sq) = Head(Reported)
        /\ (Reported \o ring) \o sq # <<>>
    <3>1. Reported \in OpSeq /\ ring \in OpSeq /\ sq \in OpSeq
      BY OpsTyped
    <3>2. TakesFirst(Reported, ring, sq)
      BY <1>1, <3>1, TakenFirst
    <3> QED
      BY <3>2 DEF TakesFirst
  <2>2. Ops = (Reported \o ring) \o sq
    BY OpsTyped
  <2> QED
    BY <2>1, <2>2, Zenon
<1>5. ASSUME NEW op \in Operations, Prepare(op)
      PROVE  Ops' = Append(Tail(Ops), op)
  <2>1. \/ sq' = Append(sq, op) /\ ring' = ring
        \/ sq' = <<op>> /\ ring' = ring \o sq
    BY <1>5 DEF Prepare
  <2> DEFINE t == Tail(Reported)
  <2>2. t \in OpSeq
    BY <1>2 DEF OpSeq
  <2> HIDE DEF t
  <2>3. /\ (t \o ring) \o Append(sq, op) = Append((t \o ring) \o sq, op)
        /\ (t \o (ring \o sq)) \o <<op>> = Append((t \o ring) \o sq, op)
    <3>1. ring \in OpSeq /\ sq \in OpSeq
      BY OpsTyped
    <3> QED
      BY <2>2, <3>1, AppendJoined
  <2>4. Ops' = Append((t \o ring) \o sq, op)
    <3>1. Ops' = (t \o ring') \o sq'
      BY <1>3 DEF t
    <3> QED
      BY <2>1, <2>3, <3>1, Zenon
  <2> QED
    BY <1>4, <2>4 DEF t
<1> QED
  BY <1>1, <1>3, <1>4, <1>5

----------------------------------------------------------------------------
(* What each step does to the queue                                         *)

LEMMA OperationFields ==
  ASSUME NEW op \in Operations
  PROVE  /\ op.op \in {"send", "recv"} /\ op.conn \in Range(UringConns)
         /\ op.slot \in 0 .. PoolSize /\ op.off \in 0 .. RecvSize - 1
         /\ op.op = "send" => op.slot \in 1 .. PoolSize
         /\ op.op = "recv" => op.slot = 0
BY UringAssumption DEF Operations

LEMMA OpsUnchanged ==
  ASSUME UNCHANGED <<sq, ring, cq>>
  PROVE  Ops' = Ops
BY DEF Ops

LEMMA OpsKept ==
  ASSUME UringTypes,
         \/ uring_connect \/ submit_and_wait \/ woken \/ cq_advance \/ kernel_send
         \/ kernel_recv \/ drain_packets \/ refill \/ on_sigalrm_uring \/ uring_exit
  PROVE  Ops' = Ops /\ free' = free
<1>1. CASE uring_connect
  BY <1>1, OpsUnchanged DEF uring_connect
<1>2. CASE submit_and_wait
  BY <1>2, SubmitKeepsOps, OpsUnchanged DEF submit_and_wait
<1>3. CASE woken \/ cq_advance
  BY <1>3, OpsUnchanged DEF woken, cq_advance
<1>4. CASE kernel_send
  BY <1>4, IssueKeepsOps DEF kernel_send
<1>5. CASE kernel_recv
  <2>1. PICK res : Issue("recv", res) /\ sq' = sq /\ free' = free
    BY <1>5 DEF kernel_recv
  <2> QED
    BY <2>1, IssueKeepsOps
<1>6. CASE drain_packets \/ refill
  BY <1>6, OpsUnchanged DEF drain_packets, refill
<1>7. CASE on_sigalrm_uring
  BY <1>7, OpsUnchanged DEF on_sigalrm_uring
<1>8. CASE uring_exit
  BY <1>8, OpsUnchanged DEF uring_exit
<1> QED
  BY <1>1, <1>2, <1>3, <1>4, <1>5, <1>6, <1>7, <1>8

(* A connection whose recv is given up keeps what it has.                   *)
LEMMA DeafKeeps ==
  ASSUME TypeInv, NEW d, uconn' = uconn \/ uconn' = [uconn EXCEPT ![d].deaf = TRUE],
         NEW c \in Conns
  PROVE  /\ uconn'[c].rbuf = uconn[c].rbuf /\ uconn'[c].in_flight = uconn[c].in_flight
         /\ uconn'[c].failed = uconn[c].failed
<1>1. uconn \in [Conns -> [in_flight : Int, rbuf : Bytes, failed : BOOLEAN, deaf : BOOLEAN]]
  BY Invs DEF UringTypes
<1>2. CASE uconn' = [uconn EXCEPT ![d].deaf = TRUE]
  BY <1>1, <1>2
<1> QED
  BY <1>2

LEMMA SubmitSendOps ==
  ASSUME TypeInv, submit_send
  PROVE  \/ /\ free # <<>> /\ free' = Front(free) /\ Send(It, Last(free)) \in Operations
            /\ Ops' = Append(Ops, Send(It, Last(free)))
         \/ free' = free /\ Ops' = Ops
<1>1. CASE alloc_send_slot /\ Prepare(Send(It, Last(free)))
  <2>1. free # <<>> /\ free' = Front(free) /\ free \in Seq(1 .. PoolSize)
    BY <1>1, Invs DEF alloc_send_slot, UringTypes
  <2>2. Last(free) \in 1 .. PoolSize
    BY <2>1, LastFront
  <2>3. Send(It, Last(free)) \in Operations
    BY <2>2, Invs, UringFields, SendTyped
  <2>4. cq' = cq
    BY DEF submit_send
  <2> QED
    BY <1>1, <2>1, <2>3, <2>4, Invs, PrepareAppends
<1>2. CASE UNCHANGED <<free, sq, ring>>
  BY <1>2, OpsUnchanged DEF submit_send
<1> QED
  BY <1>1, <1>2 DEF submit_send

LEMMA SubmitRecvOps ==
  ASSUME TypeInv, submit_recv
  PROVE  /\ Recv(It, TailOff(uconn[It])) \in Operations /\ free' = free
         /\ \/ Ops' = Append(Ops, Recv(It, TailOff(uconn[It]))) /\ uconn' = uconn
            \/ Ops' = Ops /\ uconn' = [uconn EXCEPT ![It].deaf = TRUE]
<1>1. Receive(It) /\ cq' = cq /\ free' = free
  BY DEF submit_recv
<1>2. Recv(It, TailOff(uconn[It])) \in Operations
  BY Invs, UringFields, RecvTyped
<1>3. CASE Prepare(Recv(It, TailOff(uconn[It]))) /\ UNCHANGED uconn
  BY <1>1, <1>2, <1>3, Invs, PrepareAppends
<1>4. CASE uconn' = [uconn EXCEPT ![It].deaf = TRUE] /\ UNCHANGED <<sq, ring>>
  BY <1>1, <1>2, <1>4, OpsUnchanged
<1> QED
  BY <1>1, <1>3, <1>4 DEF Receive

LEMMA ReapSendOps ==
  ASSUME TypeInv, reap_send
  PROVE  /\ Ops # <<>> /\ Head(Ops).op = "send" /\ Ops' = Tail(Ops)
         /\ free_send_slot(Head(Ops).slot)
<1>1. /\ cq # <<>> /\ Head(cq).op.op = "send" /\ cq' = Tail(cq)
      /\ free_send_slot(Head(cq).op.slot) /\ UNCHANGED <<sq, ring>>
  BY DEF reap_send, Reap
<1> QED
  BY <1>1, Invs, ReapTakesFirst

LEMMA ReapRecvOps ==
  ASSUME TypeInv, reap_recv
  PROVE  LET c == Head(Ops).conn IN
         /\ Ops # <<>> /\ Head(Ops).op = "recv" /\ c \in Range(UringConns) /\ c \in Conns
         /\ free' = free /\ Going({"reap"}) /\ client' = client
         /\ \/ /\ Recv(c, TailOff(uconn[c])) \in Operations
               /\ Ops' = Append(Tail(Ops), Recv(c, TailOff(uconn[c])))
               /\ UNCHANGED <<gen, uconn>>
            \/ Ops' = Tail(Ops) /\ gen' = gen /\ uconn' = [uconn EXCEPT ![c].deaf = TRUE]
            \/ /\ Ops' = Tail(Ops)
               /\ \E res : uconn' = [uconn EXCEPT ![c].rbuf = @ \o res]
               /\ gen' = [pc |-> "drain", left |-> 0,
                          i |-> CHOOSE i \in 1 .. Len(UringConns) : UringConns[i] = c]
<1> DEFINE c == Head(Ops).conn
<1>1. /\ cq # <<>> /\ Head(cq).op.op = "recv" /\ cq' = Tail(cq) /\ free' = free
      /\ Going({"reap"}) /\ client' = client
  BY DEF reap_recv, Reap, clientVars
<1>2. /\ Ops # <<>> /\ Head(Ops) = Head(cq).op
      /\ UNCHANGED <<sq, ring>> => Ops' = Tail(Ops)
      /\ \A op \in Operations : Prepare(op) => Ops' = Append(Tail(Ops), op)
  BY <1>1, Invs, ReapTakesFirst
<1>3. Ops \in Seq(Operations)
  BY Invs, OpsTyped
<1>4. Head(Ops) \in Operations
  BY <1>2, <1>3, HeadTyped
<1>5. c \in Range(UringConns) /\ c \in Conns
  BY <1>4, OperationFields, Invs, ClientFacts
<1>6. Recv(c, TailOff(uconn[c])) \in Operations
  BY <1>5, Invs, UringFields, RecvTyped
<1>7. \/ Prepare(Recv(c, TailOff(uconn[c]))) /\ UNCHANGED <<gen, uconn>>
      \/ UNCHANGED <<sq, ring, gen>> /\ uconn' = [uconn EXCEPT ![c].deaf = TRUE]
      \/ /\ UNCHANGED <<sq, ring>>
         /\ \E res : uconn' = [uconn EXCEPT ![c].rbuf = @ \o res]
         /\ gen' = [pc |-> "drain", left |-> 0,
                    i |-> CHOOSE i \in 1 .. Len(UringConns) : UringConns[i] = c]
  BY <1>2 DEF reap_recv, Receive
<1> QED
  BY <1>1, <1>2, <1>5, <1>6, <1>7

----------------------------------------------------------------------------
(* The send pool                                                            *)

(* The n slots of f and those of the m operations of o are all slots, each  *)
(* of them once; an operation without a slot has 0.                         *)
Partition(f, n, o, m) ==
  /\ \A i, j \in 1 .. n : f[i] = f[j] => i = j
  /\ \A i, j \in 1 .. m : o[i].slot = o[j].slot => i = j \/ o[i].slot = 0
  /\ \A i \in 1 .. n, j \in 1 .. m : f[i] # o[j].slot
  /\ \A slot \in 1 .. PoolSize :
       (\E i \in 1 .. n : f[i] = slot) \/ (\E j \in 1 .. m : o[j].slot = slot)

(* A slot is taken for a send.                                              *)
LEMMA SlotTaken ==
  ASSUME NEW n \in Nat \ {0}, NEW m \in Nat, NEW f, NEW g, NEW o, NEW p,
         Partition(f, n, o, m), f[n] \in 1 .. PoolSize,
         \A i \in 1 .. n - 1 : g[i] = f[i],
         \A i \in 1 .. m : p[i] = o[i], p[m + 1].slot = f[n]
  PROVE  Partition(g, n - 1, p, m + 1)
<1>1. /\ \A i \in 1 .. n : i \in 1 .. n - 1 \/ i = n
      /\ \A i \in 1 .. n - 1 : i \in 1 .. n /\ i # n
      /\ n \in 1 .. n
      /\ \A i \in 1 .. m + 1 : i \in 1 .. m \/ i = m + 1
      /\ \A i \in 1 .. m : i \in 1 .. m + 1
      /\ m + 1 \in 1 .. m + 1
  OBVIOUS
<1>2. /\ \A i, j \in 1 .. n : f[i] = f[j] => i = j
      /\ \A i, j \in 1 .. m : o[i].slot = o[j].slot => i = j \/ o[i].slot = 0
      /\ \A i \in 1 .. n, j \in 1 .. m : f[i] # o[j].slot
      /\ \A slot \in 1 .. PoolSize :
           (\E i \in 1 .. n : f[i] = slot) \/ (\E j \in 1 .. m : o[j].slot = slot)
  BY DEF Partition
<1>3. \A i, j \in 1 .. n - 1 : g[i] = g[j] => i = j
  BY <1>1, <1>2
<1>4. \A i, j \in 1 .. m + 1 : p[i].slot = p[j].slot => i = j \/ p[i].slot = 0
  BY <1>1, <1>2
<1>5. \A i \in 1 .. n - 1, j \in 1 .. m + 1 : g[i] # p[j].slot
  BY <1>1, <1>2
<1>6. \A slot \in 1 .. PoolSize :
        (\E i \in 1 .. n - 1 : g[i] = slot) \/ (\E j \in 1 .. m + 1 : p[j].slot = slot)
  BY <1>1, <1>2
<1> QED
  BY <1>3, <1>4, <1>5, <1>6 DEF Partition

(* An operation without a slot is prepared.                                 *)
LEMMA NoSlotTaken ==
  ASSUME NEW n \in Nat, NEW m \in Nat, NEW f, NEW o, NEW p,
         Partition(f, n, o, m), \A i \in 1 .. n : f[i] \in 1 .. PoolSize,
         \A i \in 1 .. m : p[i] = o[i], p[m + 1].slot = 0
  PROVE  Partition(f, n, p, m + 1)
<1>1. /\ \A i \in 1 .. m + 1 : i \in 1 .. m \/ i = m + 1
      /\ \A i \in 1 .. m : i \in 1 .. m + 1
      /\ \A i \in 1 .. n : f[i] # 0
  OBVIOUS
<1>2. \A i, j \in 1 .. m + 1 : p[i].slot = p[j].slot => i = j \/ p[i].slot = 0
  BY <1>1 DEF Partition
<1>3. \A i \in 1 .. n, j \in 1 .. m + 1 : f[i] # p[j].slot
  BY <1>1 DEF Partition
<1>4. \A slot \in 1 .. PoolSize :
        (\E i \in 1 .. n : f[i] = slot) \/ (\E j \in 1 .. m + 1 : p[j].slot = slot)
  BY <1>1 DEF Partition
<1> QED
  BY <1>2, <1>3, <1>4 DEF Partition

(* The first operation is done; it had no slot, or its slot is given back.  *)
LEMMA NoSlotGiven ==
  ASSUME NEW n \in Nat, NEW m \in Nat \ {0}, NEW f, NEW o, NEW p,
         Partition(f, n, o, m), o[1].slot = 0,
         \A i \in 1 .. m - 1 : p[i] = o[i + 1]
  PROVE  Partition(f, n, p, m - 1)
<1>1. /\ \A i \in 1 .. m - 1 : i + 1 \in 1 .. m
      /\ \A i, j \in 1 .. m - 1 : i + 1 = j + 1 => i = j
      /\ \A i \in 1 .. m : i = 1 \/ (i - 1 \in 1 .. m - 1 /\ (i - 1) + 1 = i)
      /\ \A slot \in 1 .. PoolSize : slot # 0
  OBVIOUS
<1>2. \A i, j \in 1 .. m - 1 : p[i].slot = p[j].slot => i = j \/ p[i].slot = 0
  BY <1>1 DEF Partition
<1>3. \A i \in 1 .. n, j \in 1 .. m - 1 : f[i] # p[j].slot
  BY <1>1 DEF Partition
<1>4. \A slot \in 1 .. PoolSize :
        (\E i \in 1 .. n : f[i] = slot) \/ (\E j \in 1 .. m - 1 : p[j].slot = slot)
  <2> TAKE slot \in 1 .. PoolSize
  <2>1. CASE \E i \in 1 .. n : f[i] = slot
    BY <2>1
  <2>2. CASE \E j \in 1 .. m : o[j].slot = slot
    <3>1. PICK j \in 1 .. m : o[j].slot = slot
      BY <2>2
    <3>2. j - 1 \in 1 .. m - 1 /\ p[j - 1] = o[j]
      BY <1>1, <3>1
    <3> QED
      BY <3>1, <3>2
  <2> QED
    BY <2>1, <2>2 DEF Partition
<1> QED
  BY <1>2, <1>3, <1>4 DEF Partition

LEMMA SlotGiven ==
  ASSUME NEW n \in Nat, NEW m \in Nat \ {0}, NEW f, NEW g, NEW o, NEW p,
         Partition(f, n, o, m), o[1].slot # 0,
         \A i \in 1 .. n : g[i] = f[i], g[n + 1] = o[1].slot,
         \A i \in 1 .. m - 1 : p[i] = o[i + 1]
  PROVE  Partition(g, n + 1, p, m - 1)
<1>1. /\ \A i \in 1 .. m - 1 : i + 1 \in 1 .. m /\ i + 1 # 1
      /\ \A i, j \in 1 .. m - 1 : i + 1 = j + 1 => i = j
      /\ \A i \in 1 .. m : i = 1 \/ (i - 1 \in 1 .. m - 1 /\ (i - 1) + 1 = i)
      /\ \A i \in 1 .. n + 1 : i \in 1 .. n \/ i = n + 1
      /\ \A i \in 1 .. n : i \in 1 .. n + 1
      /\ n + 1 \in 1 .. n + 1 /\ 1 \in 1 .. m
  OBVIOUS
<1>2. /\ \A i, j \in 1 .. n : f[i] = f[j] => i = j
      /\ \A i, j \in 1 .. m : o[i].slot = o[j].slot => i = j \/ o[i].slot = 0
      /\ \A i \in 1 .. n, j \in 1 .. m : f[i] # o[j].slot
  BY DEF Partition
<1>3. \A i, j \in 1 .. n + 1 : g[i] = g[j] => i = j
  BY <1>1, <1>2
<1>4. \A i, j \in 1 .. m - 1 : p[i].slot = p[j].slot => i = j \/ p[i].slot = 0
  BY <1>1, <1>2
<1>5. \A i \in 1 .. n + 1, j \in 1 .. m - 1 : g[i] # p[j].slot
  BY <1>1, <1>2
<1>6. \A slot \in 1 .. PoolSize :
        (\E i \in 1 .. n + 1 : g[i] = slot) \/ (\E j \in 1 .. m - 1 : p[j].slot = slot)
  <2> TAKE slot \in 1 .. PoolSize
  <2>1. CASE \E i \in 1 .. n : f[i] = slot
    BY <1>1, <2>1
  <2>2. CASE \E j \in 1 .. m : o[j].slot = slot
    <3>1. PICK j \in 1 .. m : o[j].slot = slot
      BY <2>2
    <3>2. CASE j = 1
      BY <1>1, <3>1, <3>2
    <3>3. CASE j # 1
      <4>1. j - 1 \in 1 .. m - 1 /\ p[j - 1] = o[j]
        BY <1>1, <3>1, <3>3
      <4> QED
        BY <3>1, <4>1
    <3> QED
      BY <3>2, <3>3
  <2> QED
    BY <2>1, <2>2 DEF Partition
<1> QED
  BY <1>3, <1>4, <1>5, <1>6 DEF Partition

(* With the first operation's slot in use, the stack has room for it.       *)
LEMMA RoomOnStack ==
  ASSUME NEW n \in Nat, NEW m \in Nat \ {0}, NEW f, NEW o,
         Partition(f, n, o, m), o[1].slot \in 1 .. PoolSize,
         \A i \in 1 .. n : f[i] \in 1 .. PoolSize
  PROVE  n < PoolSize
<1> DEFINE used == o[1].slot
           rest == (1 .. PoolSize) \ {used}
           h == [i \in 1 .. n |-> f[i]]
<1>1. PoolSize \in Nat \ {0}
  BY UringAssumption
<1>2. IsFiniteSet(1 .. PoolSize) /\ Cardinality(1 .. PoolSize) = PoolSize
  <2>1. Cardinality(1 .. PoolSize) = IF 1 > PoolSize THEN 0 ELSE PoolSize - 1 + 1
    BY <1>1, FS_Interval
  <2>2. IsFiniteSet(1 .. PoolSize)
    BY <1>1, FS_Interval
  <2> QED
    BY <1>1, <2>1, <2>2
<1>3. IsFiniteSet(rest) /\ Cardinality(rest) = PoolSize - 1
  <2> DEFINE S == 1 .. PoolSize
  <2>1. IsFiniteSet(S) /\ used \in S /\ Cardinality(S) = PoolSize
    BY <1>2
  <2> HIDE DEF S, used
  <2>2. IsFiniteSet(S \ {used})
    BY <2>1, FS_RemoveElement
  <2>3. Cardinality(S \ {used}) = IF used \in S THEN Cardinality(S) - 1 ELSE Cardinality(S)
    BY <2>1, FS_RemoveElement
  <2> QED
    BY <2>1, <2>2, <2>3 DEF S, used
<1>4. h \in Injection(1 .. n, rest)
  <2>1. 1 \in 1 .. m
    OBVIOUS
  <2>2. \A i \in 1 .. n : f[i] # used
    BY <2>1 DEF Partition
  <2>3. h \in [1 .. n -> rest]
    BY <2>2
  <2>4. \A i, j \in 1 .. n : h[i] = h[j] => i = j
    BY DEF Partition
  <2> QED
    BY <2>3, <2>4 DEF Injection, IsInjective
<1>5. Cardinality(1 .. n) <= Cardinality(rest)
  BY <1>3, <1>4, FS_Injection
<1>6. Cardinality(1 .. n) = n
  <2>1. Cardinality(1 .. n) = IF 1 > n THEN 0 ELSE n - 1 + 1
    BY FS_Interval
  <2> QED
    BY <2>1
<1> QED
  BY <1>1, <1>3, <1>5, <1>6

PoolInv == Partition(free, Len(free), Ops, Len(Ops))

LEMMA PoolTyped ==
  ASSUME UringTypes
  PROVE  /\ free \in Seq(1 .. PoolSize) /\ Len(free) \in Nat
         /\ \A i \in 1 .. Len(free) : free[i] \in 1 .. PoolSize
         /\ Ops \in Seq(Operations) /\ Len(Ops) \in Nat
         /\ \A i \in 1 .. Len(Ops) : Ops[i] \in Operations
<1>1. free \in Seq(1 .. PoolSize) /\ Ops \in Seq(Operations)
  BY OpsTyped DEF UringTypes
<1> QED
  BY <1>1, Elements

LEMMA Appended ==
  ASSUME NEW S, NEW s \in Seq(S), NEW e \in S
  PROVE  /\ Len(Append(s, e)) = Len(s) + 1 /\ Append(s, e)[Len(s) + 1] = e
         /\ \A i \in 1 .. Len(s) : Append(s, e)[i] = s[i]
BY AppendProperties

LEMMA Taken ==
  ASSUME NEW S, NEW s \in Seq(S), s # <<>>
  PROVE  /\ Len(s) \in Nat \ {0} /\ Len(Tail(s)) = Len(s) - 1 /\ Head(s) = s[1]
         /\ \A i \in 1 .. Len(s) - 1 : Tail(s)[i] = s[i + 1]
BY HeadTailProperties, EmptySeq

LEMMA NoOpsAtStart ==
  ASSUME UringInit
  PROVE  Len(Ops) = 0
<1>1. sq = <<>> /\ ring = <<>> /\ cq = <<>>
  BY DEF UringInit
<1>2. Ops = [i \in 1 .. Len(<<>>) |-> cq[i].op] \o <<>> \o <<>>
  BY <1>1 DEF Ops
<1>3. Len([i \in 1 .. Len(<<>>) |-> cq[i].op]) = 0 /\ [i \in 1 .. Len(<<>>) |-> cq[i].op] = <<>>
  OBVIOUS
<1> QED
  BY <1>2, <1>3

LEMMA PoolStarts ==
  ASSUME UringInit
  PROVE  PoolInv
<1>1. /\ sq = <<>> /\ ring = <<>> /\ cq = <<>> /\ free = [i \in 1 .. PoolSize |-> i]
  BY DEF UringInit
<1>2. PoolSize \in Nat /\ Len(free) = PoolSize
  BY <1>1, UringAssumption
<1>3. Len(Ops) = 0
  BY NoOpsAtStart
<1> QED
  BY <1>1, <1>2, <1>3 DEF PoolInv, Partition

LEMMA PoolSame ==
  ASSUME PoolInv, Ops' = Ops, free' = free
  PROVE  PoolInv'
BY DEF PoolInv, Partition

LEMMA SubmitSendPool ==
  ASSUME TypeInv, PoolInv, submit_send
  PROVE  PoolInv'
<1>1. CASE /\ free # <<>> /\ free' = Front(free) /\ Send(It, Last(free)) \in Operations
           /\ Ops' = Append(Ops, Send(It, Last(free)))
  <2> DEFINE n == Len(free)
             m == Len(Ops)
             op == Send(It, Last(free))
  <2>1. /\ n \in Nat \ {0} /\ Last(free) = free[n] /\ Len(free') = n - 1
        /\ \A i \in 1 .. n - 1 : free'[i] = free[i]
    BY <1>1, Invs, PoolTyped, LastFront
  <2>2. /\ m \in Nat /\ Len(Ops') = m + 1 /\ Ops'[m + 1] = op
        /\ \A i \in 1 .. m : Ops'[i] = Ops[i]
    BY <1>1, Invs, PoolTyped, Appended
  <2>3. op.slot = free[n] /\ free[n] \in 1 .. PoolSize
    BY <2>1, Invs, PoolTyped DEF Send
  <2>4. Partition(free, n, Ops, m)
    BY DEF PoolInv
  <2> HIDE DEF n, m, op
  <2>5. Partition(free', n - 1, Ops', m + 1)
    BY <2>1, <2>2, <2>3, <2>4, SlotTaken
  <2> QED
    BY <2>1, <2>2, <2>5 DEF PoolInv, Partition
<1> QED
  BY <1>1, SubmitSendOps, PoolSame

LEMMA SubmitRecvPool ==
  ASSUME TypeInv, PoolInv, submit_recv
  PROVE  PoolInv'
<1> DEFINE n == Len(free)
           m == Len(Ops)
           op == Recv(It, TailOff(uconn[It]))
<1> SUFFICES ASSUME Ops' = Append(Ops, op)
             PROVE  PoolInv'
  BY SubmitRecvOps, PoolSame
<1>1. free' = free /\ Ops' = Append(Ops, op) /\ op \in Operations
  BY SubmitRecvOps
<1>2. op.slot = 0
  BY DEF Recv
<1> HIDE DEF op
<1>3. /\ m \in Nat /\ Len(Ops') = m + 1 /\ Ops'[m + 1] = op
      /\ \A i \in 1 .. m : Ops'[i] = Ops[i]
  BY <1>1, Invs, PoolTyped, Appended
<1>4. n \in Nat /\ \A i \in 1 .. n : free[i] \in 1 .. PoolSize
  BY Invs, PoolTyped
<1>5. Partition(free, n, Ops, m) /\ Len(free') = n
  BY <1>1 DEF PoolInv
<1> HIDE DEF n, m
<1>6. Partition(free, n, Ops', m + 1)
  BY <1>2, <1>3, <1>4, <1>5, NoSlotTaken
<1> QED
  BY <1>1, <1>3, <1>5, <1>6 DEF PoolInv, Partition

LEMMA ReapSendPool ==
  ASSUME TypeInv, PoolInv, reap_send
  PROVE  PoolInv'
<1> DEFINE n == Len(free)
           m == Len(Ops)
           slot == Head(Ops).slot
<1>1. /\ Ops # <<>> /\ Head(Ops).op = "send" /\ Ops' = Tail(Ops)
      /\ free_send_slot(slot)
  BY ReapSendOps
<1>2. /\ m \in Nat \ {0} /\ Len(Ops') = m - 1 /\ Head(Ops) = Ops[1]
      /\ \A i \in 1 .. m - 1 : Ops'[i] = Ops[i + 1]
  BY <1>1, Invs, PoolTyped, Taken
<1>3. slot \in 1 .. PoolSize
  <2>1. Ops[1] \in Operations
    BY <1>2, Invs, PoolTyped
  <2> QED
    BY <1>1, <1>2, <2>1, OperationFields
<1>4. slot = Ops[1].slot
  BY <1>2
<1>5. /\ n \in Nat /\ free \in Seq(1 .. PoolSize)
      /\ \A i \in 1 .. n : free[i] \in 1 .. PoolSize
  BY Invs, PoolTyped
<1>6. Partition(free, n, Ops, m)
  BY DEF PoolInv
<1> HIDE DEF m, slot
<1>7. n < PoolSize
  <2> HIDE DEF n
  <2> QED
    BY <1>2, <1>3, <1>4, <1>5, <1>6, RoomOnStack
<1>8. free' = Append(free, slot)
  BY <1>1, <1>7 DEF free_send_slot
<1>9. /\ Len(free') = n + 1 /\ free'[n + 1] = slot
      /\ \A i \in 1 .. n : free'[i] = free[i]
  BY <1>3, <1>5, <1>8, Appended
<1>10. Partition(free', n + 1, Ops', m - 1)
  <2>1. slot # 0
    BY <1>3
  <2> HIDE DEF n
  <2> QED
    BY <1>2, <1>4, <1>5, <1>6, <1>9, <2>1, SlotGiven
<1> HIDE DEF n
<1> QED
  BY <1>2, <1>9, <1>10 DEF PoolInv, Partition

LEMMA ReapRecvPool ==
  ASSUME TypeInv, PoolInv, reap_recv
  PROVE  PoolInv'
<1> DEFINE n == Len(free)
           m == Len(Ops)
           c == Head(Ops).conn
           op == Recv(c, TailOff(uconn[c]))
           rest == Tail(Ops)
<1>1. /\ Ops # <<>> /\ Head(Ops).op = "recv" /\ free' = free
      /\ \/ op \in Operations /\ Ops' = Append(rest, op)
         \/ Ops' = rest
  BY ReapRecvOps
<1>2. /\ m \in Nat \ {0} /\ Len(rest) = m - 1 /\ Head(Ops) = Ops[1]
      /\ \A i \in 1 .. m - 1 : rest[i] = Ops[i + 1]
      /\ rest \in Seq(Operations)
  BY <1>1, Invs, PoolTyped, Taken, HeadTyped
<1>3. Ops[1].slot = 0
  <2>1. Ops[1] \in Operations
    BY <1>2, Invs, PoolTyped
  <2> QED
    BY <1>1, <1>2, <2>1, OperationFields
<1>4. n \in Nat /\ \A i \in 1 .. n : free[i] \in 1 .. PoolSize
  BY Invs, PoolTyped
<1>5. Partition(free, n, Ops, m) /\ Len(free') = n
  BY <1>1 DEF PoolInv
<1>6. op.slot = 0
  BY DEF Recv
<1> HIDE DEF n, m, op, rest
<1>7. Partition(free, n, rest, m - 1)
  BY <1>2, <1>3, <1>4, <1>5, NoSlotGiven
<1>8. CASE Ops' = rest
  <2>1. free' = free /\ Len(free') = n /\ Ops' = rest /\ Len(Ops') = m - 1
    BY <1>1, <1>2, <1>5, <1>8
  <2>2. Partition(free', Len(free'), Ops', Len(Ops'))
    BY <1>7, <2>1
  <2> QED
    BY <2>2 DEF PoolInv, Partition
<1>9. CASE op \in Operations /\ Ops' = Append(rest, op)
  <2> DEFINE k == m - 1
  <2>1. k \in Nat /\ Len(rest) = k
    BY <1>2
  <2>2. /\ Len(Ops') = k + 1 /\ Ops'[k + 1] = op
        /\ \A i \in 1 .. k : Ops'[i] = rest[i]
    BY <1>2, <1>9, <2>1, Appended
  <2>3. Partition(free, n, rest, k)
    BY <1>7
  <2> HIDE DEF k
  <2>4. Partition(free, n, Ops', k + 1)
    BY <1>4, <1>6, <2>1, <2>2, <2>3, NoSlotTaken
  <2> QED
    BY <1>1, <1>5, <2>2, <2>4 DEF PoolInv, Partition
<1> QED
  BY <1>1, <1>8, <1>9

LEMMA PoolKept ==
  ASSUME TypeInv, PoolInv, [Next]_vars
  PROVE  PoolInv'
<1>1. CASE UNCHANGED uringVars
  <2>1. free' = free /\ Ops' = Ops
    BY <1>1, OpsUnchanged DEF uringVars
  <2> QED
    BY <2>1, PoolSame
<1>2. CASE UringNext
  <2>1. \/ submit_send \/ submit_recv \/ reap_send \/ reap_recv
        \/ \/ uring_connect \/ submit_and_wait \/ woken \/ cq_advance \/ kernel_send
           \/ kernel_recv \/ drain_packets \/ refill \/ on_sigalrm_uring \/ uring_exit
    BY <1>2 DEF UringNext
  <2> QED
    BY <2>1, Invs, OpsKept, PoolSame, SubmitSendPool, SubmitRecvPool, ReapSendPool, ReapRecvPool
<1> QED
  BY <1>1, <1>2 DEF Next, vars, OtherNext, other_connect, Other, other_asks, other_writes,
     other_reads, other_closes

(* A buffer of the send pool is on the stack or with one send that is under *)
(* way: none is lost, none is given out twice.                              *)
THEOREM SlotsExclusiveHolds == Spec => []SlotsExclusive
<1>1. Init => PoolInv
  BY PoolStarts DEF Init
<1>2. TypeInv /\ PoolInv /\ [Next]_vars => PoolInv'
  BY PoolKept
<1>3. ASSUME TypeInv, PoolInv
      PROVE  SlotsExclusive
  <2> DEFINE n == Len(free)
             m == Len(Ops)
             held == [i \in 1 .. m |-> Ops[i].slot]
  <2>1. /\ n \in Nat /\ m \in Nat /\ free \in Seq(1 .. PoolSize)
        /\ \A i \in 1 .. m : Ops[i] \in Operations
    BY <1>3, Invs, PoolTyped
  <2>2. held \in Seq(0 .. PoolSize) /\ Len(held) = m /\ free \in Seq(0 .. PoolSize)
    <3>1. \A i \in 1 .. m : Ops[i].slot \in 0 .. PoolSize
      BY <2>1, OperationFields
    <3>2. free \in Seq(0 .. PoolSize)
      <4>1. (1 .. PoolSize) \subseteq 0 .. PoolSize
        OBVIOUS
      <4> DEFINE S == 1 .. PoolSize
                 T == 0 .. PoolSize
      <4>2. free \in Seq(S) /\ \A i \in 1 .. Len(free) : free[i] \in T
        BY <1>3, <4>1, Invs, PoolTyped
      <4> HIDE DEF S, T
      <4>3. free \in Seq(T)
        BY <4>2, SeqMonotonic
      <4> QED
        BY <4>3 DEF T
    <3> HIDE DEF m
    <3> QED
      BY <2>1, <3>1, <3>2
  <2>3. Holders = free \o held
    BY DEF Holders
  <2>4. \A i \in 1 .. m : held[i] = Ops[i].slot
    OBVIOUS
  <2>5. Partition(free, n, Ops, m)
    BY <1>3 DEF PoolInv
  <2>6. free \o held \in Seq(0 .. PoolSize) /\ Len(free \o held) = Len(free) + Len(held)
        /\ \A i \in 1 .. Len(free) + Len(held) :
             (free \o held)[i] = IF i <= Len(free) THEN free[i] ELSE held[i - Len(free)]
    BY <2>2, ConcatProperties
  <2> HIDE DEF held
  <2>7. /\ Len(Holders) = n + m
        /\ \A i \in 1 .. n + m : Holders[i] = IF i <= n THEN free[i] ELSE held[i - n]
    BY <2>2, <2>3, <2>6
  <2> HIDE DEF n, m
  <2>8. /\ \A i \in 1 .. n : i \in 1 .. n + m /\ Holders[i] = free[i]
        /\ \A j \in 1 .. m : n + j \in 1 .. n + m /\ Holders[n + j] = Ops[j].slot
        /\ \A i \in 1 .. n + m : i \in 1 .. n \/ (i - n \in 1 .. m /\ n + (i - n) = i)
    BY <2>1, <2>4, <2>7
  <2>9. ASSUME NEW slot \in 1 .. PoolSize
        PROVE  \E i \in 1 .. n + m : \A j \in 1 .. n + m : Holders[j] = slot <=> j = i
    <3>1. CASE \E i \in 1 .. n : free[i] = slot
      <4>1. PICK i \in 1 .. n : free[i] = slot
        BY <3>1
      <4>2. i \in 1 .. n + m /\ Holders[i] = slot
        BY <2>8, <4>1
      <4>3. ASSUME NEW j \in 1 .. n + m, Holders[j] = slot
            PROVE  j = i
        BY <2>5, <2>8, <4>1, <4>3 DEF Partition
      <4> QED
        BY <4>2, <4>3
    <3>2. CASE \E k \in 1 .. m : Ops[k].slot = slot
      <4>1. PICK k \in 1 .. m : Ops[k].slot = slot
        BY <3>2
      <4>2. n + k \in 1 .. n + m /\ Holders[n + k] = slot /\ slot # 0
        BY <2>8, <4>1
      <4>3. ASSUME NEW j \in 1 .. n + m, Holders[j] = slot
            PROVE  j = n + k
        <5>1. j \in 1 .. n => FALSE
          BY <2>5, <2>8, <4>1, <4>3 DEF Partition
        <5>2. j - n \in 1 .. m /\ n + (j - n) = j
          BY <2>8, <5>1
        <5>3. Ops[j - n].slot = slot
          BY <2>8, <4>3, <5>2
        <5>4. j - n = k
          BY <2>5, <4>1, <4>2, <5>2, <5>3 DEF Partition
        <5> QED
          BY <5>2, <5>4
      <4> QED
        BY <4>2, <4>3
    <3> QED
      BY <2>5, <3>1, <3>2 DEF Partition
  <2> QED
    BY <2>7, <2>9 DEF SlotsExclusive
<1> QED
  BY <1>1, <1>2, <1>3, TypeInvHolds, PTL DEF Spec

----------------------------------------------------------------------------
(* The recv of a connection                                                 *)

IsRecv(op, c) == op.op = "recv" /\ op.conn = c

(* Of the m operations of o, one is a recv of c, which is to put its bytes  *)
(* at end; or none is.                                                      *)
One(o, m, c, end) ==
  \E i \in 1 .. m : /\ \A j \in 1 .. m : IsRecv(o[j], c) <=> j = i
                    /\ end < RecvSize => o[i].off = end
Nobody(o, m, c) == \A j \in 1 .. m : ~IsRecv(o[j], c)

LEMMA OtherPrepared ==
  ASSUME NEW m \in Nat, NEW o, NEW p, NEW c, NEW end,
         \A i \in 1 .. m : p[i] = o[i], ~IsRecv(p[m + 1], c)
  PROVE  /\ One(o, m, c, end) => One(p, m + 1, c, end)
         /\ Nobody(o, m, c) => Nobody(p, m + 1, c)
<1>1. /\ \A i \in 1 .. m + 1 : i \in 1 .. m \/ i = m + 1
      /\ \A i \in 1 .. m : i \in 1 .. m + 1 /\ i # m + 1
  OBVIOUS
<1> QED
  BY <1>1 DEF One, Nobody

LEMMA OwnPrepared ==
  ASSUME NEW m \in Nat, NEW o, NEW p, NEW c, NEW end,
         \A i \in 1 .. m : p[i] = o[i], IsRecv(p[m + 1], c), Nobody(o, m, c),
         end < RecvSize => p[m + 1].off = end
  PROVE  One(p, m + 1, c, end)
<1>1. /\ \A i \in 1 .. m + 1 : i \in 1 .. m \/ i = m + 1
      /\ \A i \in 1 .. m : i # m + 1
      /\ m + 1 \in 1 .. m + 1
  OBVIOUS
<1> QED
  BY <1>1 DEF One, Nobody

LEMMA OtherTaken ==
  ASSUME NEW m \in Nat \ {0}, NEW o, NEW p, NEW c, NEW end,
         \A i \in 1 .. m - 1 : p[i] = o[i + 1], ~IsRecv(o[1], c)
  PROVE  /\ One(o, m, c, end) => One(p, m - 1, c, end)
         /\ Nobody(o, m, c) => Nobody(p, m - 1, c)
<1>1. /\ \A i \in 1 .. m - 1 : i + 1 \in 1 .. m
      /\ \A i, j \in 1 .. m - 1 : i + 1 = j + 1 <=> i = j
      /\ \A i \in 1 .. m : i = 1 \/ (i - 1 \in 1 .. m - 1 /\ (i - 1) + 1 = i)
  OBVIOUS
<1>2. Nobody(o, m, c) => Nobody(p, m - 1, c)
  BY <1>1 DEF Nobody
<1>3. ASSUME One(o, m, c, end)
      PROVE  One(p, m - 1, c, end)
  <2>1. PICK i \in 1 .. m : /\ \A j \in 1 .. m : IsRecv(o[j], c) <=> j = i
                            /\ end < RecvSize => o[i].off = end
    BY <1>3 DEF One
  <2> DEFINE k == i - 1
  <2>2. k \in 1 .. m - 1 /\ k + 1 = i
    BY <1>1, <2>1
  <2> HIDE DEF k
  <2>3. \A j \in 1 .. m - 1 : IsRecv(p[j], c) <=> j = k
    BY <1>1, <2>1, <2>2
  <2>4. end < RecvSize => p[k].off = end
    BY <2>1, <2>2
  <2> QED
    BY <2>2, <2>3, <2>4 DEF One
<1> QED
  BY <1>2, <1>3

LEMMA OwnTaken ==
  ASSUME NEW m \in Nat \ {0}, NEW o, NEW p, NEW c, NEW end,
         \A i \in 1 .. m - 1 : p[i] = o[i + 1], IsRecv(o[1], c), One(o, m, c, end)
  PROVE  Nobody(p, m - 1, c)
<1>1. \A i \in 1 .. m - 1 : i + 1 \in 1 .. m /\ i + 1 # 1
  OBVIOUS
<1>2. 1 \in 1 .. m
  OBVIOUS
<1> QED
  BY <1>1, <1>2 DEF One, Nobody

(* Only a connection that had a recv, or was given one, can have lost it.   *)
OneOrNobody(c) ==
  /\ uconn[c].deaf => Expects(c)
  /\ IF Receiving(c) THEN One(Ops, Len(Ops), c, Len(uconn[c].rbuf)) ELSE Nobody(Ops, Len(Ops), c)

RecvInv ==
  client.program = "uring" /\ gen.pc # "stopped" => \A c \in Range(UringConns) : OneOrNobody(c)

LEMMA Fixed ==
  ASSUME client' = client
  PROVE  UringConns' = UringConns /\ Range(UringConns)' = Range(UringConns) /\ Depth' = Depth
BY DEF UringConns, ConnsOf, Depth, Range

(* No connection is twice in the list.                                      *)
LEMMA ConnsDistinct ==
  ASSUME ClientTypes
  PROVE  /\ \A i, j \in DOMAIN UringConns : UringConns[i] = UringConns[j] => i = j
         /\ UringConns \in Seq(Conns) /\ Len(UringConns) \in Nat
         /\ DOMAIN UringConns = 1 .. Len(UringConns)
<1>1. /\ \A t, u \in DOMAIN client.conns :
           \A i \in DOMAIN client.conns[t], j \in DOMAIN client.conns[u] :
             client.conns[t][i] = client.conns[u][j] => t = u /\ i = j
      /\ 1 \in DOMAIN client.conns
  BY ClientAssumption, ClientFacts DEF ClientTypes, ConnsOf
<1>2. UringConns \in Seq(Conns)
  BY ClientFacts
<1> QED
  BY <1>1, <1>2 DEF UringConns, ConnsOf

(* A step that leaves the queue alone, and of the buffers those that a recv *)
(* is to write to.                                                          *)
LEMMA RecvSame ==
  ASSUME RecvInv, client' = client, Ops' = Ops, gen.pc # "stopped",
         \A c \in Range(UringConns) :
           /\ Expects(c)' <=> Expects(c)
           /\ uconn'[c].deaf = uconn[c].deaf
           /\ Expects(c) => uconn'[c].rbuf = uconn[c].rbuf
  PROVE  RecvInv'
<1>1. Range(UringConns)' = Range(UringConns)
  BY Fixed
<1> QED
  BY <1>1 DEF RecvInv, OneOrNobody, Receiving

LEMMA ConnectRecv ==
  ASSUME TypeInv, RecvInv, uring_connect
  PROVE  RecvInv'
<1>1. /\ Ops' = Ops /\ client' = client /\ gen.pc = "connect" /\ uconn' = uconn
  BY Invs, OpsKept DEF uring_connect, Going, clientVars
<1>2. CASE gen'.pc = "stopped"
  BY <1>2 DEF RecvInv
<1>3. CASE gen'.pc = "connect"
  BY <1>1, <1>3, RecvSame DEF Expects
<1>4. CASE gen'.pc = "seed" /\ gen'.i = 1
  <2>1. \A c : ~Expects(c) /\ ~Expects(c)'
    BY <1>1, <1>4 DEF Expects
  <2> QED
    BY <1>1, <2>1, RecvSame
<1>5. gen \in GenRecords
  BY Invs, UringFields
<1> QED
  BY <1>1, <1>2, <1>3, <1>4, <1>5 DEF uring_connect, Go, GenRecords

LEMMA LoopRecv ==
  ASSUME TypeInv, RecvInv, submit_and_wait \/ woken \/ cq_advance \/ refill
  PROVE  RecvInv'
<1>1. Ops' = Ops /\ client' = client /\ uconn' = uconn /\ gen \in GenRecords
  BY Invs, OpsKept, UringFields DEF submit_and_wait, woken, cq_advance, refill, clientVars
<1>2. \/ gen.pc \in {"loop", "wait", "reap"} /\ gen'.pc \in {"loop", "wait", "reap"}
      \/ gen.pc = "drain" /\ gen'.pc = "refill" /\ gen'.i = gen.i
  BY <1>1 DEF submit_and_wait, woken, cq_advance, refill, Going, Go, GenRecords
<1>3. UringConns' = UringConns
  BY <1>1, Fixed
<1>4. \A c : Expects(c)' <=> Expects(c)
  BY <1>2, <1>3 DEF Expects, It
<1>5. gen.pc # "stopped"
  BY <1>2
<1> QED
  BY <1>1, <1>4, <1>5, RecvSame

LEMMA KernelRecv ==
  ASSUME TypeInv, RecvInv, kernel_send \/ kernel_recv
  PROVE  RecvInv'
<1>1. Ops' = Ops /\ client' = client /\ gen' = gen
  BY Invs, OpsKept DEF kernel_send, kernel_recv, clientVars
<1>2. gen.pc # "stopped"
  BY DEF kernel_send, kernel_recv, Issue
<1>3. \A c \in Conns : uconn'[c].rbuf = uconn[c].rbuf /\ uconn'[c].deaf = uconn[c].deaf
  <2>1. CASE uconn' = uconn
    BY <2>1
  <2>2. CASE \E d : uconn' = [uconn EXCEPT ![d].failed = TRUE]
    <3>1. uconn \in [Conns -> [in_flight : Int, rbuf : Bytes, failed : BOOLEAN, deaf : BOOLEAN]]
      BY Invs DEF UringTypes
    <3> QED
      BY <2>2, <3>1
  <2>3. \/ uconn' = uconn
        \/ uconn' = [uconn EXCEPT ![Head(ring).conn].failed = TRUE]
    BY DEF kernel_send, kernel_recv
  <2> QED
    BY <2>1, <2>2, <2>3
<1>4. \A c : Expects(c)' <=> Expects(c)
  <2>1. UringConns' = UringConns
    BY <1>1, Fixed
  <2> QED
    BY <1>1, <2>1 DEF Expects, It
<1>5. Range(UringConns) \subseteq Conns
  BY Invs, ClientFacts
<1> QED
  BY <1>1, <1>2, <1>3, <1>4, <1>5, RecvSame

LEMMA DrainRecv ==
  ASSUME TypeInv, RecvInv, drain_packets
  PROVE  RecvInv'
<1>1. Ops' = Ops /\ client' = client /\ gen.pc = "drain" /\ gen \in GenRecords
  BY Invs, OpsKept, UringFields DEF drain_packets, Going, clientVars
<1>2. gen'.pc = gen.pc /\ gen'.i = gen.i
  BY <1>1 DEF drain_packets, GenRecords
<1>3. \A c \in Conns : (c # It => uconn'[c] = uconn[c]) /\ uconn'[c].deaf = uconn[c].deaf
  <2>1. uconn \in [Conns -> [in_flight : Int, rbuf : Bytes, failed : BOOLEAN, deaf : BOOLEAN]]
    BY Invs DEF UringTypes
  <2> QED
    BY <2>1 DEF drain_packets
<1>4. \A c : (Expects(c)' <=> Expects(c)) /\ (Expects(c) => c # It)
  <2>1. UringConns' = UringConns
    BY <1>1, Fixed
  <2> QED
    BY <1>1, <1>2, <2>1 DEF Expects, It
<1>5. Range(UringConns) \subseteq Conns
  BY Invs, ClientFacts
<1> QED
  BY <1>1, <1>3, <1>4, <1>5, RecvSame

LEMMA AlarmRecv ==
  ASSUME TypeInv, RecvInv, on_sigalrm_uring
  PROVE  RecvInv'
<1>1. /\ Ops' = Ops /\ client' = client /\ uconn' = uconn /\ gen \in GenRecords
      /\ gen.pc # "stopped"
  BY Invs, OpsKept, UringFields DEF on_sigalrm_uring, Going
<1>2. \/ gen'.pc = gen.pc /\ gen'.i = gen.i
      \/ gen.pc = "wait" /\ gen'.pc = "reap"
  BY <1>1 DEF on_sigalrm_uring, Go, GenRecords
<1>3. \A c : Expects(c)' <=> Expects(c)
  <2>1. UringConns' = UringConns
    BY <1>1, Fixed
  <2> QED
    BY <1>2, <2>1 DEF Expects, It
<1> QED
  BY <1>1, <1>3, RecvSame

LEMMA SubmitSendRecv ==
  ASSUME TypeInv, RecvInv, submit_send
  PROVE  RecvInv'
<1>1. /\ client' = client /\ gen \in GenRecords /\ gen.pc \in {"seed", "refill"}
      /\ gen'.pc = gen.pc /\ gen'.i = gen.i
  BY Invs, UringFields DEF submit_send, Going, clientVars, GenRecords
<1>2. UringConns' = UringConns /\ Range(UringConns)' = Range(UringConns)
  BY <1>1, Fixed
<1>3. \A c : Expects(c)' <=> Expects(c)
  BY <1>1, <1>2 DEF Expects, It
<1>4. \A c \in Conns : uconn'[c].rbuf = uconn[c].rbuf /\ uconn'[c].deaf = uconn[c].deaf
  <2>1. uconn \in [Conns -> [in_flight : Int, rbuf : Bytes, failed : BOOLEAN, deaf : BOOLEAN]]
    BY Invs DEF UringTypes
  <2>2. \/ uconn' = [uconn EXCEPT ![It].in_flight = @ + 1]
        \/ uconn' = [uconn EXCEPT ![It].in_flight = @ + 1, ![It].failed = TRUE]
    BY DEF submit_send
  <2> QED
    BY <2>1, <2>2
<1>5. Range(UringConns) \subseteq Conns
  BY Invs, ClientFacts
<1>6. CASE Ops' = Ops
  BY <1>1, <1>3, <1>4, <1>5, <1>6, RecvSame
<1>7. CASE /\ Send(It, Last(free)) \in Operations
           /\ Ops' = Append(Ops, Send(It, Last(free)))
  <2> DEFINE m == Len(Ops)
             op == Send(It, Last(free))
  <2>1. \A c : ~IsRecv(op, c)
    BY DEF Send, IsRecv
  <2> HIDE DEF op
  <2>2. /\ m \in Nat /\ Len(Ops') = m + 1 /\ Ops'[m + 1] = op
        /\ \A i \in 1 .. m : Ops'[i] = Ops[i]
    BY <1>7, Invs, PoolTyped, Appended DEF op
  <2>3. ASSUME NEW c \in Range(UringConns)
        PROVE  OneOrNobody(c)'
    <3> DEFINE end == Len(uconn[c].rbuf)
    <3>1. IF Receiving(c) THEN One(Ops, m, c, end) ELSE Nobody(Ops, m, c)
      BY <1>1 DEF RecvInv, OneOrNobody, submit_send, Going
    <3>2. /\ Len(uconn'[c].rbuf) = end /\ (uconn'[c].deaf <=> uconn[c].deaf)
          /\ uconn[c].deaf => Expects(c)
      BY <1>1, <1>4, <1>5 DEF RecvInv, OneOrNobody, submit_send, Going
    <3> HIDE DEF m, end
    <3>3. IF Receiving(c) THEN One(Ops', m + 1, c, end) ELSE Nobody(Ops', m + 1, c)
      BY <2>1, <2>2, <3>1, OtherPrepared
    <3> QED
      BY <1>3, <2>2, <3>2, <3>3 DEF OneOrNobody, Receiving
  <2> QED
    BY <1>2, <2>3 DEF RecvInv
<1> QED
  BY <1>6, <1>7, SubmitSendOps

(* The connection that is given its recv had none.                          *)
LEMMA SubmitRecvRecv ==
  ASSUME TypeInv, RecvInv, submit_recv
  PROVE  RecvInv'
<1> DEFINE d == It
           op == Recv(d, TailOff(uconn[d]))
           m == Len(Ops)
<1>1. /\ client' = client /\ gen \in GenRecords /\ gen.pc \in {"seed", "refill"}
      /\ client.program = "uring"
  BY Invs, UringFields DEF submit_recv, Going, clientVars
<1>2. UringConns' = UringConns /\ Range(UringConns)' = Range(UringConns)
  BY <1>1, Fixed
<1>3. /\ op \in Operations
      /\ \/ Ops' = Append(Ops, op) /\ uconn' = uconn
         \/ Ops' = Ops /\ uconn' = [uconn EXCEPT ![d].deaf = TRUE]
  BY SubmitRecvOps
<1>4. /\ \A c : IsRecv(op, c) <=> c = d
      /\ Len(uconn[d].rbuf) < RecvSize => op.off = Len(uconn[d].rbuf)
  <2>1. op.op = "recv" /\ op.conn = d /\ op.off = TailOff(uconn[d])
    BY DEF Recv
  <2>2. d \in Conns /\ Len(uconn[d].rbuf) \in Nat
    BY Invs, UringFields
  <2> DEFINE n == Len(uconn[d].rbuf)
  <2>3. TailOff(uconn[d]) = IF n >= RecvSize THEN 0 ELSE n
    BY DEF TailOff
  <2> HIDE DEF op, n
  <2>4. n < RecvSize => TailOff(uconn[d]) = n
    BY <2>2, <2>3, UringAssumption DEF n
  <2> QED
    BY <2>1, <2>4 DEF IsRecv, n
<1>5. ~Expects(d) /\ \A c \in Range(UringConns) : c # d => (Expects(c)' <=> Expects(c))
  <2> DEFINE n == Len(UringConns)
  <2>1. /\ gen.i \in 1 .. n /\ n \in Nat
        /\ \A i, j \in 1 .. n : UringConns[i] = UringConns[j] => i = j
    BY <1>1, Invs, ConnsDistinct DEF GenRecords
  <2>2. \A c \in Range(UringConns) : \E i \in 1 .. n : UringConns[i] = c
    BY Invs, ConnsDistinct DEF Range
  <2>3. d = UringConns[gen.i]
    BY DEF It
  <2>4. CASE gen.pc = "refill"
    <3>1. gen'.pc = "reap"
      BY <1>1, <2>4 DEF submit_recv, GenRecords
    <3> QED
      BY <2>4, <3>1 DEF Expects
  <2>5. CASE gen.pc = "seed" /\ gen.i < n
    <3>1. gen'.pc = "seed" /\ gen'.i = gen.i + 1
      BY <1>1, <2>5 DEF submit_recv, GenRecords
    <3> HIDE DEF n, d
    <3>2. \A c : Expects(c) <=> \E i \in 1 .. gen.i - 1 : UringConns[i] = c
      BY <2>5 DEF Expects
    <3>3. \A c : Expects(c)' <=> \E i \in 1 .. gen.i : UringConns[i] = c
      <4>1. gen'.i - 1 = gen.i
        BY <2>1, <3>1
      <4> QED
        BY <1>2, <3>1, <4>1 DEF Expects
    <3>4. \A i \in 1 .. gen.i : i \in 1 .. gen.i - 1 \/ i = gen.i
      BY <2>1
    <3>5. \A i \in 1 .. gen.i - 1 : i \in 1 .. gen.i /\ i \in 1 .. n /\ i # gen.i
      BY <2>1
    <3> QED
      BY <2>1, <2>3, <3>2, <3>3, <3>4, <3>5
  <2>6. CASE gen.pc = "seed" /\ ~(gen.i < n)
    <3>1. gen'.pc = "loop" /\ gen.i = n
      BY <1>1, <2>1, <2>6 DEF submit_recv, GenRecords
    <3> HIDE DEF n, d
    <3>2. \A c : Expects(c) <=> \E i \in 1 .. gen.i - 1 : UringConns[i] = c
      BY <2>6 DEF Expects
    <3>3. \A c : Expects(c)'
      BY <3>1 DEF Expects
    <3>4. \A i \in 1 .. n : i \in 1 .. gen.i - 1 \/ i = gen.i
      BY <2>1, <3>1
    <3>5. \A i \in 1 .. gen.i - 1 : i \in 1 .. n /\ i # gen.i
      BY <2>1
    <3> QED
      BY <2>1, <2>2, <2>3, <3>2, <3>3, <3>4, <3>5
  <2> QED
    BY <1>1, <2>4, <2>5, <2>6
<1>6. \A c : c = d => Expects(c)'
  <2>1. CASE gen.pc = "refill"
    BY <1>1, <2>1 DEF submit_recv, GenRecords, Expects
  <2>2. CASE gen.pc = "seed" /\ gen.i < Len(UringConns)
    <3>1. gen'.pc = "seed" /\ gen'.i = gen.i + 1
      BY <1>1, <2>2 DEF submit_recv, GenRecords
    <3>2. gen.i \in 1 .. (gen.i + 1) - 1 /\ UringConns[gen.i] = d
      BY Invs, UringFields, ConnsDistinct DEF It
    <3> HIDE DEF d
    <3> QED
      BY <1>2, <3>1, <3>2 DEF Expects
  <2>3. CASE gen.pc = "seed" /\ ~(gen.i < Len(UringConns))
    BY <1>1, <2>3 DEF submit_recv, GenRecords, Expects
  <2> QED
    BY <1>1, <2>1, <2>2, <2>3
<1> HIDE DEF op
<1>7. ASSUME NEW c \in Range(UringConns)
      PROVE  /\ uconn[c].deaf => Expects(c)
             /\ IF Receiving(c) THEN One(Ops, m, c, Len(uconn[c].rbuf)) ELSE Nobody(Ops, m, c)
  BY <1>1 DEF RecvInv, OneOrNobody
<1>8. CASE Ops' = Append(Ops, op) /\ uconn' = uconn
  <2>1. /\ m \in Nat /\ Len(Ops') = m + 1 /\ Ops'[m + 1] = op
        /\ \A i \in 1 .. m : Ops'[i] = Ops[i]
    BY <1>3, <1>8, Invs, PoolTyped, Appended
  <2> HIDE DEF d
  <2>2. ASSUME NEW c \in Range(UringConns)
        PROVE  OneOrNobody(c)'
    <3> DEFINE end == Len(uconn[c].rbuf)
    <3>1. Len(uconn'[c].rbuf) = end /\ uconn'[c].deaf = uconn[c].deaf
      BY <1>8
    <3>2. CASE c = d
      <4>1. /\ Nobody(Ops, m, c) /\ IsRecv(op, c) /\ (end < RecvSize => op.off = end)
            /\ ~uconn[c].deaf
        BY <1>4, <1>5, <1>7, <3>2 DEF Receiving
      <4> HIDE DEF m, end
      <4>2. One(Ops', m + 1, c, end)
        BY <2>1, <4>1, OwnPrepared
      <4> QED
        BY <1>6, <2>1, <3>1, <3>2, <4>1, <4>2 DEF OneOrNobody, Receiving
    <3>3. CASE c # d
      <4>1. IF Receiving(c) THEN One(Ops, m, c, end) ELSE Nobody(Ops, m, c)
        BY <1>7
      <4> HIDE DEF m, end
      <4>2. IF Receiving(c) THEN One(Ops', m + 1, c, end) ELSE Nobody(Ops', m + 1, c)
        BY <1>4, <2>1, <3>3, <4>1, OtherPrepared
      <4> QED
        BY <1>5, <1>7, <2>1, <3>1, <3>3, <4>2 DEF OneOrNobody, Receiving
    <3> QED
      BY <3>2, <3>3
  <2> QED
    BY <1>2, <2>2 DEF RecvInv
<1>9. CASE Ops' = Ops /\ uconn' = [uconn EXCEPT ![d].deaf = TRUE]
  <2>1. /\ d \in Conns /\ Range(UringConns) \subseteq Conns
        /\ uconn \in [Conns -> [in_flight : Int, rbuf : Bytes, failed : BOOLEAN, deaf : BOOLEAN]]
    BY Invs, UringFields, ClientFacts DEF UringTypes
  <2> HIDE DEF d
  <2>2. /\ uconn'[d].deaf = TRUE
        /\ \A c \in Conns : c # d => uconn'[c] = uconn[c]
    BY <1>9, <2>1
  <2>3. ASSUME NEW c \in Range(UringConns)
        PROVE  OneOrNobody(c)'
    <3>1. CASE c = d
      <4>1. ~Receiving(c) /\ ~Receiving(c)' /\ Expects(c)'
        BY <1>5, <1>6, <2>2, <3>1 DEF Receiving
      <4> QED
        BY <1>7, <1>9, <4>1 DEF OneOrNobody
    <3>2. CASE c # d
      BY <1>5, <1>7, <1>9, <2>1, <2>2, <3>2 DEF OneOrNobody, Receiving
    <3> QED
      BY <3>1, <3>2
  <2> QED
    BY <1>2, <2>3 DEF RecvInv
<1> QED
  BY <1>3, <1>8, <1>9

LEMMA ReapSendRecv ==
  ASSUME TypeInv, RecvInv, reap_send
  PROVE  RecvInv'
<1> DEFINE m == Len(Ops)
<1>1. /\ client' = client /\ gen' = gen /\ uconn' = uconn
      /\ client.program = "uring" /\ gen.pc # "stopped"
  BY DEF reap_send, Reap, Going, clientVars
<1>2. UringConns' = UringConns /\ Range(UringConns)' = Range(UringConns)
  BY <1>1, Fixed
<1>3. \A c : Expects(c)' <=> Expects(c)
  BY <1>1, <1>2 DEF Expects, It
<1>4. Ops # <<>> /\ Head(Ops).op = "send" /\ Ops' = Tail(Ops)
  BY ReapSendOps
<1>5. /\ m \in Nat \ {0} /\ Len(Ops') = m - 1 /\ Head(Ops) = Ops[1]
      /\ \A i \in 1 .. m - 1 : Ops'[i] = Ops[i + 1]
  BY <1>4, Invs, PoolTyped, Taken
<1>6. \A c : ~IsRecv(Ops[1], c)
  BY <1>4, <1>5 DEF IsRecv
<1>7. ASSUME NEW c \in Range(UringConns)
      PROVE  OneOrNobody(c)'
  <2> DEFINE end == Len(uconn[c].rbuf)
  <2>1. /\ uconn[c].deaf => Expects(c)
        /\ IF Receiving(c) THEN One(Ops, m, c, end) ELSE Nobody(Ops, m, c)
    BY <1>1 DEF RecvInv, OneOrNobody
  <2>2. Len(uconn'[c].rbuf) = end /\ uconn'[c].deaf = uconn[c].deaf
    BY <1>1
  <2> HIDE DEF m, end
  <2>3. IF Receiving(c) THEN One(Ops', m - 1, c, end) ELSE Nobody(Ops', m - 1, c)
    BY <1>5, <1>6, <2>1, OtherTaken
  <2> QED
    BY <1>3, <1>5, <2>1, <2>2, <2>3 DEF OneOrNobody, Receiving
<1> QED
  BY <1>2, <1>7 DEF RecvInv

(* The recv that is taken was the connection's only one; the next is        *)
(* prepared at once, or after its packets.                                  *)
LEMMA ReapRecvRecv ==
  ASSUME TypeInv, RecvInv, reap_recv
  PROVE  RecvInv'
<1> DEFINE d == Head(Ops).conn
           m == Len(Ops)
           k == m - 1
           rest == Tail(Ops)
           op == Recv(d, TailOff(uconn[d]))
<1>1. /\ Ops # <<>> /\ Head(Ops).op = "recv" /\ d \in Range(UringConns) /\ d \in Conns
      /\ client' = client /\ client.program = "uring" /\ gen.pc = "reap"
      /\ \/ op \in Operations /\ Ops' = Append(rest, op) /\ gen' = gen /\ uconn' = uconn
         \/ Ops' = rest /\ gen' = gen /\ uconn' = [uconn EXCEPT ![d].deaf = TRUE]
         \/ /\ Ops' = rest
            /\ \E res : uconn' = [uconn EXCEPT ![d].rbuf = @ \o res]
            /\ gen' = [pc |-> "drain", left |-> 0,
                       i |-> CHOOSE i \in 1 .. Len(UringConns) : UringConns[i] = d]
  BY ReapRecvOps DEF Going
<1>2. UringConns' = UringConns /\ Range(UringConns)' = Range(UringConns)
  BY <1>1, Fixed
<1>3. \A c : Expects(c)
  BY <1>1 DEF Expects
<1>4. /\ m \in Nat \ {0} /\ Len(rest) = m - 1 /\ Head(Ops) = Ops[1]
      /\ \A i \in 1 .. m - 1 : rest[i] = Ops[i + 1]
      /\ rest \in Seq(Operations)
  BY <1>1, Invs, PoolTyped, Taken, HeadTyped
<1>5. \A c : IsRecv(Ops[1], c) <=> c = d
  BY <1>1, <1>4 DEF IsRecv
<1>6. k \in Nat /\ Len(rest) = k
  BY <1>4
<1>7. \A c \in Range(UringConns) :
        /\ c = d => Nobody(rest, k, c) /\ ~uconn[c].deaf
        /\ c # d => IF Receiving(c) THEN One(rest, k, c, Len(uconn[c].rbuf)) ELSE Nobody(rest, k, c)
  <2> TAKE c \in Range(UringConns)
  <2> DEFINE end == Len(uconn[c].rbuf)
  <2>1. IF Receiving(c) THEN One(Ops, m, c, end) ELSE Nobody(Ops, m, c)
    BY <1>1 DEF RecvInv, OneOrNobody
  <2> HIDE DEF m, end, d, rest
  <2>2. CASE c = d
    <3>1. 1 \in 1 .. m /\ IsRecv(Ops[1], c)
      BY <1>4, <1>5, <2>2
    <3>2. Receiving(c)
      BY <2>1, <3>1 DEF Nobody
    <3>3. Nobody(rest, k, c)
      BY <1>4, <1>5, <2>1, <2>2, <3>2, OwnTaken
    <3> QED
      BY <2>2, <3>2, <3>3 DEF Receiving
  <2>3. CASE c # d
    <3>1. IF Receiving(c) THEN One(rest, k, c, end) ELSE Nobody(rest, k, c)
      BY <1>4, <1>5, <2>1, <2>3, OtherTaken
    <3> QED
      BY <2>3, <3>1 DEF end
  <2> QED
    BY <2>2, <2>3
<1>8. /\ Range(UringConns) \subseteq Conns
      /\ uconn \in [Conns -> [in_flight : Int, rbuf : Bytes, failed : BOOLEAN, deaf : BOOLEAN]]
  BY Invs, ClientFacts DEF UringTypes
<1>9. CASE op \in Operations /\ Ops' = Append(rest, op) /\ gen' = gen /\ uconn' = uconn
  <2>1. /\ \A c : IsRecv(op, c) <=> c = d
        /\ Len(uconn[d].rbuf) < RecvSize => op.off = Len(uconn[d].rbuf)
    <3>1. op.op = "recv" /\ op.conn = d /\ op.off = TailOff(uconn[d])
      BY DEF Recv
    <3> DEFINE n == Len(uconn[d].rbuf)
    <3>2. n \in Nat /\ TailOff(uconn[d]) = IF n >= RecvSize THEN 0 ELSE n
      BY <1>1, Invs, UringFields DEF TailOff
    <3> HIDE DEF op, n
    <3>3. n < RecvSize => TailOff(uconn[d]) = n
      BY <3>2, UringAssumption
    <3> QED
      BY <3>1, <3>3 DEF IsRecv, n
  <2> HIDE DEF op, d, rest, k
  <2>2. /\ Len(Ops') = k + 1 /\ Ops'[k + 1] = op
        /\ \A i \in 1 .. k : Ops'[i] = rest[i]
    BY <1>4, <1>6, <1>9, Appended
  <2>3. ASSUME NEW c \in Range(UringConns)
        PROVE  OneOrNobody(c)'
    <3> DEFINE end == Len(uconn[c].rbuf)
    <3>1. Len(uconn'[c].rbuf) = end /\ Expects(c)' /\ Expects(c) /\ uconn'[c].deaf = uconn[c].deaf
      BY <1>1, <1>9 DEF Expects
    <3>2. CASE c = d
      <4>1. /\ Nobody(rest, k, c) /\ IsRecv(op, c) /\ (end < RecvSize => op.off = end)
            /\ ~uconn[c].deaf
        BY <1>7, <2>1, <3>2
      <4> HIDE DEF end
      <4>2. One(Ops', k + 1, c, end)
        BY <1>6, <2>2, <4>1, OwnPrepared
      <4> QED
        BY <2>2, <3>1, <4>1, <4>2 DEF OneOrNobody, Receiving
    <3>3. CASE c # d
      <4>1. /\ IF Receiving(c) THEN One(rest, k, c, end) ELSE Nobody(rest, k, c)
            /\ ~IsRecv(op, c)
        BY <1>7, <2>1, <3>3
      <4> HIDE DEF end
      <4>2. IF Receiving(c) THEN One(Ops', k + 1, c, end) ELSE Nobody(Ops', k + 1, c)
        BY <1>6, <2>2, <4>1, OtherPrepared
      <4> QED
        BY <2>2, <3>1, <4>2 DEF OneOrNobody, Receiving
    <3> QED
      BY <3>2, <3>3
  <2> QED
    BY <1>2, <2>3 DEF RecvInv
<1>10. CASE /\ Ops' = rest
            /\ \E res : uconn' = [uconn EXCEPT ![d].rbuf = @ \o res]
            /\ gen' = [pc |-> "drain", left |-> 0,
                       i |-> CHOOSE i \in 1 .. Len(UringConns) : UringConns[i] = d]
  <2>1. It' = d
    <3>1. \E i \in 1 .. Len(UringConns) : UringConns[i] = d
      BY <1>1, Invs, ConnsDistinct DEF Range
    <3> HIDE DEF d
    <3> QED
      BY <1>2, <1>10, <3>1 DEF It
  <2>2. \A c : Expects(c)' <=> c # d
    BY <1>10, <2>1 DEF Expects
  <2>3. \A c \in Conns : (c # d => uconn'[c] = uconn[c]) /\ uconn'[c].deaf = uconn[c].deaf
    <3> HIDE DEF d
    <3> QED
      BY <1>8, <1>10
  <2>4. Len(Ops') = k
    BY <1>6, <1>10
  <2> HIDE DEF d, rest, k
  <2>5. ASSUME NEW c \in Range(UringConns)
        PROVE  OneOrNobody(c)'
    BY <1>3, <1>7, <1>8, <1>10, <2>2, <2>3, <2>4 DEF OneOrNobody, Receiving
  <2> QED
    BY <1>2, <2>5 DEF RecvInv
<1>11. CASE Ops' = rest /\ gen' = gen /\ uconn' = [uconn EXCEPT ![d].deaf = TRUE]
  <2>1. \A c : Expects(c)'
    BY <1>1, <1>11 DEF Expects
  <2>2. Len(Ops') = k
    BY <1>6, <1>11
  <2> HIDE DEF d, rest, k
  <2>3. /\ \A c \in Conns : c # d => uconn'[c] = uconn[c]
        /\ d \in Conns => uconn'[d].deaf = TRUE
    BY <1>8, <1>11
  <2>4. ASSUME NEW c \in Range(UringConns)
        PROVE  OneOrNobody(c)'
    BY <1>3, <1>7, <1>8, <1>11, <2>1, <2>2, <2>3 DEF OneOrNobody, Receiving
  <2> QED
    BY <1>2, <2>4 DEF RecvInv
<1> QED
  BY <1>1, <1>9, <1>10, <1>11

LEMMA RecvStarts ==
  ASSUME Init
  PROVE  RecvInv
<1>1. gen.pc = "connect" /\ UringInit
  BY DEF Init, UringInit
<1>2. Len(Ops) = 0
  BY <1>1, NoOpsAtStart
<1>3. \A c \in Range(UringConns) : c \in Conns /\ ~uconn[c].deaf
  <2>1. TypeInv
    BY TypesStart
  <2> QED
    BY <1>1, <2>1, Invs, ClientFacts DEF UringInit
<1> QED
  BY <1>1, <1>2, <1>3 DEF RecvInv, OneOrNobody, Nobody, Expects, Receiving

LEMMA ElsewhereRecv ==
  ASSUME RecvInv, UNCHANGED uringVars, client' = client
  PROVE  RecvInv'
<1>1. Ops' = Ops /\ gen' = gen /\ uconn' = uconn
  BY OpsUnchanged DEF uringVars
<1>2. UringConns' = UringConns
  BY Fixed
<1>3. \A c : Expects(c)' <=> Expects(c)
  BY <1>1, <1>2 DEF Expects, It
<1>4. CASE gen.pc = "stopped"
  BY <1>1, <1>4 DEF RecvInv
<1>5. CASE gen.pc # "stopped"
  BY <1>1, <1>3, <1>5, RecvSame
<1> QED
  BY <1>4, <1>5

LEMMA RecvKept ==
  ASSUME TypeInv, RecvInv, [Next]_vars
  PROVE  RecvInv'
<1>1. CASE UringNext
  <2>1. CASE uring_exit
    BY <2>1 DEF uring_exit, Go, RecvInv
  <2> QED
    BY <1>1, <2>1, ConnectRecv, SubmitSendRecv, SubmitRecvRecv, LoopRecv, KernelRecv,
       ReapSendRecv, ReapRecvRecv, DrainRecv, AlarmRecv DEF UringNext
<1>2. CASE ServerNext /\ UNCHANGED <<clientVars, threadsVars, uringVars, other>>
  BY <1>2, ElsewhereRecv DEF clientVars
<1>3. CASE ThreadsNext /\ UNCHANGED <<uringVars, other>>
  <2>1. client' = client
    BY <1>3 DEF ThreadsNext, MainStep, ThreadStep, pthread_create, pthread_create_fails, alarm,
           pthread_join, on_sigalrm_threads, connect_one, loop, send, write, read_reply,
           close_all, clientVars
  <2> QED
    BY <1>3, <2>1, ElsewhereRecv
<1>4. CASE OtherNext
  <2>1. client' = client /\ UNCHANGED uringVars
    BY <1>4 DEF OtherNext, other_connect, other_asks, other_writes, other_reads, other_closes,
           Other, clientVars
  <2> QED
    BY <2>1, ElsewhereRecv
<1>5. CASE UNCHANGED vars
  BY <1>5, ElsewhereRecv DEF vars, clientVars
<1> QED
  BY <1>1, <1>2, <1>3, <1>4, <1>5 DEF Next

(* Each connection has one recv, to the end of what its buffer holds, or    *)
(* none while its packets are taken.                                        *)
THEOREM OneRecvAtTailHolds == Spec => []OneRecvAtTail
<1>1. Init => RecvInv
  BY RecvStarts
<1>2. TypeInv /\ RecvInv /\ [Next]_vars => RecvInv'
  BY RecvKept
<1>3. RecvInv => OneRecvAtTail
  <2> SUFFICES ASSUME RecvInv, client.program = "uring", gen.pc # "stopped",
                      NEW c \in Range(UringConns)
               PROVE  LET recvs == {i \in 1 .. Len(Ops) : Ops[i].op = "recv" /\ Ops[i].conn = c}
                          end == Len(uconn[c].rbuf)
                      IN IF Receiving(c)
                         THEN \E i \in recvs : recvs = {i} /\ (end < RecvSize => Ops[i].off = end)
                         ELSE recvs = {}
    BY DEF OneRecvAtTail
  <2> DEFINE recvs == {i \in 1 .. Len(Ops) : Ops[i].op = "recv" /\ Ops[i].conn = c}
             end == Len(uconn[c].rbuf)
             m == Len(Ops)
  <2>1. OneOrNobody(c)
    BY DEF RecvInv
  <2>2. recvs = {j \in 1 .. m : IsRecv(Ops[j], c)}
    BY DEF IsRecv
  <2> HIDE DEF recvs, end, m
  <2>3. CASE Receiving(c)
    <3>1. PICK i \in 1 .. m : /\ \A j \in 1 .. m : IsRecv(Ops[j], c) <=> j = i
                              /\ end < RecvSize => Ops[i].off = end
      BY <2>1, <2>3 DEF OneOrNobody, One, m, end
    <3>2. recvs = {i}
      BY <2>2, <3>1
    <3> QED
      BY <2>3, <3>1, <3>2 DEF recvs, end
  <2>4. CASE ~Receiving(c)
    <3>1. \A j \in 1 .. m : ~IsRecv(Ops[j], c)
      BY <2>1, <2>4 DEF OneOrNobody, Nobody, m
    <3>2. recvs = {}
      BY <2>2, <3>1
    <3> QED
      BY <2>4, <3>2 DEF recvs
  <2> QED
    BY <2>3, <2>4
<1> QED
  BY <1>1, <1>2, <1>3, TypeInvHolds, PTL DEF Spec

----------------------------------------------------------------------------
(* Replies one after the other                                              *)

(* The least set of sequences of the frames of G, with their number.        *)
AddsFrames(G, R) ==
  <<<<>>, 0>> \in R /\ \A f \in G, z \in R : <<f \o z[1], z[2] + 1>> \in R
Chains(G) == {z \in Bytes \X Nat : \A R \in SUBSET (Bytes \X Nat) : AddsFrames(G, R) => z \in R}

ReplyFrames == {Frame(Payload(q[1], q[2])) : q \in Codecs \X States}

LEMMA ChainTyped ==
  ASSUME NEW G, NEW z \in Chains(G)
  PROVE  z[1] \in Bytes /\ z[2] \in Nat /\ z = <<z[1], z[2]>>
BY DEF Chains

LEMMA ChainAdds ==
  ASSUME NEW G \in SUBSET Bytes
  PROVE  /\ <<<<>>, 0>> \in Chains(G)
         /\ \A f \in G, z \in Chains(G) : <<f \o z[1], z[2] + 1>> \in Chains(G)
<1>1. <<<<>>, 0>> \in Chains(G)
  BY EmptyTyped DEF Chains, AddsFrames
<1>2. ASSUME NEW f \in G, NEW z \in Chains(G)
      PROVE  <<f \o z[1], z[2] + 1>> \in Chains(G)
  <2>1. z[1] \in Bytes /\ z[2] \in Nat /\ f \in Bytes
    BY ChainTyped
  <2>2. f \o z[1] \in Bytes /\ z[2] + 1 \in Nat
    BY <2>1, Joined
  <2>3. \A R \in SUBSET (Bytes \X Nat) : AddsFrames(G, R) => <<f \o z[1], z[2] + 1>> \in R
    BY DEF Chains, AddsFrames
  <2> QED
    BY <2>2, <2>3 DEF Chains
<1> QED
  BY <1>1, <1>2

LEMMA ChainLeast ==
  ASSUME NEW G, NEW R \in SUBSET (Bytes \X Nat), AddsFrames(G, R)
  PROVE  Chains(G) \subseteq R
BY DEF Chains

(* It is empty, or begins with a frame.                                     *)
LEMMA ChainFront ==
  ASSUME NEW G \in SUBSET Bytes, NEW s, NEW n, <<s, n>> \in Chains(G)
  PROVE  \/ s = <<>> /\ n = 0
         \/ \E f \in G, g \in Bytes, m \in Nat : s = f \o g /\ n = m + 1 /\ <<g, m>> \in Chains(G)
<1> DEFINE R == {y \in Chains(G) :
                   \/ y = <<<<>>, 0>>
                   \/ \E f \in G, z \in Chains(G) : y = <<f \o z[1], z[2] + 1>>}
<1>1. R \in SUBSET (Bytes \X Nat)
  BY DEF Chains
<1>2. AddsFrames(G, R)
  <2>1. <<<<>>, 0>> \in R
    BY ChainAdds
  <2>2. \A f \in G, z \in R : <<f \o z[1], z[2] + 1>> \in R
    BY ChainAdds
  <2> HIDE DEF R
  <2> QED
    BY <2>1, <2>2 DEF AddsFrames
<1>3. <<s, n>> \in R
  <2> HIDE DEF R
  <2> QED
    BY <1>1, <1>2, ChainLeast
<1>4. CASE <<s, n>> = <<<<>>, 0>>
  BY <1>4
<1>5. ASSUME NEW f \in G, NEW z \in Chains(G), <<s, n>> = <<f \o z[1], z[2] + 1>>
      PROVE  \E h \in G, g \in Bytes, m \in Nat : s = h \o g /\ n = m + 1 /\ <<g, m>> \in Chains(G)
  <2>1. PICK g, m : g = z[1] /\ m = z[2]
    OBVIOUS
  <2>2. g \in Bytes /\ m \in Nat /\ <<g, m>> \in Chains(G)
    BY <2>1, ChainTyped
  <2>3. s = f \o g /\ n = m + 1
    BY <1>5, <2>1
  <2> QED
    BY <2>2, <2>3
<1> QED
  BY <1>3, <1>4, <1>5

(* One more frame at the end.                                               *)
LEMMA ChainMore ==
  ASSUME NEW G \in SUBSET Bytes, NEW s, NEW n, <<s, n>> \in Chains(G), NEW e \in G
  PROVE  <<s \o e, n + 1>> \in Chains(G)
<1> DEFINE R == {y \in Chains(G) : <<y[1] \o e, y[2] + 1>> \in Chains(G)}
<1>1. R \in SUBSET (Bytes \X Nat)
  BY DEF Chains
<1>2. AddsFrames(G, R)
  <2>1. <<<<>>, 0>> \in R
    <3>1. <<e \o <<>>, 0 + 1>> \in Chains(G)
      BY ChainAdds
    <3>2. e \o <<>> = e /\ <<>> \o e = e
      BY WithNothing
    <3> QED
      BY <3>1, <3>2, ChainAdds
  <2>2. ASSUME NEW f \in G, NEW z \in R PROVE <<f \o z[1], z[2] + 1>> \in R
    <3>1. z \in Chains(G) /\ <<z[1] \o e, z[2] + 1>> \in Chains(G)
      OBVIOUS
    <3>2. z[1] \in Bytes /\ z[2] \in Nat /\ f \in Bytes /\ e \in Bytes
      BY <3>1, ChainTyped
    <3>3. <<f \o (z[1] \o e), (z[2] + 1) + 1>> \in Chains(G)
      BY <3>1, ChainAdds
    <3>4. (f \o z[1]) \o e = f \o (z[1] \o e)
      BY <3>2, Grouped, Zenon
    <3>5. <<f \o z[1], z[2] + 1>> \in Chains(G)
      BY <3>1, ChainAdds
    <3> QED
      BY <3>3, <3>4, <3>5
  <2> HIDE DEF R
  <2> QED
    BY <2>1, <2>2 DEF AddsFrames
<1>3. <<s, n>> \in R
  <2> HIDE DEF R
  <2> QED
    BY <1>1, <1>2, ChainLeast
<1> QED
  BY <1>3

LEMMA FrameSizes ==
  ASSUME NEW f \in ReplyFrames
  PROVE  f \in Bytes /\ Len(f) \in 5 .. 6 /\ Length(f) \in 3 .. 4 /\ Len(f) = 2 + Length(f)
<1>1. PICK type \in Codecs, s \in States : f = Frame(Payload(type, s))
  BY DEF ReplyFrames
<1> DEFINE p == Payload(type, s)
<1>2. p \in Bytes /\ Len(p) \in 3 .. 4
  BY PayloadTyped
<1> HIDE DEF p
<1>3. Len(p) \in 0 .. 15
  BY <1>2
<1>4. Frame(p) \in Bytes /\ Len(Frame(p)) = 2 + Len(p) /\ Length(Frame(p)) = Len(p)
  BY <1>2, <1>3, FrameTyped, FrameParts
<1>5. f = Frame(p)
  BY <1>1 DEF p
<1>6. PICK n \in 3 .. 4 : n = Len(p)
  BY <1>2
<1>7. f \in Bytes /\ Len(f) = 2 + n /\ Length(f) = n
  BY <1>4, <1>5, <1>6, Zenon
<1> QED
  BY <1>7

LEMMA FramesTyped ==
  ReplyFrames \in SUBSET Bytes
BY FrameSizes

(* What the server replies is a frame of these.                             *)
LEMMA ReplyIsFrame ==
  ASSUME NEW p, NEW r \in Replies(p)
  PROVE  Frame(r) \in ReplyFrames
<1>1. PICK type \in Codecs, s \in States : r = Payload(type, player_mutate(s))
  BY DEF Replies
<1>2. player_mutate(s) \in States
  BY MutateTyped
<1> DEFINE q == <<type, player_mutate(s)>>
<1>3. q \in Codecs \X States /\ r = Payload(q[1], q[2])
  BY <1>1, <1>2
<1> HIDE DEF q
<1> QED
  BY <1>3 DEF ReplyFrames

(* The packet that is taken from the front is a frame.                      *)
LEMMA FrontTaken ==
  ASSUME NEW G \in SUBSET ReplyFrames, NEW a \in Bytes, NEW x \in Bytes, NEW n,
         <<a \o x, n>> \in Chains(G), ~Drained(a)
  PROVE  \E f \in G, g \in Bytes, m \in Nat :
           /\ 2 + Length(a) = Len(f) /\ Len(f) <= Len(a) /\ SubSeq(a, 1, Len(f)) = f
           /\ g = Drop(a, 2 + Length(a)) \o x /\ n = m + 1 /\ <<g, m>> \in Chains(G)
<1>1. Len(a) >= 2 /\ ~(Len(a) < 2 + Length(a)) /\ Len(a) \in Nat
  BY ByteSeq DEF Drained, Incomplete, BadLength
<1>2. a \o x \in Bytes /\ Len(a \o x) = Len(a) + Len(x) /\ Len(x) \in Nat
  BY Joined, ByteSeq
<1>3. a \o x # <<>>
  BY <1>1, <1>2, EmptyTyped
<1>4. G \in SUBSET Bytes
  BY FramesTyped
<1>5. PICK f \in G, g \in Bytes, m \in Nat : a \o x = f \o g /\ n = m + 1 /\ <<g, m>> \in Chains(G)
  BY <1>3, <1>4, ChainFront
<1>6. f \in Bytes /\ Len(f) \in 5 .. 6 /\ Len(f) = 2 + Length(f)
  BY FrameSizes
<1>7. Length(a) = Length(f)
  <2>1. Len(f) >= 2
    BY <1>6
  <2> QED
    BY <1>1, <1>5, <1>6, <2>1, SameLength
<1>8. Len(f) <= Len(a) /\ 2 + Length(a) = Len(f)
  BY <1>1, <1>6, <1>7
<1>9. SubSeq(a, 1, Len(f)) = f /\ Drop(a, Len(f)) \o x = g
  BY <1>5, <1>6, <1>8, CutTwice
<1> QED
  BY <1>5, <1>8, <1>9

(* What is left when no packet is complete is less than one.                *)
LEMMA FrontShort ==
  ASSUME MaxPayload >= 4, NEW a \in Bytes, NEW x \in Bytes, NEW n,
         <<a \o x, n>> \in Chains(ReplyFrames), Drained(a)
  PROVE  Len(a) < 6
<1>1. Len(a) \in Nat
  BY ByteSeq
<1>2. CASE Len(a) < 2
  BY <1>1, <1>2
<1>3. CASE Len(a) >= 2
  <2>1. a \o x \in Bytes /\ Len(a \o x) = Len(a) + Len(x) /\ Len(x) \in Nat
    BY Joined, ByteSeq
  <2>2. a \o x # <<>>
    BY <1>1, <1>3, <2>1, EmptyTyped
  <2>3. PICK f \in ReplyFrames, g \in Bytes : a \o x = f \o g
    <3>1. PICK G \in SUBSET Bytes : G = ReplyFrames
      BY FramesTyped
    <3>2. <<a \o x, n>> \in Chains(G)
      BY <3>1
    <3>3. PICK f \in G, g \in Bytes, m \in Nat :
            a \o x = f \o g /\ n = m + 1 /\ <<g, m>> \in Chains(G)
      BY <2>2, <3>2, ChainFront
    <3> QED
      BY <3>1, <3>3
  <2>4. f \in Bytes /\ Len(f) \in 5 .. 6 /\ Len(f) = 2 + Length(f) /\ Length(f) \in 3 .. 4
    BY FrameSizes
  <2>5. Len(f) >= 2
    BY <2>4
  <2>6. Length(a) = Length(f)
    BY <1>3, <2>3, <2>4, <2>5, SameLength
  <2>7. Length(a) \in 1 .. MaxPayload
    BY <2>4, <2>6, BinaryAssumption
  <2>8. Len(a) < 2 + Length(a)
    BY <1>1, <1>3, <2>7 DEF Drained, Incomplete, BadLength
  <2> QED
    BY <1>1, <2>4, <2>6, <2>8
<1> QED
  BY <1>1, <1>2, <1>3

----------------------------------------------------------------------------
(* What the worker does to a connection                                     *)

(* What is on its way to the client, and how much there is still to answer. *)
Line(k) == k.down \o k.output
Size(k) == Len(k.up) + Len(k.input)

(* Bytes only pass along; or the connection is closed and the last of them  *)
(* are lost; or a request is consumed and answered.                         *)
Passes(k, r) == Line(r) = Line(k) /\ Size(r) <= Size(k)
CutsOff(k, r) ==
  r.server = "closed" /\ Size(r) <= Size(k) /\ \E x \in Bytes : Line(k) = Line(r) \o x
Replies1(k, r) ==
  /\ k.server = "open" /\ r.server = "open" /\ Size(r) + 5 <= Size(k)
  /\ \E f \in ReplyFrames : Line(r) = Line(k) \o f
Served(k, r) ==
  /\ r.client = k.client /\ r.owed = k.owed /\ r.whole = k.whole
  /\ r.server # "closed" => k.server # "closed"
  /\ k.client # "closed" => Passes(k, r) \/ CutsOff(k, r) \/ Replies1(k, r)

LEMMA SizeIs ==
  ASSUME NEW r, NEW i \in Nat, NEW j \in Nat, Len(r.up) = i, Len(r.input) = j
  PROVE  Size(r) = i + j /\ Size(r) \in Nat
<1>1. Size(r) = i + j
  BY DEF Size
<1> QED
  BY <1>1

LEMMA SizeTyped ==
  ASSUME NEW k \in ConnTypes
  PROVE  Size(k) \in Nat /\ Len(k.up) \in Nat /\ Len(k.input) \in Nat /\ Line(k) \in Bytes
<1>1. k.up \in Bytes /\ k.input \in Bytes /\ k.down \in Bytes /\ k.output \in Bytes
  BY ConnFields
<1>2. Line(k) \in Bytes
  BY <1>1, Joined DEF Line
<1>3. Len(k.up) \in Nat /\ Len(k.input) \in Nat
  BY <1>1, ByteSeq
<1>4. PICK i \in Nat, j \in Nat : Len(k.up) = i /\ Len(k.input) = j
  BY <1>3
<1>5. Size(k) \in Nat
  BY <1>4, SizeIs
<1> QED
  BY <1>2, <1>3, <1>5

LEMMA ServedSame ==
  ASSUME NEW k \in ConnTypes
  PROVE  Served(k, k)
<1>1. Size(k) \in Nat
  BY SizeTyped
<1> QED
  BY <1>1 DEF Served, Passes

LEMMA ServedEnded ==
  ASSUME NEW k \in ConnTypes, NEW r, r.client = k.client, r.server = "closed",
         r.whole = k.whole, r.down = k.down, r.owed = k.owed,
         r.output \in {<<>>, k.output}, r.input \in {<<>>, k.input}, r.up \in {<<>>, k.up}
  PROVE  Served(k, r)
<1>1. /\ k.down \in Bytes /\ k.output \in Bytes
      /\ Len(k.up) \in Nat /\ Len(k.input) \in Nat /\ Len(<<>>) = 0
  BY ConnFields, SizeTyped, EmptyTyped
<1>2. Size(r) <= Size(k)
  <2>1. PICK i \in Nat, j \in Nat : Len(k.up) = i /\ Len(k.input) = j
    BY <1>1
  <2>2. PICK m \in 0 .. i : Len(r.up) = m
    BY <1>1, <2>1
  <2>3. PICK n \in 0 .. j : Len(r.input) = n
    BY <1>1, <2>1
  <2>4. m \in Nat /\ n \in Nat /\ m + n <= i + j
    OBVIOUS
  <2>5. Size(k) = i + j /\ Size(r) = m + n
    BY <2>1, <2>2, <2>3, <2>4, SizeIs
  <2> QED
    BY <2>4, <2>5
<1>3. \E x \in Bytes : Line(k) = Line(r) \o x
  <2>1. CASE r.output = k.output
    <3>1. Line(r) = Line(k) /\ Line(k) \in Bytes
      BY <2>1, SizeTyped DEF Line
    <3>2. Line(k) \o <<>> = Line(k) /\ <<>> \in Bytes
      BY <3>1, WithNothing
    <3> QED
      BY <3>1, <3>2
  <2>2. CASE r.output = <<>>
    <3>1. Line(r) = k.down /\ Line(k) = k.down \o k.output
      BY <1>1, <2>2, WithNothing DEF Line
    <3> QED
      BY <1>1, <3>1
  <2> QED
    BY <2>1, <2>2
<1> QED
  BY <1>2, <1>3 DEF Served, CutsOff

LEMMA CloseServed ==
  ASSUME NEW k \in ConnTypes
  PROVE  Served(k, binary_conn_close(k))
<1> DEFINE r == [k EXCEPT !.active = FALSE, !.server = "closed",
                          !.up = <<>>, !.input = <<>>, !.output = <<>>]
<1>1. /\ r.client = k.client /\ r.server = "closed" /\ r.whole = k.whole
      /\ r.down = k.down /\ r.owed = k.owed
      /\ r.output = <<>> /\ r.input = <<>> /\ r.up = <<>>
  BY DEF ConnTypes
<1> HIDE DEF r
<1>2. Served(k, r)
  BY <1>1, ServedEnded
<1> QED
  BY <1>2, ServedSame DEF binary_conn_close, r

LEMMA OpenServed ==
  ASSUME NEW k \in ConnTypes, NEW fails, k.server # "closed"
  PROVE  Served(k, binary_conn_open(k, fails))
<1> DEFINE r == [k EXCEPT !.server = "closed", !.up = <<>>]
           q == [k EXCEPT !.server = "open", !.active = TRUE]
<1>1. /\ r.client = k.client /\ r.server = "closed" /\ r.whole = k.whole
      /\ r.down = k.down /\ r.owed = k.owed
      /\ r.output = k.output /\ r.input = k.input /\ r.up = <<>>
  BY DEF ConnTypes
<1>2. /\ q.client = k.client /\ q.server = "open" /\ q.whole = k.whole
      /\ q.down = k.down /\ q.owed = k.owed
      /\ q.output = k.output /\ q.input = k.input /\ q.up = k.up
  BY DEF ConnTypes
<1> HIDE DEF r, q
<1>3. Served(k, r)
  BY <1>1, ServedEnded
<1>4. Served(k, q)
  <2>1. Line(q) = Line(k) /\ Size(q) = Size(k) /\ Size(k) \in Nat
    BY <1>2, SizeTyped DEF Line, Size
  <2> QED
    BY <1>2, <2>1 DEF Served, Passes
<1> QED
  BY <1>3, <1>4 DEF binary_conn_open, r, q

LEMMA TornServed ==
  ASSUME NEW k \in ConnTypes
  PROVE  Served(k, Torn(k))
<1> DEFINE q == [k EXCEPT !.active = FALSE, !.server = "closed",
                          !.up = <<>>, !.input = <<>>, !.output = <<>>]
           p == [q EXCEPT !.server = "closed", !.up = <<>>]
           r == [k EXCEPT !.server = "closed", !.up = <<>>]
<1>1. /\ r.client = k.client /\ r.server = "closed" /\ r.whole = k.whole
      /\ r.down = k.down /\ r.owed = k.owed
      /\ r.output = k.output /\ r.input = k.input /\ r.up = <<>>
  BY DEF ConnTypes
<1>2. /\ p.client = k.client /\ p.server = "closed" /\ p.whole = k.whole
      /\ p.down = k.down /\ p.owed = k.owed
      /\ p.output = <<>> /\ p.input = <<>> /\ p.up = <<>>
  BY DEF ConnTypes
<1>3. Torn(k) \in {k, p, r}
  BY DEF Torn, binary_conn_close
<1> HIDE DEF p, q, r
<1> QED
  BY <1>1, <1>2, <1>3, ServedEnded, ServedSame

LEMMA FlushServed ==
  ASSUME NEW k \in ConnTypes, room \in Nat, Fits(k), NEW f \in stream_flush(k)
  PROVE  /\ f.client = k.client /\ f.server = k.server /\ f.owed = k.owed /\ f.whole = k.whole
         /\ f.up = k.up /\ f.input = k.input
         /\ k.client # "closed" => Line(f) = Line(k)
<1>1. CASE f = k
  BY <1>1
<1>2. CASE f = Sent(k) /\ k.client # "closed"
  <2> DEFINE n == Least(Len(k.output), room - Len(k.down))
             a == SubSeq(k.output, 1, n)
             b == Drop(k.output, n)
  <2>1. /\ f.client = k.client /\ f.server = k.server /\ f.whole = k.whole /\ f.owed = k.owed
        /\ f.input = k.input /\ f.up = k.up /\ f.down = k.down \o a /\ f.output = b
    BY <1>2 DEF Sent, ConnTypes
  <2>2. k.down \in Bytes /\ k.output \in Bytes
    BY ConnFields
  <2>3. n \in 0 .. Len(k.output)
    <3>1. Len(k.output) \in Nat /\ Len(k.down) \in Nat /\ Len(k.down) <= room
      BY <2>2, ByteSeq DEF Fits
    <3> QED
      BY <3>1 DEF Least
  <2> HIDE DEF n
  <2>4. a \in Bytes /\ b \in Bytes /\ k.output = a \o b
    BY <2>2, <2>3, Cut
  <2> HIDE DEF a, b
  <2>5. f.down \o f.output = k.down \o k.output
    <3>1. PICK d \in Bytes : d = k.down
      BY <2>2
    <3>2. (d \o a) \o b = d \o (a \o b)
      <4>1. Groups(d, a, b)
        BY <2>4, <3>1, Grouping
      <4> QED
        BY <4>1 DEF Groups
    <3> QED
      BY <2>1, <2>4, <3>1, <3>2
  <2> QED
    BY <2>1, <2>5 DEF Line
<1>3. CASE f = Sent(k) /\ k.client = "closed"
  BY <1>3 DEF Sent, ConnTypes
<1> QED
  BY <1>1, <1>2, <1>3 DEF stream_flush

(* Writing drains; what is drained closes.                                  *)
LEMMA WriteServed ==
  ASSUME NEW k \in ConnTypes, room \in Nat, Fits(k), NEW f \in stream_flush(k)
  PROVE  Served(k, IF f.output = <<>> THEN binary_conn_close(f) ELSE f)
<1>1. f \in ConnTypes /\ Size(k) \in Nat
  BY FlushTyped, SizeTyped
<1>5. /\ f.client = k.client /\ f.server = k.server /\ f.owed = k.owed /\ f.whole = k.whole
      /\ Size(f) = Size(k)
      /\ k.client # "closed" => Line(f) = Line(k)
  BY FlushServed DEF Size
<1>2. Served(k, f)
  BY <1>1, <1>5 DEF Served, Passes
<1>3. Served(f, binary_conn_close(f))
  BY <1>1, CloseServed
<1>4. Served(k, binary_conn_close(f))
  BY <1>1, <1>3, <1>5 DEF Served, Passes, CutsOff, Replies1
<1> QED
  BY <1>2, <1>4

LEMMA ReceivedServed ==
  ASSUME NEW k \in ConnTypes
  PROVE  Served(k, [k EXCEPT !.input = k.input \o k.up, !.up = <<>>])
<1> DEFINE input == k.input \o k.up
           r == [k EXCEPT !.input = input, !.up = <<>>]
<1>1. /\ r.client = k.client /\ r.server = k.server /\ r.whole = k.whole
      /\ r.down = k.down /\ r.owed = k.owed /\ r.output = k.output
      /\ r.input = input /\ r.up = <<>>
  BY DEF ConnTypes
<1>2. Len(input) = Len(k.input) + Len(k.up) /\ Len(k.input) \in Nat /\ Len(k.up) \in Nat
  BY ConnFields, SizeTyped, Joined
<1> HIDE DEF r, input
<1>3. Line(r) = Line(k)
  BY <1>1 DEF Line
<1>4. Size(r) <= Size(k)
  BY <1>1, <1>2, EmptyTyped DEF Size
<1>5. Served(k, r)
  BY <1>1, <1>3, <1>4 DEF Served, Passes
<1> QED
  BY <1>5 DEF r, input

LEMMA AnsweredServed ==
  ASSUME NEW k \in ConnTypes, room \in Nat, Fits(k), k.server = "open",
         ~Incomplete(k.input), ~Malformed(k.input),
         NEW q \in Replies(FrontPayload(k.input)),
         NEW f \in stream_flush(stream_write(k, Frame(q)))
  PROVE  Served(k, stream_consume(f, 2 + Length(k.input)))
<1> DEFINE a == Frame(q)
           w == stream_write(k, a)
           n == 2 + Length(k.input)
           r == stream_consume(f, n)
<1>1. a \in Bytes /\ a \in ReplyFrames
  BY ReplyTyped, ReplyIsFrame
<1>2. PICK in \in Bytes, up \in Bytes, down \in Bytes, out \in Bytes :
        in = k.input /\ up = k.up /\ down = k.down /\ out = k.output
  BY ConnFields
<1> HIDE DEF a
<1>3. /\ w \in ConnTypes /\ Fits(w) /\ w.client = k.client /\ w.server = k.server
      /\ w.owed = k.owed /\ w.whole = k.whole /\ w.up = k.up /\ w.input = k.input
      /\ w.down = down /\ w.output = out \o a
  <2>1. w \in ConnTypes /\ Fits(w)
    BY <1>1, AppendOutputTyped
  <2> QED
    BY <1>2, <2>1 DEF stream_write, ConnTypes
<1>4. f \in stream_flush(w)
  BY DEF a
<1> HIDE DEF w
<1>5. /\ f \in ConnTypes /\ f.client = k.client /\ f.server = k.server /\ f.owed = k.owed
      /\ f.whole = k.whole /\ f.up = k.up /\ f.input = k.input
      /\ k.client # "closed" => Line(f) = Line(w)
  BY <1>3, <1>4, FlushTyped, FlushServed
<1>6. Line(w) = Line(k) \o a
  <2>1. (down \o out) \o a = down \o (out \o a)
    <3>1. Groups(down, out, a)
      BY <1>1, Grouping
    <3> QED
      BY <3>1 DEF Groups
  <2> QED
    BY <1>2, <1>3, <2>1 DEF Line
<1>7. n \in 5 .. Len(in) /\ Len(in) \in Nat /\ Len(up) \in Nat
  <2>1. Len(in) \in Nat /\ Len(up) \in Nat
    BY ByteSeq
  <2>2. Len(in) >= 2 /\ Length(in) \in 1 .. MaxPayload /\ ~(Len(in) < 2 + Length(in))
    BY <1>2, <2>1 DEF Incomplete, Malformed, BadLength
  <2>3. n \in Nat /\ n <= Len(in) /\ n = 2 + Length(in)
    BY <1>2, <2>1, <2>2, BinaryAssumption
  <2>4. Len(FrontPayload(k.input)) \in 3 .. 4
    BY ReplyTo
  <2>5. Len(FrontPayload(in)) = n - 2
    <3>1. \A i \in 3 .. n : in[i] \in 0 .. Byte - 1
      BY <2>1, <2>3, ByteSeq
    <3>2. Len(SubSeq(in, 3, n)) = IF 3 <= n THEN n - 3 + 1 ELSE 0
      BY <2>3, <3>1, SubSeqProperties
    <3>3. n >= 3
      BY <2>2, <2>3
    <3> QED
      BY <1>2, <2>3, <3>2, <3>3 DEF FrontPayload
  <2> QED
    BY <1>2, <2>1, <2>3, <2>4, <2>5
<1> HIDE DEF n
<1>8. Len(Drop(in, n)) = Len(in) - n
  <2>1. n \in 0 .. Len(in)
    BY <1>7
  <2> QED
    BY <2>1, Cut
<1>9. /\ r.client = k.client /\ r.server = k.server /\ r.owed = k.owed /\ r.whole = k.whole
      /\ r.up = k.up /\ r.input = Drop(in, n) /\ r.down = f.down /\ r.output = f.output
  BY <1>2, <1>5 DEF stream_consume, ConnTypes
<1> HIDE DEF r
<1>10. Size(r) + 5 <= Size(k)
  <2>1. PICK i \in Nat, j \in Nat : Len(up) = i /\ Len(in) = j
    BY <1>7
  <2>2. n \in 5 .. j /\ j - n \in Nat /\ Len(Drop(in, n)) = j - n
    BY <1>7, <1>8, <2>1
  <2>3. Size(k) = i + j
    BY <1>2, <2>1, SizeIs
  <2>4. Size(r) = i + (j - n)
    <3>1. r.up = up /\ r.input = Drop(in, n)
      BY <1>2, <1>9
    <3>2. Len(r.up) = i /\ Len(r.input) = j - n
      BY <2>1, <2>2, <3>1
    <3> QED
      BY <2>2, <3>2, SizeIs
  <2> QED
    BY <2>2, <2>3, <2>4
<1>11. k.client # "closed" => Line(r) = Line(k) \o a
  BY <1>5, <1>6, <1>9 DEF Line
<1>12. Served(k, r)
  BY <1>1, <1>9, <1>10, <1>11 DEF Served, Replies1
<1> QED
  BY <1>12 DEF r, n

LEMMA OneServes ==
  ASSUME ConnInv, NEW d \in Conns, NEW r, Served(conn[d], r), conn' = [conn EXCEPT ![d] = r]
  PROVE  \A c \in Conns : Served(conn[c], conn'[c])
<1> TAKE c \in Conns
<1>1. conn[c] \in ConnTypes /\ conn \in [Conns -> ConnTypes]
  BY DEF ConnInv
<1>2. CASE c = d
  <2>1. conn'[d] = r
    BY <1>1
  <2> QED
    BY <1>2, <2>1
<1>3. CASE c # d
  <2>1. conn'[c] = conn[c]
    BY <1>1, <1>3
  <2> QED
    BY <1>1, <2>1, ServedSame
<1> QED
  BY <1>2, <1>3

LEMMA ListenerServes ==
  ASSUME ServerInv, binary_listener_callback
  PROVE  \A c \in Conns : Served(conn[c], conn'[c])
<1> DEFINE n == Least(Len(backlog), AcceptMax)
           accepted == {backlog[i] : i \in 1 .. n}
<1>1. PICK refused \in SUBSET accepted :
        conn' = [c \in Conns |-> IF c \in accepted
                                 THEN binary_conn_open(conn[c], c \in refused)
                                 ELSE conn[c]]
  BY DEF binary_listener_callback
<1>2. ASSUME NEW c \in Conns, c \in accepted PROVE conn[c].server = "backlog"
  <2>1. PICK i \in 1 .. n : backlog[i] = c
    BY <1>2
  <2>2. n <= Len(backlog) /\ Len(backlog) \in Nat /\ n \in Nat
    <3> DEFINE len == Len(backlog)
    <3>1. len \in Nat
      BY DEF ServerInv, ServerTypes
    <3> HIDE DEF len
    <3>2. Least(len, AcceptMax) <= len /\ Least(len, AcceptMax) \in Nat
      BY <3>1, BinaryAssumption DEF Least
    <3> QED
      BY <3>1, <3>2 DEF len
  <2> HIDE DEF n
  <2>3. i \in 1 .. Len(backlog)
    BY <2>2
  <2>4. Listed(c)
    BY <2>1, <2>3 DEF Listed
  <2> QED
    BY <2>4 DEF ServerInv, ListInv
<1> HIDE DEF accepted
<1> TAKE c \in Conns
<1>3. conn[c] \in ConnTypes
  BY DEF ServerInv, ConnInv
<1>4. CASE c \in accepted
  <2>1. PICK fails : fails = (c \in refused)
    OBVIOUS
  <2>2. conn'[c] = binary_conn_open(conn[c], fails) /\ conn[c].server # "closed"
    BY <1>1, <1>2, <1>4, <2>1
  <2> QED
    BY <1>3, <2>2, OpenServed
<1>5. CASE c \notin accepted
  BY <1>1, <1>3, <1>5, ServedSame
<1> QED
  BY <1>4, <1>5

LEMMA WorkerServes ==
  ASSUME ServerInv, on_read \/ on_write \/ on_close \/ binary_conn_process
  PROVE  \A c \in Conns : Served(conn[c], conn'[c])
<1> DEFINE k == conn[cur.conn]
<1>1. ConnInv /\ cur.conn \in Conns /\ k \in ConnTypes /\ Fits(k) /\ room \in Nat
  BY DEF ServerInv, ServerTypes, ConnInv
<1> SUFFICES \E r : Served(k, r) /\ conn' = [conn EXCEPT ![cur.conn] = r]
  BY <1>1, OneServes
<1>2. CASE conn' = conn
  <2>1. conn' = [conn EXCEPT ![cur.conn] = k]
    BY <1>1, <1>2 DEF ConnInv
  <2> QED
    BY <1>1, <2>1, ServedSame
<1>3. CASE conn' = [conn EXCEPT ![cur.conn] = binary_conn_close(k)]
  BY <1>1, <1>3, CloseServed
<1>4. CASE on_read
  <2>1. conn' = [conn EXCEPT ![cur.conn] = [k EXCEPT !.input = k.input \o k.up, !.up = <<>>]]
    BY <1>4 DEF on_read
  <2> QED
    BY <1>1, <2>1, ReceivedServed
<1>5. CASE on_write
  <2>1. PICK f \in stream_flush(k) :
          conn' = [conn EXCEPT ![cur.conn] = IF f.output = <<>> THEN binary_conn_close(f) ELSE f]
    BY <1>5 DEF on_write
  <2> QED
    BY <1>1, <2>1, WriteServed
<1>6. CASE on_close
  BY <1>3, <1>6 DEF on_close
<1>7. CASE binary_conn_process
  <2>1. k.server = "open"
    BY <1>1, <1>7 DEF binary_conn_process, ServerInv, ListInv
  <2>2. ASSUME ~Incomplete(k.input), ~Malformed(k.input),
               NEW q \in Replies(FrontPayload(k.input)),
               NEW f \in stream_flush(stream_write(k, Frame(q))),
               conn' = [conn EXCEPT ![cur.conn] = stream_consume(f, 2 + Length(k.input))]
        PROVE  \E r : Served(k, r) /\ conn' = [conn EXCEPT ![cur.conn] = r]
    BY <1>1, <2>1, <2>2, AnsweredServed
  <2> QED
    BY <1>2, <1>3, <1>7, <2>2 DEF binary_conn_process
<1> QED
  BY <1>4, <1>5, <1>6, <1>7

LEMMA ServerServes ==
  ASSUME ServerInv, ServerNext
  PROVE  \A c \in Conns : Served(conn[c], conn'[c])
<1>1. \A c \in Conns : conn[c] \in ConnTypes
  BY DEF ServerInv, ConnInv
<1>2. CASE UNCHANGED conn
  BY <1>1, <1>2, ServedSame
<1>3. CASE assert_fails \/ binary_server_shutdown
  <2>1. \A c \in Conns : conn'[c] = Torn(conn[c])
    BY <1>3 DEF assert_fails, binary_server_shutdown
  <2> QED
    BY <1>1, <2>1, TornServed
<1>4. (\E c \in Conns : dispatch(c)) \/ dispatched => UNCHANGED conn
  BY DEF dispatch, dispatched
<1> QED
  BY <1>2, <1>3, <1>4, ListenerServes, WorkerServes DEF ServerNext, WorkerStep

----------------------------------------------------------------------------
(* What is on its way to the client are replies, and not too many           *)

(* s, with what was lost of it at its end if it was closed, are replies;    *)
(* with size bytes that may still bring some they are worth no more than m  *)
(* bytes, each of them at least five.                                       *)
Worth(s, closed, size, m) ==
  \E t \in Bytes, n \in Nat :
    <<s \o t, n>> \in Chains(ReplyFrames) /\ (closed \/ t = <<>>) /\ 5 * n + size <= m

(* The same of a connection of whose replies a has been read already.       *)
Carries(k, a, m) ==
  k.client # "closed" => Worth(a \o Line(k), k.server = "closed", Size(k), m)

LEMMA WorthLess ==
  ASSUME NEW s, NEW size \in Int, NEW m \in Int, NEW closed, Worth(s, closed, size, m),
         NEW less \in Int, NEW more \in Int, less + m <= size + more, NEW later, closed => later
  PROVE  Worth(s, later, less, more)
<1>1. PICK t \in Bytes, n \in Nat :
        <<s \o t, n>> \in Chains(ReplyFrames) /\ (closed \/ t = <<>>) /\ 5 * n + size <= m
  BY DEF Worth
<1>2. 5 * n + less <= more
  BY <1>1
<1> QED
  BY <1>1, <1>2 DEF Worth

LEMMA WorthCut ==
  ASSUME NEW s \in Bytes, NEW x \in Bytes, NEW size \in Int, NEW m \in Int, NEW closed,
         Worth(s \o x, closed, size, m), NEW less \in Int, less <= size
  PROVE  Worth(s, TRUE, less, m)
<1>1. PICK t \in Bytes, n \in Nat :
        <<(s \o x) \o t, n>> \in Chains(ReplyFrames) /\ 5 * n + size <= m
  BY DEF Worth
<1>2. PICK y \in Bytes : y = x \o t
  BY Joined
<1>3. (s \o x) \o t = s \o y
  <2>1. Groups(s, x, t)
    BY Grouping
  <2> QED
    BY <1>2, <2>1 DEF Groups
<1>4. 5 * n + less <= m
  BY <1>1
<1> QED
  BY <1>1, <1>3, <1>4 DEF Worth

LEMMA WorthMore ==
  ASSUME NEW s \in Bytes, NEW f \in ReplyFrames, NEW size \in Int, NEW m \in Int,
         Worth(s, FALSE, size, m), NEW less \in Int, less + 5 <= size
  PROVE  Worth(s \o f, FALSE, less, m)
<1>1. PICK t \in Bytes, n \in Nat :
        <<s \o t, n>> \in Chains(ReplyFrames) /\ t = <<>> /\ 5 * n + size <= m
  BY DEF Worth
<1>2. f \in Bytes /\ s \o t = s
  BY <1>1, FrameSizes, WithNothing
<1>3. PICK G \in SUBSET Bytes : G = ReplyFrames
  BY FramesTyped
<1>4. <<s, n>> \in Chains(G) /\ f \in G
  BY <1>1, <1>2, <1>3
<1>5. <<s \o f, n + 1>> \in Chains(G)
  BY <1>4, ChainMore
<1>6. (s \o f) \o <<>> = s \o f /\ <<>> \in Bytes
  BY <1>2, Joined, WithNothing
<1>7. 5 * (n + 1) + less <= m /\ n + 1 \in Nat
  BY <1>1
<1> QED
  BY <1>3, <1>5, <1>6, <1>7 DEF Worth

(* A reply is taken from the front.                                         *)
LEMMA WorthTaken ==
  ASSUME NEW a \in Bytes, NEW x \in Bytes, NEW size \in Int, NEW m \in Int, NEW closed,
         Worth(a \o x, closed, size, m), ~Drained(a)
  PROVE  Worth(Drop(a, 2 + Length(a)) \o x, closed, size, m - 5)
<1>1. PICK t \in Bytes, n \in Nat :
        <<(a \o x) \o t, n>> \in Chains(ReplyFrames) /\ (closed \/ t = <<>>) /\ 5 * n + size <= m
  BY DEF Worth
<1>2. PICK y \in Bytes : y = x \o t
  BY Joined
<1>3. (a \o x) \o t = a \o y
  <2>1. Groups(a, x, t)
    BY Grouping
  <2> QED
    BY <1>2, <2>1 DEF Groups
<1>4. PICK G \in SUBSET ReplyFrames : G = ReplyFrames
  OBVIOUS
<1>5. <<a \o y, n>> \in Chains(G)
  BY <1>1, <1>3, <1>4
<1>6. PICK f \in G, g \in Bytes, l \in Nat :
        /\ 2 + Length(a) = Len(f) /\ Len(f) <= Len(a) /\ SubSeq(a, 1, Len(f)) = f
        /\ g = Drop(a, 2 + Length(a)) \o y /\ n = l + 1 /\ <<g, l>> \in Chains(G)
  BY <1>5, FrontTaken
<1>7. PICK d \in Bytes : d = Drop(a, 2 + Length(a))
  <2>1. f \in Bytes /\ Len(f) \in 5 .. 6
    BY FrameSizes
  <2>2. Len(f) \in 0 .. Len(a)
    BY <1>6, <2>1, ByteSeq
  <2>3. Drop(a, Len(f)) \in Bytes
    BY <2>2, Cut
  <2> QED
    BY <1>6, <2>3
<1>8. (d \o x) \o t = d \o y
  <2>1. Groups(d, x, t)
    BY Grouping
  <2> QED
    BY <1>2, <2>1 DEF Groups
<1>9. 5 * l + size <= m - 5
  BY <1>1, <1>6
<1> QED
  BY <1>1, <1>4, <1>6, <1>7, <1>8, <1>9 DEF Worth

LEMMA ServedCarries ==
  ASSUME NEW k \in ConnTypes, NEW r \in ConnTypes, Served(k, r), NEW a \in Bytes, NEW m \in Int,
         Carries(k, a, m)
  PROVE  Carries(r, a, m)
<1> SUFFICES ASSUME k.client # "closed"
             PROVE  Worth(a \o Line(r), r.server = "closed", Size(r), m)
  BY DEF Carries, Served
<1>1. PICK p \in Bytes, q \in Bytes, i \in Int, j \in Int :
        p = Line(k) /\ q = Line(r) /\ i = Size(k) /\ j = Size(r)
  BY SizeTyped
<1>2. PICK b, d : b = (k.server = "closed") /\ d = (r.server = "closed") /\ (b => d)
  BY DEF Served
<1>3. Worth(a \o p, b, i, m)
  BY <1>1, <1>2 DEF Carries
<1>4. SUFFICES Worth(a \o q, d, j, m)
  BY <1>1, <1>2
<1>5. CASE Passes(k, r)
  <2>1. q = p /\ j <= i
    BY <1>1, <1>5 DEF Passes
  <2>2. j + m <= i + m
    BY <2>1
  <2> QED
    BY <1>2, <1>3, <2>1, <2>2, WorthLess
<1>6. CASE CutsOff(k, r)
  <2>1. PICK x \in Bytes : p = q \o x
    BY <1>1, <1>6 DEF CutsOff
  <2>2. a \o p = (a \o q) \o x /\ a \o q \in Bytes
    <3>1. (a \o q) \o x = a \o (q \o x)
      <4>1. Groups(a, q, x)
        BY Grouping
      <4> QED
        BY <4>1 DEF Groups
    <3> QED
      BY <2>1, <3>1, Joined
  <2>3. j <= i /\ d = TRUE
    BY <1>1, <1>2, <1>6 DEF CutsOff
  <2>4. Worth((a \o q) \o x, b, i, m)
    BY <1>3, <2>2
  <2>5. Worth(a \o q, TRUE, j, m)
    BY <2>2, <2>3, <2>4, WorthCut
  <2> QED
    BY <2>3, <2>5
<1>7. CASE Replies1(k, r)
  <2>1. PICK f \in ReplyFrames : q = p \o f
    BY <1>1, <1>7 DEF Replies1
  <2>2. j + 5 <= i /\ b = FALSE /\ d = FALSE
    BY <1>1, <1>2, <1>7 DEF Replies1
  <2>3. a \o q = (a \o p) \o f /\ a \o p \in Bytes
    <3>1. f \in Bytes
      BY FrameSizes
    <3>2. (a \o p) \o f = a \o (p \o f)
      <4>1. Groups(a, p, f)
        BY <3>1, Grouping
      <4> QED
        BY <4>1 DEF Groups
    <3> QED
      BY <2>1, <3>2, Joined
  <2>4. Worth((a \o p) \o f, FALSE, j, m)
    BY <1>3, <2>2, <2>3, WorthMore
  <2> QED
    BY <2>2, <2>3, <2>4
<1> QED
  BY <1>5, <1>6, <1>7 DEF Served

----------------------------------------------------------------------------
(* What is on its way through the ring                                      *)

LEMMA PendingTyped ==
  ASSUME UringTypes
  PROVE  /\ Pending \in Seq(Operations) /\ Len(Pending) \in Nat
         /\ \A i \in 1 .. Len(Pending) : Pending[i] \in Operations
<1>1. Pending \in Seq(Operations)
  BY OpsTyped, Joins DEF Pending, OpSeq
<1> QED
  BY <1>1, Elements

LEMMA PendingPrepared ==
  ASSUME UringTypes, NEW op \in Operations, Prepare(op)
  PROVE  Pending' = Append(Pending, op)
<1>1. \/ sq' = Append(sq, op) /\ ring' = ring
      \/ sq' = <<op>> /\ ring' = ring \o sq
  BY DEF Prepare
<1>2. PICK a \in OpSeq, b \in OpSeq, h \in OpSeq : a = ring /\ b = sq /\ h = <<op>>
  BY OpsTyped, Single
<1>3. a \o b \in OpSeq /\ Append(b, op) = b \o h /\ Append(a \o b, op) = (a \o b) \o h
  BY <1>2, Joins, Single
<1>4. (a \o b) \o h = a \o (b \o h)
  <2>1. Groups(a, b, h)
    BY OpsGroup
  <2> QED
    BY <2>1 DEF Groups
<1> QED
  BY <1>1, <1>2, <1>3, <1>4 DEF Pending

LEMMA PendingSubmitted ==
  ASSUME UringTypes, ring' = ring \o sq, sq' = <<>>
  PROVE  Pending' = Pending
<1>1. Pending \in OpSeq
  BY PendingTyped DEF OpSeq
<1> QED
  BY <1>1, JoinsNothing DEF Pending

LEMMA PendingIssued ==
  ASSUME UringTypes, ring # <<>>, ring' = Tail(ring), sq' = sq
  PROVE  Pending # <<>> /\ Head(Pending) = Head(ring) /\ Pending' = Tail(Pending)
<1>1. ring \in Seq(Operations) /\ sq \in Seq(Operations)
  BY OpsTyped
<1>2. ring \o sq # <<>> /\ Head(ring \o sq) = Head(ring) /\ Tail(ring \o sq) = Tail(ring) \o sq
  BY <1>1
<1> QED
  BY <1>2 DEF Pending

(* How many of the m operations of o send something on c.                   *)
IsSend(op, c) == op.op = "send" /\ op.conn = c
Sends(o, m, c) == {i \in 1 .. m : IsSend(o[i], c)}

LEMMA SendsCounted ==
  ASSUME NEW m \in Nat, NEW o, NEW c
  PROVE  IsFiniteSet(Sends(o, m, c)) /\ Cardinality(Sends(o, m, c)) \in Nat
<1>1. IsFiniteSet(1 .. m)
  BY FS_Interval
<1>2. Sends(o, m, c) \in SUBSET (1 .. m)
  BY DEF Sends
<1> QED
  BY <1>1, <1>2, FS_Subset, FS_CardinalityType

LEMMA SendsPrepared ==
  ASSUME NEW m \in Nat, NEW o, NEW p, NEW c, \A i \in 1 .. m : p[i] = o[i]
  PROVE  Cardinality(Sends(p, m + 1, c)) =
           Cardinality(Sends(o, m, c)) + (IF IsSend(p[m + 1], c) THEN 1 ELSE 0)
<1>1. IsFiniteSet(Sends(o, m, c)) /\ Cardinality(Sends(o, m, c)) \in Nat
  BY SendsCounted
<1>2. /\ \A i \in 1 .. m + 1 : i \in 1 .. m \/ i = m + 1
      /\ \A i \in 1 .. m : i \in 1 .. m + 1 /\ i # m + 1
      /\ m + 1 \in 1 .. m + 1
  OBVIOUS
<1>3. CASE IsSend(p[m + 1], c)
  <2>1. Sends(p, m + 1, c) = Sends(o, m, c) \cup {m + 1} /\ m + 1 \notin Sends(o, m, c)
    BY <1>2, <1>3 DEF Sends
  <2> QED
    BY <1>1, <1>3, <2>1, FS_AddElement
<1>4. CASE ~IsSend(p[m + 1], c)
  <2>1. Sends(p, m + 1, c) = Sends(o, m, c)
    BY <1>2, <1>4 DEF Sends
  <2> QED
    BY <1>1, <1>4, <2>1
<1> QED
  BY <1>3, <1>4

LEMMA SendsTaken ==
  ASSUME NEW m \in Nat \ {0}, NEW o, NEW p, NEW c, \A i \in 1 .. m - 1 : p[i] = o[i + 1]
  PROVE  Cardinality(Sends(o, m, c)) =
           Cardinality(Sends(p, m - 1, c)) + (IF IsSend(o[1], c) THEN 1 ELSE 0)
<1> DEFINE S == Sends(p, m - 1, c)
           T == Sends(o, m, c) \ {1}
           f == [i \in S |-> i + 1]
<1>1. /\ IsFiniteSet(S) /\ Cardinality(S) \in Nat
      /\ IsFiniteSet(Sends(o, m, c)) /\ Cardinality(Sends(o, m, c)) \in Nat
  <2>1. m \in Nat /\ m - 1 \in Nat
    OBVIOUS
  <2> QED
    BY <2>1, SendsCounted
<1>2. /\ \A i \in 1 .. m - 1 : i + 1 \in 1 .. m /\ i + 1 # 1
      /\ \A i, j \in 1 .. m - 1 : i + 1 = j + 1 => i = j
      /\ \A i \in 1 .. m : i = 1 \/ (i - 1 \in 1 .. m - 1 /\ (i - 1) + 1 = i)
      /\ 1 \in 1 .. m
  OBVIOUS
<1>3. S \subseteq 1 .. m - 1 /\ \A i \in S : i + 1 \in T
  BY <1>2 DEF Sends
<1>4. \A j \in T : j - 1 \in S /\ (j - 1) + 1 = j
  BY <1>2 DEF Sends
<1>5. ExistsBijection(S, T)
  <2> HIDE DEF S, T
  <2>1. f \in [S -> T] /\ \A i \in S : f[i] = i + 1
    BY <1>3
  <2>2. \A i, j \in S : f[i] = f[j] => i = j
    BY <1>2, <1>3, <2>1
  <2>3. \A j \in T : \E i \in S : f[i] = j
    BY <1>4, <2>1
  <2> HIDE DEF f
  <2>4. f \in Bijection(S, T)
    BY <2>1, <2>2, <2>3 DEF Bijection, Injection, Surjection, IsInjective
  <2> QED
    BY <2>4 DEF ExistsBijection
<1>6. Cardinality(T) = Cardinality(S)
  <2> HIDE DEF S, T
  <2> QED
    BY <1>1, <1>5, FS_Bijection
<1>7. Cardinality(T) = IF 1 \in Sends(o, m, c) THEN Cardinality(Sends(o, m, c)) - 1
                       ELSE Cardinality(Sends(o, m, c))
  BY <1>1, FS_RemoveElement
<1>8. 1 \in Sends(o, m, c) <=> IsSend(o[1], c)
  BY <1>2 DEF Sends
<1> HIDE DEF S, T
<1> QED
  BY <1>1, <1>6, <1>7, <1>8 DEF S

Waiting(c) == Cardinality(Unsent(c))

LEMMA WaitingIs ==
  ASSUME UringTypes, NEW c
  PROVE  Waiting(c) = Cardinality(Sends(Pending, Len(Pending), c)) /\ Waiting(c) \in Nat
<1>1. Unsent(c) = Sends(Pending, Len(Pending), c)
  BY DEF Unsent, Sends, IsSend
<1> QED
  BY <1>1, PendingTyped, SendsCounted DEF Waiting

LEMMA WaitingSame ==
  ASSUME NEW c, Pending' = Pending
  PROVE  Waiting(c)' = Waiting(c)
BY DEF Waiting, Unsent

LEMMA WaitingPrepared ==
  ASSUME UringTypes, UringTypes', NEW c, NEW op \in Operations, Prepare(op)
  PROVE  Waiting(c)' = Waiting(c) + (IF IsSend(op, c) THEN 1 ELSE 0)
<1> DEFINE m == Len(Pending)
<1>1. Pending' = Append(Pending, op) /\ Pending \in Seq(Operations) /\ m \in Nat
  BY PendingPrepared, PendingTyped
<1>2. /\ Len(Pending') = m + 1 /\ Pending'[m + 1] = op
      /\ \A i \in 1 .. m : Pending'[i] = Pending[i]
  BY <1>1, Appended
<1>3. Waiting(c) = Cardinality(Sends(Pending, m, c))
  BY WaitingIs
<1>4. Waiting(c)' = Cardinality(Sends(Pending', Len(Pending'), c))
  BY DEF Waiting, Unsent, Sends, IsSend
<1> HIDE DEF m
<1>5. Cardinality(Sends(Pending', m + 1, c)) =
        Cardinality(Sends(Pending, m, c)) + (IF IsSend(Pending'[m + 1], c) THEN 1 ELSE 0)
  <2>1. PICK o, p : o = Pending /\ p = Pending'
    OBVIOUS
  <2>2. \A i \in 1 .. m : p[i] = o[i]
    BY <1>2, <2>1
  <2>3. Cardinality(Sends(p, m + 1, c)) =
          Cardinality(Sends(o, m, c)) + (IF IsSend(p[m + 1], c) THEN 1 ELSE 0)
    BY <1>1, <2>2, SendsPrepared
  <2> QED
    BY <2>1, <2>3
<1> QED
  BY <1>2, <1>3, <1>4, <1>5

LEMMA WaitingIssued ==
  ASSUME UringTypes, NEW c, ring # <<>>, ring' = Tail(ring), sq' = sq
  PROVE  Waiting(c) = Waiting(c)' + (IF IsSend(Head(ring), c) THEN 1 ELSE 0)
<1> DEFINE m == Len(Pending)
<1>1. /\ Pending # <<>> /\ Head(Pending) = Head(ring) /\ Pending' = Tail(Pending)
      /\ Pending \in Seq(Operations)
  BY PendingIssued, PendingTyped
<1>2. /\ m \in Nat \ {0} /\ Len(Pending') = m - 1 /\ Head(ring) = Pending[1]
      /\ \A i \in 1 .. m - 1 : Pending'[i] = Pending[i + 1]
  BY <1>1, Taken
<1>3. Waiting(c) = Cardinality(Sends(Pending, m, c))
  BY WaitingIs
<1>4. Waiting(c)' = Cardinality(Sends(Pending', Len(Pending'), c))
  BY DEF Waiting, Unsent, Sends, IsSend
<1> HIDE DEF m
<1>5. Cardinality(Sends(Pending, m, c)) =
        Cardinality(Sends(Pending', m - 1, c)) + (IF IsSend(Pending[1], c) THEN 1 ELSE 0)
  BY <1>2, SendsTaken
<1> QED
  BY <1>2, <1>3, <1>4, <1>5

----------------------------------------------------------------------------
(* What was read and is not yet reaped                                      *)

LEMMA OpsAt ==
  ASSUME UringTypes
  PROVE  /\ \A i \in 1 .. Len(cq) : i \in 1 .. Len(Ops) /\ Ops[i] = cq[i].op
         /\ ring # <<>> => /\ Len(cq) + 1 \in 1 .. Len(Ops)
                           /\ Ops[Len(cq) + 1] = Head(ring)
<1>1. PICK n \in Nat : n = Len(cq)
  BY OpsTyped
<1>2. PICK a \in Seq(Operations), b \in Seq(Operations), c \in Seq(Operations) :
        a = Reported /\ b = ring /\ c = sq /\ Len(a) = n
  BY <1>1, OpsTyped
<1>3. PICK i \in Nat, j \in Nat : i = Len(b) /\ j = Len(c)
  BY <1>2
<1>4. /\ a \o b \in Seq(Operations) /\ Len(a \o b) = n + i
      /\ \A k \in 1 .. n : (a \o b)[k] = a[k]
      /\ i > 0 => (a \o b)[n + 1] = b[1]
  <2>1. /\ a \o b \in Seq(Operations) /\ Len(a \o b) = Len(a) + Len(b)
        /\ \A k \in 1 .. Len(a) + Len(b) :
             (a \o b)[k] = IF k <= Len(a) THEN a[k] ELSE b[k - Len(a)]
    BY ConcatProperties
  <2>2. \A k \in 1 .. n + i : (a \o b)[k] = IF k <= n THEN a[k] ELSE b[k - n]
    BY <1>2, <1>3, <2>1
  <2>3. \A k \in 1 .. n : k \in 1 .. n + i /\ k <= n
    OBVIOUS
  <2>4. i > 0 => n + 1 \in 1 .. n + i /\ ~(n + 1 <= n) /\ (n + 1) - n = 1
    OBVIOUS
  <2> QED
    BY <1>2, <1>3, <2>1, <2>2, <2>3, <2>4
<1>5. PICK d \in Seq(Operations) : d = a \o b /\ Len(d) = n + i
  BY <1>4
<1>6. /\ Len(d \o c) = (n + i) + j
      /\ \A k \in 1 .. n + i : (d \o c)[k] = d[k]
  BY <1>2, <1>3, <1>5, ConcatProperties
<1>7. Ops = d \o c
  BY <1>2, <1>5, OpsTyped
<1>8. \A k \in 1 .. n : a[k] = cq[k].op
  BY <1>1, <1>2 DEF Reported
<1>9. ASSUME NEW k \in 1 .. n PROVE k \in 1 .. Len(Ops) /\ Ops[k] = cq[k].op
  <2>1. k \in 1 .. n + i /\ k \in 1 .. (n + i) + j
    OBVIOUS
  <2>2. (d \o c)[k] = d[k] /\ d[k] = a[k] /\ a[k] = cq[k].op
    BY <1>4, <1>5, <1>6, <1>8, <2>1
  <2> QED
    BY <1>6, <1>7, <2>1, <2>2
<1>10. ASSUME ring # <<>>
       PROVE  n + 1 \in 1 .. Len(Ops) /\ Ops[n + 1] = Head(ring)
  <2>1. i > 0 /\ b[1] = Head(ring)
    BY <1>2, <1>3, <1>10
  <2> QED
    BY <1>3, <1>4, <1>5, <1>6, <1>7, <2>1
<1> QED
  BY <1>1, <1>9, <1>10

(* No connection has two recvs.                                             *)
LEMMA OneRecv ==
  ASSUME TypeInv, RecvInv, client.program = "uring", gen.pc # "stopped", NEW c,
         NEW i \in 1 .. Len(Ops), NEW j \in 1 .. Len(Ops), IsRecv(Ops[i], c), IsRecv(Ops[j], c)
  PROVE  i = j
<1>1. c \in Range(UringConns)
  <2>1. Ops[i] \in Operations
    BY Invs, OpsTyped, Elements
  <2> QED
    BY <2>1, OperationFields DEF IsRecv
<1>2. OneOrNobody(c)
  BY <1>1 DEF RecvInv
<1> QED
  BY <1>2 DEF OneOrNobody, One, Nobody

LEMMA OneArrived ==
  ASSUME TypeInv, RecvInv, client.program = "uring", gen.pc # "stopped", NEW c
  PROVE  /\ \A i, j \in Arrived(c) : i = j
         /\ ring # <<>> /\ IsRecv(Head(ring), c) => Arrived(c) = {}
<1>1. Len(cq) \in Nat
  BY Invs, OpsTyped
<1>2. \A i \in Arrived(c) : i \in 1 .. Len(Ops) /\ IsRecv(Ops[i], c) /\ i # Len(cq) + 1
  BY <1>1, Invs, OpsAt DEF Arrived, IsRecv
<1>3. \A i, j \in Arrived(c) : i = j
  BY <1>2, OneRecv
<1>4. ring # <<>> /\ IsRecv(Head(ring), c) => Arrived(c) = {}
  BY <1>2, Invs, OpsAt, OneRecv
<1> QED
  BY <1>3, <1>4

LEMMA GotTyped ==
  ASSUME UringTypes, NEW c
  PROVE  Got(c) \in Bytes
<1>1. cq \in Seq(Completions) /\ \A i \in 1 .. Len(cq) : cq[i] \in Completions
  BY CompletionsTyped, Elements
<1>2. \A k \in Completions : k.res \in Bytes
  BY DEF Completions
<1>3. Arrived(c) \subseteq 1 .. Len(cq)
  BY DEF Arrived
<1> QED
  BY <1>1, <1>2, <1>3, EmptyTyped DEF Got

LEMMA GotSame ==
  ASSUME NEW c, cq' = cq
  PROVE  Got(c)' = Got(c)
BY DEF Got, Arrived

(* The kernel reports something else, or what it has read.                  *)
LEMMA GotReported ==
  ASSUME UringTypes, NEW c, NEW e \in Completions, cq' = Append(cq, e)
  PROVE  /\ ~IsRecv(e.op, c) => Got(c)' = Got(c)
         /\ IsRecv(e.op, c) /\ Arrived(c) = {} => Got(c)' = e.res /\ Got(c) = <<>>
<1>1. cq \in Seq(Completions) /\ Len(cq) \in Nat
  BY CompletionsTyped
<1>2. PICK m \in Nat : m = Len(cq)
  BY <1>1
<1>3. /\ Len(cq') = m + 1 /\ cq'[m + 1] = e /\ \A i \in 1 .. m : cq'[i] = cq[i]
  BY <1>1, <1>2, Appended
<1>4. /\ \A i \in 1 .. m + 1 : i \in 1 .. m \/ i = m + 1
      /\ \A i \in 1 .. m : i \in 1 .. m + 1 /\ i # m + 1
      /\ m + 1 \in 1 .. m + 1
  OBVIOUS
<1>5. /\ Arrived(c) = {i \in 1 .. m : IsRecv(cq[i].op, c)}
      /\ Arrived(c)' = {i \in 1 .. m + 1 : IsRecv(cq'[i].op, c)}
  BY <1>2, <1>3 DEF Arrived, IsRecv
<1>6. ASSUME ~IsRecv(e.op, c) PROVE Got(c)' = Got(c)
  <2>1. Arrived(c)' = Arrived(c)
    BY <1>3, <1>4, <1>5, <1>6
  <2>2. CASE Arrived(c) = {}
    BY <2>1, <2>2 DEF Got
  <2>3. CASE Arrived(c) # {}
    <3>1. PICK k \in 1 .. m : k = CHOOSE i \in Arrived(c) : TRUE
      BY <1>5, <2>3
    <3>2. Got(c) = cq[k].res /\ Got(c)' = cq'[k].res
      BY <2>1, <2>3, <3>1 DEF Got
    <3> QED
      BY <1>3, <3>2
  <2> QED
    BY <2>2, <2>3
<1>7. ASSUME IsRecv(e.op, c), Arrived(c) = {} PROVE Got(c)' = e.res /\ Got(c) = <<>>
  <2>1. Arrived(c)' = {m + 1}
    BY <1>3, <1>4, <1>5, <1>7
  <2> QED
    BY <1>3, <1>7, <2>1 DEF Got
<1> QED
  BY <1>6, <1>7

(* It is reaped, or something else is.                                      *)
LEMMA GotReaped ==
  ASSUME UringTypes, NEW c, cq # <<>>, cq' = Tail(cq), \A i, j \in Arrived(c) : i = j
  PROVE  /\ ~IsRecv(Head(cq).op, c) => Got(c)' = Got(c)
         /\ IsRecv(Head(cq).op, c) => Got(c)' = <<>> /\ Got(c) = Head(cq).res
<1>1. cq \in Seq(Completions)
  BY CompletionsTyped
<1>2. PICK m \in Nat \ {0} : m = Len(cq)
  BY <1>1, Taken
<1>3. /\ Len(cq') = m - 1 /\ Head(cq) = cq[1]
      /\ \A i \in 1 .. m - 1 : cq'[i] = cq[i + 1]
  BY <1>1, <1>2, Taken
<1>4. /\ \A i \in 1 .. m - 1 : i + 1 \in 1 .. m /\ i + 1 # 1
      /\ \A i \in 1 .. m : i = 1 \/ (i - 1 \in 1 .. m - 1 /\ (i - 1) + 1 = i)
      /\ \A i, j \in 1 .. m - 1 : i + 1 = j + 1 => i = j
      /\ 1 \in 1 .. m
  OBVIOUS
<1>5. /\ Arrived(c) = {i \in 1 .. m : IsRecv(cq[i].op, c)}
      /\ Arrived(c)' = {i \in 1 .. m - 1 : IsRecv(cq'[i].op, c)}
  BY <1>2, <1>3 DEF Arrived, IsRecv
<1>6. \A i \in Arrived(c)' : i \in 1 .. m - 1 /\ i + 1 \in Arrived(c)
  BY <1>3, <1>4, <1>5
<1>7. ASSUME ~IsRecv(Head(cq).op, c) PROVE Got(c)' = Got(c)
  <2>1. \A i \in Arrived(c) : i - 1 \in Arrived(c)' /\ (i - 1) + 1 = i /\ i - 1 \in 1 .. m - 1
    BY <1>3, <1>4, <1>5, <1>7
  <2>2. CASE Arrived(c) = {}
    <3>1. Arrived(c)' = {}
      BY <1>6, <2>2
    <3> QED
      BY <2>2, <3>1 DEF Got
  <2>3. CASE Arrived(c) # {}
    <3>1. PICK k \in Arrived(c) : Got(c) = cq[k].res
      BY <2>3 DEF Got
    <3>2. PICK l \in 1 .. m - 1 : l = k - 1 /\ l + 1 = k /\ l \in Arrived(c)'
      BY <2>1
    <3>3. \A i \in Arrived(c)' : i = l
      BY <1>4, <1>6, <3>1, <3>2
    <3>4. Got(c)' = cq'[l].res
      <4>1. Arrived(c)' = {l}
        BY <3>2, <3>3
      <4> QED
        BY <4>1 DEF Got
    <3> QED
      BY <1>3, <3>1, <3>2, <3>4
  <2> QED
    BY <2>2, <2>3
<1>8. ASSUME IsRecv(Head(cq).op, c) PROVE Got(c)' = <<>> /\ Got(c) = Head(cq).res
  <2>1. 1 \in Arrived(c)
    BY <1>3, <1>4, <1>5, <1>8
  <2>2. Arrived(c)' = {}
    BY <1>4, <1>6, <2>1
  <2>3. Arrived(c) = {1}
    BY <2>1
  <2> QED
    BY <1>3, <2>2, <2>3 DEF Got
<1> QED
  BY <1>7, <1>8

----------------------------------------------------------------------------
(* What a connection of the ring carries                                    *)

HasRead(c) == uconn[c].rbuf \o Got(c)
Asking(c) == uconn[c].in_flight - Waiting(c)
OwnFrame == Frame(TheReply(Template))

(* Of a connection of whose replies a has been read and n are asked for:    *)
(* what it carries is not worth more than that; and while nothing has gone  *)
(* wrong, what is read and what is owed are n replies to the template f.    *)
Flow(f, k, a, n, failed) ==
  /\ k.client \in {"none", "open"}
  /\ Carries(k, a, 5 * n)
  /\ k.whole /\ ~failed /\ k.server # "closed" => <<a \o k.owed, n>> \in Chains({f})

LEMMA OwnFrameTyped ==
  ASSUME ClientTypes
  PROVE  OwnFrame \in ReplyFrames /\ OwnFrame \in Bytes /\ OwnFrame[3] = proto
<1> DEFINE s == [x |-> 1, hp |-> Byte - 1]
<1>1. s \in States /\ proto \in Codecs
  BY BinaryAssumption DEF States, ClientTypes
<1>2. Template = Payload(proto, s)
  BY DEF Template
<1> HIDE DEF s
<1>3. player_mutate(s) \in States
  BY <1>1, MutateTyped
<1>4. TheReply(Template) = Payload(proto, player_mutate(s))
  BY <1>1, <1>2, OwnReply, OneReply
<1>5. PICK q \in Codecs \X States : q = <<proto, player_mutate(s)>>
  BY <1>1, <1>3
<1>6. OwnFrame = Frame(Payload(q[1], q[2]))
  BY <1>4, <1>5 DEF OwnFrame
<1>7. OwnFrame \in ReplyFrames
  BY <1>6 DEF ReplyFrames
<1>8. PICK p : p = Payload(proto, player_mutate(s)) /\ p \in Bytes /\ Len(p) \in 3 .. 4
  BY <1>1, <1>3, PayloadTyped
<1>9. p[1] = proto
  BY <1>1, <1>3, <1>8, PayloadFields
<1>10. Frame(p)[3] = p[1]
  <2>1. PICK h : h = <<Len(p) \div Byte, Len(p) % Byte>>
    OBVIOUS
  <2>2. Len(h) = 2 /\ h \in Seq({Len(p) \div Byte, Len(p) % Byte})
    BY <2>1
  <2>3. PICK T : p \in Seq(T) /\ h \in Seq(T)
    <3>1. p \in Seq(0 .. Byte - 1)
      BY <1>8, ByteSeq
    <3>2. p \in Seq((0 .. Byte - 1) \cup {Len(p) \div Byte, Len(p) % Byte})
      BY <3>1, SeqMonotonic
    <3>3. h \in Seq((0 .. Byte - 1) \cup {Len(p) \div Byte, Len(p) % Byte})
      BY <2>2, SeqMonotonic
    <3> QED
      BY <3>2, <3>3
  <2>4. Frame(p) = h \o p
    BY <2>1 DEF Frame
  <2>5. (h \o p)[3] = p[1]
    <3>1. PICK n \in 3 .. 4 : n = Len(p)
      BY <1>8
    <3>2. \A i \in 1 .. Len(h) + Len(p) : (h \o p)[i] = IF i <= Len(h) THEN h[i] ELSE p[i - Len(h)]
      BY <2>3, ConcatProperties
    <3>3. 3 \in 1 .. 2 + n /\ ~(3 <= 2) /\ 3 - 2 = 1
      OBVIOUS
    <3> QED
      BY <2>2, <3>1, <3>2, <3>3
  <2> QED
    BY <2>4, <2>5
<1> QED
  BY <1>4, <1>7, <1>8, <1>9, <1>10, FrameSizes DEF OwnFrame

(* The request takes one byte for its x.                                    *)
LEMMA PacketSize ==
  ASSUME ClientTypes
  PROVE  Packet \in Bytes /\ Len(Packet) = 5
<1>1. [x |-> 1, hp |-> Byte - 1] \in States
  BY BinaryAssumption DEF States
<1>2. Template \in Bytes /\ Len(Template) \in 3 .. 4
  BY <1>1, PayloadTyped DEF Template, ClientTypes
<1>3. Len(Template) = 3
  <2>1. 1 < Byte \div 2
    BY BinaryAssumption
  <2>2. Template = <<proto>> \o <<1>> \o <<Byte - 1>>
    BY <2>1 DEF Template, Payload, PackUint
  <2> QED
    BY <2>2
<1>4. Packet \in Bytes /\ Len(Packet) = 2 + Len(Template)
  <2>1. Len(Template) \in 0 .. 15
    BY <1>2
  <2> QED
    BY <1>2, <2>1, FrameTyped DEF Packet
<1> QED
  BY <1>3, <1>4

LEMMA FlowServed ==
  ASSUME NEW f, NEW k \in ConnTypes, NEW r \in ConnTypes, Served(k, r), NEW a \in Bytes,
         NEW n \in Int, NEW failed, Flow(f, k, a, n, failed)
  PROVE  Flow(f, r, a, n, failed)
<1>1. Carries(r, a, 5 * n)
  <2>1. 5 * n \in Int
    OBVIOUS
  <2> QED
    BY <2>1, ServedCarries DEF Flow
<1> QED
  BY <1>1 DEF Flow, Served

LEMMA FlowConnected ==
  ASSUME NEW f, NEW k \in ConnTypes, k.server = "none", NEW a, NEW n, NEW failed,
         Flow(f, k, a, n, failed)
  PROVE  Flow(f, [k EXCEPT !.client = "open", !.server = "backlog"], a, n, failed)
<1> DEFINE r == [k EXCEPT !.client = "open", !.server = "backlog"]
<1>1. /\ r.client = "open" /\ r.server = "backlog" /\ r.whole = k.whole /\ r.owed = k.owed
      /\ r.down = k.down /\ r.output = k.output /\ r.up = k.up /\ r.input = k.input
  BY DEF ConnTypes
<1> HIDE DEF r
<1>2. Line(r) = Line(k) /\ Size(r) = Size(k) /\ k.client # "closed"
  BY <1>1 DEF Line, Size, Flow
<1>3. (r.server = "closed") = (k.server = "closed")
  BY <1>1
<1>4. Carries(r, a, 5 * n)
  BY <1>2, <1>3 DEF Carries, Flow
<1>5. Flow(f, r, a, n, failed)
  BY <1>1, <1>4 DEF Flow
<1> QED
  BY <1>5 DEF r

(* A request that could not be sent.                                        *)
LEMMA FlowFailed ==
  ASSUME NEW f, NEW k \in ConnTypes, NEW a, NEW n \in Int, NEW m \in Int, n <= m, NEW failed,
         Flow(f, k, a, n, failed)
  PROVE  Flow(f, k, a, m, TRUE)
<1>1. PICK i \in Int : i = Size(k)
  BY SizeTyped
<1>2. 5 * n \in Int /\ 5 * m \in Int /\ i + 5 * n <= i + 5 * m
  OBVIOUS
<1>3. k.client # "closed" => Worth(a \o Line(k), k.server = "closed", i, 5 * n)
  BY <1>1 DEF Flow, Carries
<1>4. k.client # "closed" => Worth(a \o Line(k), k.server = "closed", i, 5 * m)
  BY <1>2, <1>3, WorthLess
<1> QED
  BY <1>1, <1>4 DEF Flow, Carries

(* A request, or a part of it, reaches the socket.                          *)
LEMMA FlowSent ==
  ASSUME NEW f \in Bytes, NEW k \in ConnTypes, k.server # "closed", NEW a \in Bytes, NEW n \in Int,
         NEW failed, Flow(f, k, a, n, failed), NEW part \in Bytes, Len(part) <= 5,
         NEW r, r.client = k.client, r.server = k.server, r.whole => k.whole,
         r.owed = k.owed \o f, r.up = k.up \o part,
         r.down = k.down, r.output = k.output, r.input = k.input
  PROVE  Flow(f, r, a, n + 1, failed)
<1>1. Len(k.up) \in Nat /\ Len(k.input) \in Nat /\ k.owed \in Bytes /\ k.up \in Bytes
  BY SizeTyped, ConnFields
<1>2. PICK i \in Nat, j \in Nat, l \in Nat : i = Len(k.up) /\ j = Len(k.input) /\ l = Len(part)
  BY <1>1, ByteSeq
<1>3. Len(r.up) = i + l /\ i + l \in Nat
  <2>1. PICK u \in Bytes : u = k.up
    BY <1>1
  <2>2. Len(u \o part) = Len(u) + Len(part)
    BY Joined
  <2> QED
    BY <1>2, <2>1, <2>2
<1>4. Size(k) = i + j
  BY <1>2, SizeIs
<1>5. Size(r) = (i + l) + j
  BY <1>2, <1>3, SizeIs
<1>6. Carries(r, a, 5 * (n + 1))
  <2>1. k.client # "closed" /\ r.client # "closed" /\ Line(r) = Line(k)
    BY DEF Flow, Line
  <2>2. PICK s, closed : s = a \o Line(k) /\ closed = (k.server = "closed")
    OBVIOUS
  <2>3. Worth(s, closed, i + j, 5 * n)
    BY <1>4, <2>1, <2>2 DEF Flow, Carries
  <2>4. /\ 5 * n \in Int /\ 5 * (n + 1) \in Int /\ i + j \in Int /\ (i + l) + j \in Int
        /\ ((i + l) + j) + 5 * n <= (i + j) + 5 * (n + 1)
    <3>1. l <= 5
      BY <1>2
    <3> QED
      BY <3>1
  <2>5. Worth(s, closed, (i + l) + j, 5 * (n + 1))
    BY <2>3, <2>4, WorthLess
  <2> QED
    BY <1>5, <2>1, <2>2, <2>5 DEF Carries
<1>7. ASSUME r.whole, ~failed PROVE <<a \o r.owed, n + 1>> \in Chains({f})
  <2>1. <<a \o k.owed, n>> \in Chains({f}) /\ {f} \in SUBSET Bytes
    BY <1>7 DEF Flow
  <2>2. <<(a \o k.owed) \o f, n + 1>> \in Chains({f})
    BY <2>1, ChainMore
  <2>3. PICK o \in Bytes : o = k.owed
    BY <1>1
  <2>4. (a \o o) \o f = a \o (o \o f)
    <3>1. Groups(a, o, f)
      BY Grouping
    <3> QED
      BY <3>1 DEF Groups
  <2> QED
    BY <2>2, <2>3, <2>4
<1>8. r.client \in {"none", "open"}
  BY DEF Flow
<1> QED
  BY <1>6, <1>7, <1>8 DEF Flow

(* A part of the front is taken aside.                                      *)
LEMMA FrontGrouped ==
  ASSUME NEW a \in Bytes, NEW b \in Bytes
  PROVE  \A e \in Bytes : (a \o b) \o e = a \o (b \o e)
BY Grouped, Zenon

LEMMA GroupedEnd ==
  ASSUME NEW t \in Bytes
  PROVE  \A h, e \in Bytes : (h \o e) \o t = h \o (e \o t)
BY Grouped, Zenon

LEMMA FrontsAside ==
  ASSUME NEW q \in Bytes \X Bytes \X Bytes \X Bytes \X Bytes
  PROVE  /\ (q[1] \o q[2]) \o (q[3] \o q[4]) = q[1] \o ((q[2] \o q[3]) \o q[4])
         /\ (q[1] \o q[2]) \o ((q[3] \o q[4]) \o q[5]) = q[1] \o (((q[2] \o q[3]) \o q[4]) \o q[5])
<1>1. PICK a \in Bytes, b \in Bytes, d \in Bytes : a = q[1] /\ b = q[2] /\ d = q[3]
  OBVIOUS
<1>2. \A e \in Bytes : (a \o b) \o e = a \o (b \o e)
  BY FrontGrouped
<1>3. \A e \in Bytes : (b \o d) \o e = b \o (d \o e)
  BY FrontGrouped
<1>4. PICK out \in Bytes, t \in Bytes : out = q[4] /\ t = q[5]
  OBVIOUS
<1>5. d \o out \in Bytes /\ b \o d \in Bytes /\ out \o t \in Bytes
  BY Joined
<1>6. (d \o out) \o t = d \o (out \o t) /\ ((b \o d) \o out) \o t = (b \o d) \o (out \o t)
  <2>1. \A h, e \in Bytes : (h \o e) \o t = h \o (e \o t)
    BY GroupedEnd
  <2> QED
    BY <1>5, <2>1
<1>7. d \o (out \o t) \in Bytes
  BY <1>5, Joined
<1>8. (a \o b) \o (d \o out) = a \o ((b \o d) \o out)
  BY <1>2, <1>3, <1>5
<1>9. (a \o b) \o ((d \o out) \o t) = a \o (((b \o d) \o out) \o t)
  <2>1. PICK u \in Bytes : u = out \o t
    BY <1>5
  <2>2. (b \o d) \o u = b \o (d \o u)
    BY <1>3
  <2>3. (a \o b) \o (d \o u) = a \o (b \o (d \o u))
    BY <1>2, <1>7, <2>1
  <2> QED
    BY <1>6, <2>1, <2>2, <2>3
<1> QED
  BY <1>1, <1>4, <1>8, <1>9

(* A part of what is in the socket is read.                                 *)
LEMMA FlowRead ==
  ASSUME NEW f, NEW k \in ConnTypes, Follows(k, <<>>), k.client # "none", NEW a \in Bytes,
         NEW n, NEW failed, Flow(f, k, a, n, failed), NEW l \in 0 .. Len(k.down)
  PROVE  Flow(f, Read(k, l), a \o SubSeq(k.down, 1, l), n, failed)
<1> DEFINE r == Read(k, l)
<1>1. /\ r.client = k.client /\ r.server = k.server /\ r.whole = k.whole
      /\ r.down = Drop(k.down, l) /\ r.owed = Drop(k.owed, l) /\ r.output = k.output
      /\ r.input = k.input /\ r.up = k.up
  BY DEF Read, ConnTypes
<1> HIDE DEF r
<1>2. PICK down \in Bytes, out \in Bytes : down = k.down /\ out = k.output
  BY ConnFields
<1>3. PICK b \in Bytes, d \in Bytes :
        b = SubSeq(down, 1, l) /\ d = Drop(down, l) /\ down = b \o d
  BY <1>2, Cut
<1>4. (a \o b) \o (d \o out) = a \o (down \o out)
  <2>1. PICK q \in Bytes \X Bytes \X Bytes \X Bytes \X Bytes : q = <<a, b, d, out, out>>
    OBVIOUS
  <2>2. (q[1] \o q[2]) \o (q[3] \o q[4]) = q[1] \o ((q[2] \o q[3]) \o q[4])
    BY FrontsAside
  <2>3. q[1] = a /\ q[2] = b /\ q[3] = d /\ q[4] = out
    BY <2>1
  <2>4. (a \o b) \o (d \o out) = a \o ((b \o d) \o out)
    BY <2>2, <2>3
  <2> QED
    BY <1>3, <2>4
<1>5. (a \o b) \o Line(r) = a \o Line(k) /\ Size(r) = Size(k)
  BY <1>1, <1>2, <1>3, <1>4 DEF Line, Size
<1>6. Carries(r, a \o b, 5 * n)
  BY <1>1, <1>5 DEF Flow, Carries
<1>7. ASSUME k.whole, ~failed, k.server # "closed"
      PROVE  <<(a \o b) \o r.owed, n>> \in Chains({f})
  <2>1. k.client = "open"
    BY DEF Flow
  <2>2. PICK t \in Bytes : k.owed = (down \o out) \o t
    BY <1>2, <1>7, <2>1 DEF Follows
  <2>3. r.owed = (d \o out) \o t
    <3>1. l \in 0 .. Len(down)
      BY <1>2
    <3>2. Drop((down \o out) \o t, l) = (Drop(down, l) \o out) \o t
      <4>1. DropsFront(down, out, t, l)
        BY <3>1, DropFront
      <4> QED
        BY <4>1 DEF DropsFront
    <3> QED
      BY <1>1, <1>3, <2>2, <3>2
  <2>4. (a \o b) \o r.owed = a \o k.owed
    <3>1. PICK q \in Bytes \X Bytes \X Bytes \X Bytes \X Bytes : q = <<a, b, d, out, t>>
      OBVIOUS
    <3>2. (q[1] \o q[2]) \o ((q[3] \o q[4]) \o q[5]) = q[1] \o (((q[2] \o q[3]) \o q[4]) \o q[5])
      BY FrontsAside
    <3> QED
      BY <1>3, <2>2, <2>3, <3>1, <3>2
  <2> QED
    BY <1>7, <2>4 DEF Flow
<1>8. Flow(f, r, a \o b, n, failed)
  BY <1>1, <1>6, <1>7 DEF Flow
<1> QED
  BY <1>2, <1>3, <1>8 DEF r

(* A packet is taken from what was read.                                    *)
LEMMA FlowTaken ==
  ASSUME NEW f \in ReplyFrames, f[3] = proto, NEW k \in ConnTypes, NEW a \in Bytes, NEW b \in Bytes,
         NEW n \in Int, NEW failed, Flow(f, k, a \o b, n, failed), ~Drained(a)
  PROVE  Flow(f, k, Drop(a, 2 + Length(a)) \o b, n - Answers(a), failed)
<1> DEFINE d == Drop(a, 2 + Length(a))
<1>1. PICK l \in Bytes, i \in Int : l = Line(k) /\ i = Size(k)
  BY SizeTyped
<1>2. PICK o \in Bytes : o = k.owed
  BY ConnFields
<1>3. k.client # "closed" /\ k.client \in {"none", "open"}
  BY DEF Flow
<1>4. PICK closed : closed = (k.server = "closed")
  OBVIOUS
<1>5. Worth((a \o b) \o l, closed, i, 5 * n)
  BY <1>1, <1>3, <1>4 DEF Flow, Carries
<1>6. (a \o b) \o l = a \o (b \o l) /\ (a \o b) \o o = a \o (b \o o)
  <2>1. Groups(a, b, l) /\ Groups(a, b, o)
    BY Grouping
  <2> QED
    BY <2>1 DEF Groups
<1>7. b \o l \in Bytes /\ b \o o \in Bytes
  BY Joined
<1>8. Worth(d \o (b \o l), closed, i, 5 * n - 5)
  <2>1. PICK m \in Int : m = 5 * n
    OBVIOUS
  <2>2. PICK x \in Bytes : x = b \o l
    BY <1>7
  <2>3. Worth(a \o x, closed, i, m)
    BY <1>5, <1>6, <2>1, <2>2
  <2> QED
    BY <2>1, <2>2, <2>3, WorthTaken
<1>9. d \in Bytes
  <2>1. 2 + Length(a) \in 0 .. Len(a)
    <3>1. Len(a) \in Nat
      BY ByteSeq
    <3>2. Len(a) >= 2 /\ Length(a) \in 1 .. MaxPayload /\ ~(Len(a) < 2 + Length(a))
      BY <3>1 DEF Drained, Incomplete, BadLength
    <3>3. Length(a) \in Nat
      BY <3>2, BinaryAssumption
    <3> QED
      BY <3>1, <3>2, <3>3
  <2> QED
    BY <2>1, Cut
<1>10. (d \o b) \o l = d \o (b \o l) /\ (d \o b) \o o = d \o (b \o o)
  <2> HIDE DEF d
  <2> QED
    BY <1>9, Regrouped, Zenon
<1> HIDE DEF d
<1>11. Answers(a) \in 0 .. 1
  BY DEF Answers
<1>12. Carries(k, d \o b, 5 * (n - Answers(a)))
  <2>1. PICK y \in 0 .. 1, s \in {d \o (b \o l)} : y = Answers(a)
    BY <1>11
  <2>2. /\ 5 * n - 5 \in Int /\ 5 * (n - y) \in Int
        /\ i + (5 * n - 5) <= i + 5 * (n - y)
    OBVIOUS
  <2>3. Worth(s, closed, i, 5 * n - 5)
    BY <1>8, <2>1
  <2>4. Worth(s, closed, i, 5 * (n - y))
    BY <2>2, <2>3, WorthLess
  <2> QED
    BY <1>1, <1>3, <1>4, <1>10, <2>1, <2>4 DEF Carries
<1>13. ASSUME k.whole, ~failed, k.server # "closed"
       PROVE  <<(d \o b) \o k.owed, n - Answers(a)>> \in Chains({f})
  <2>1. <<(a \o b) \o o, n>> \in Chains({f})
    BY <1>2, <1>13 DEF Flow
  <2>2. PICK x \in Bytes, G \in SUBSET ReplyFrames : x = b \o o /\ G = {f}
    BY <1>7
  <2>3. <<a \o x, n>> \in Chains(G)
    BY <1>6, <2>1, <2>2
  <2>4. PICK h \in G, g \in Bytes, m \in Nat :
          /\ 2 + Length(a) = Len(h) /\ Len(h) <= Len(a) /\ SubSeq(a, 1, Len(h)) = h
          /\ g = Drop(a, 2 + Length(a)) \o x /\ n = m + 1 /\ <<g, m>> \in Chains(G)
    BY <2>3, FrontTaken
  <2>5. h = f
    BY <2>2
  <2>6. Len(f) \in 5 .. 6
    BY FrameSizes
  <2>7. a[3] = f[3]
    <3>1. PICK z \in 5 .. 6 : z = Len(f)
      BY <2>6
    <3>2. SubSeq(a, 1, z) = f /\ z <= Len(a) /\ a \in Seq(0 .. Byte - 1) /\ Len(a) \in Nat
      BY <2>4, <2>5, <3>1, ByteSeq
    <3>3. SubSeq(a, 1, z)[3] = a[3]
      BY <3>2
    <3> QED
      BY <3>2, <3>3
  <2>8. Answers(a) = 1
    BY <2>7 DEF Answers
  <2>9. n - 1 = m
    BY <2>4
  <2> QED
    BY <1>2, <1>10, <2>2, <2>4, <2>8, <2>9 DEF d
<1> QED
  BY <1>3, <1>12, <1>13 DEF Flow, d

----------------------------------------------------------------------------
(* What the connections carry, step by step                                 *)

FlowOf(c) == Flow(OwnFrame, conn[c], HasRead(c), Asking(c), uconn[c].failed)

FlowInv ==
  client.program = "uring" /\ gen.pc # "stopped" => \A c \in Conns : FlowOf(c)

LEMMA FlowFields ==
  ASSUME TypeInv, NEW c \in Conns
  PROVE  /\ HasRead(c) \in Bytes /\ Asking(c) \in Int /\ Got(c) \in Bytes /\ Waiting(c) \in Nat
         /\ conn[c] \in ConnTypes /\ uconn[c].rbuf \in Bytes /\ uconn[c].in_flight \in Int
<1>1. /\ Got(c) \in Bytes /\ Waiting(c) \in Nat /\ uconn[c].rbuf \in Bytes
      /\ uconn[c].in_flight \in Int /\ conn[c] \in ConnTypes
  BY Invs, GotTyped, WaitingIs, UringFields
<1>2. HasRead(c) \in Bytes
  BY <1>1, Joined DEF HasRead
<1>3. Asking(c) \in Int
  BY <1>1 DEF Asking
<1> QED
  BY <1>1, <1>2, <1>3

LEMMA WaitingNext ==
  ASSUME UringTypes', NEW c
  PROVE  Waiting(c)' \in Nat
<1>1. ring' \in Seq(Operations') /\ sq' \in Seq(Operations')
  BY DEF UringTypes
<1>2. Pending' \in Seq(Operations')
  BY <1>1, JoinTyped DEF Pending
<1>3. Len(Pending') \in Nat
  BY <1>2
<1>4. Waiting(c)' = Cardinality(Sends(Pending', Len(Pending'), c))
  BY DEF Waiting, Unsent, Sends, IsSend
<1> QED
  BY <1>3, <1>4, SendsCounted

LEMMA FlowStep ==
  ASSUME FlowInv, client' = client, client.program = "uring", gen.pc # "stopped",
         \A c \in Conns : FlowOf(c) => FlowOf(c)'
  PROVE  FlowInv'
BY DEF FlowInv

LEMMA FlowKept ==
  ASSUME NEW c, proto' = proto, conn'[c] = conn[c], HasRead(c)' = HasRead(c),
         Asking(c)' = Asking(c), uconn'[c].failed = uconn[c].failed, FlowOf(c)
  PROVE  FlowOf(c)'
<1>1. OwnFrame' = OwnFrame
  BY DEF OwnFrame, Template
<1> QED
  BY <1>1 DEF FlowOf

(* A connection of whose operations and buffers a step takes no notice.     *)
LEMMA HasReadSame ==
  ASSUME NEW c, uconn'[c].rbuf = uconn[c].rbuf, Got(c)' = Got(c)
  PROVE  HasRead(c)' = HasRead(c)
BY DEF HasRead

LEMMA AskingSame ==
  ASSUME NEW c, uconn'[c].in_flight = uconn[c].in_flight, Waiting(c)' = Waiting(c)
  PROVE  Asking(c)' = Asking(c)
BY DEF Asking

LEMMA ServerFlow ==
  ASSUME TypeInv, TypeInv', FlowInv, ServerNext, UNCHANGED <<clientVars, uringVars>>
  PROVE  FlowInv'
<1>1. /\ client' = client /\ proto' = proto /\ gen' = gen /\ uconn' = uconn /\ cq' = cq
      /\ Pending' = Pending
  BY DEF clientVars, uringVars, Pending
<1>2. CASE ~(client.program = "uring" /\ gen.pc # "stopped")
  BY <1>1, <1>2 DEF FlowInv
<1>3. CASE client.program = "uring" /\ gen.pc # "stopped"
  <2>1. ASSUME NEW c \in Conns, FlowOf(c)
        PROVE  FlowOf(c)'
    <3>1. conn'[c] \in ConnTypes /\ conn[c] \in ConnTypes /\ HasRead(c) \in Bytes /\ Asking(c) \in Int
      <4>1. conn'[c] \in ConnTypes
        BY DEF TypeInv, ServerInv, ConnInv
      <4> QED
        BY <4>1, FlowFields
    <3>2. Served(conn[c], conn'[c])
      BY Invs, ServerServes
    <3>3. HasRead(c)' = HasRead(c) /\ Asking(c)' = Asking(c)
      BY <1>1, GotSame, WaitingSame, HasReadSame, AskingSame
    <3>4. OwnFrame' = OwnFrame
      BY <1>1 DEF OwnFrame, Template
    <3>5. Flow(OwnFrame, conn'[c], HasRead(c), Asking(c), uconn[c].failed)
      BY <2>1, <3>1, <3>2, FlowServed DEF FlowOf
    <3> QED
      BY <1>1, <3>3, <3>4, <3>5 DEF FlowOf
  <2> QED
    BY <1>1, <1>3, <2>1, FlowStep
<1> QED
  BY <1>2, <1>3

LEMMA FlowStarts ==
  ASSUME Init
  PROVE  FlowInv
<1>1. TypeInv
  BY TypesStart
<1>2. ASSUME NEW c \in Conns
      PROVE  FlowOf(c)
  <2>1. conn[c] = NoConn /\ cq = <<>> /\ ring = <<>> /\ sq = <<>>
        /\ uconn[c] = [in_flight |-> 0, rbuf |-> <<>>, failed |-> FALSE, deaf |-> FALSE]
    BY DEF Init, ServerInit, UringInit
  <2>2. Arrived(c) = {} /\ Unsent(c) = {}
    BY <2>1 DEF Arrived, Unsent, Pending
  <2>3. Got(c) = <<>> /\ Waiting(c) = 0
    BY <2>2, FS_EmptySet DEF Got, Waiting
  <2>4. HasRead(c) = <<>> /\ Asking(c) = 0
    BY <2>1, <2>3 DEF HasRead, Asking
  <2>5. <<<<>>, 0>> \in Chains({OwnFrame}) /\ <<<<>>, 0>> \in Chains(ReplyFrames)
    <3>1. OwnFrame \in Bytes
      BY <1>1, Invs, OwnFrameTyped
    <3>2. {OwnFrame} \in SUBSET Bytes
      BY <3>1
    <3> QED
      BY <3>2, FramesTyped, ChainAdds
  <2>6. Line(NoConn) = <<>> /\ Size(NoConn) = 0
    BY DEF NoConn, Line, Size
  <2>7. <<>> \o <<>> = <<>>
    BY WithNothing
  <2>8. Worth(<<>> \o Line(NoConn), NoConn.server = "closed", 0, 5 * 0)
    <3>1. Worth(<<>>, NoConn.server = "closed", 0, 0)
      BY <2>5, <2>7, EmptyTyped DEF Worth
    <3> QED
      BY <2>6, <2>7, <3>1
  <2>9. Carries(NoConn, <<>>, 5 * 0)
    BY <2>6, <2>8 DEF Carries
  <2>10. Flow(OwnFrame, NoConn, <<>>, 0, FALSE)
    BY <2>5, <2>7, <2>9 DEF Flow, NoConn
  <2> QED
    <3>1. uconn[c].failed = FALSE
      BY <2>1
    <3> QED
      BY <2>1, <2>4, <2>10, <3>1 DEF FlowOf
<1> QED
  BY <1>2 DEF FlowInv

(* Steps that only move operations along.                                   *)
LEMMA QuietFlow ==
  ASSUME TypeInv, TypeInv', RecvInv, FlowInv,
         \/ submit_and_wait \/ woken \/ cq_advance \/ refill \/ on_sigalrm_uring
         \/ submit_recv \/ reap_send
  PROVE  FlowInv'
<1>1. /\ conn' = conn /\ proto' = proto /\ client' = client
      /\ client.program = "uring" /\ gen.pc # "stopped"
  BY DEF submit_and_wait, woken, cq_advance, refill, on_sigalrm_uring, submit_recv, reap_send,
         Reap, Going, serverVars, clientVars
<1>2. UringTypes /\ UringTypes'
  BY DEF TypeInv
<1>3. ASSUME NEW c \in Conns
      PROVE  Waiting(c)' = Waiting(c)
  <2>1. CASE submit_and_wait
    <3>1. CASE UNCHANGED <<sq, ring>>
      BY <3>1, WaitingSame DEF Pending
    <3> QED
      BY <1>2, <2>1, <3>1, PendingSubmitted, WaitingSame DEF submit_and_wait
  <2>2. CASE woken \/ cq_advance \/ refill \/ on_sigalrm_uring \/ reap_send
    <3>1. Pending' = Pending
      BY <2>2 DEF woken, cq_advance, refill, on_sigalrm_uring, reap_send, Pending
    <3> QED
      BY <3>1, WaitingSame
  <2>3. CASE submit_recv
    <3>1. PICK op : op = Recv(It, TailOff(uconn[It]))
      OBVIOUS
    <3>2. CASE UNCHANGED <<sq, ring>>
      BY <3>2, WaitingSame DEF Pending
    <3>3. CASE Prepare(op)
      <4>1. op \in Operations
        BY <2>3, <3>1, SubmitRecvOps
      <4>2. ~IsSend(op, c)
        BY <3>1 DEF IsSend, Recv
      <4>3. Waiting(c)' = Waiting(c) + (IF IsSend(op, c) THEN 1 ELSE 0) /\ Waiting(c) \in Nat
        BY <1>2, <3>3, <4>1, WaitingPrepared, WaitingIs
      <4> QED
        BY <4>2, <4>3
    <3> QED
      BY <2>3, <3>1, <3>2, <3>3 DEF submit_recv, Receive
  <2> QED
    BY <2>1, <2>2, <2>3
<1>4. ASSUME NEW c \in Conns
      PROVE  Got(c)' = Got(c)
  <2>1. CASE reap_send
    <3>1. cq # <<>> /\ cq' = Tail(cq) /\ ~IsRecv(Head(cq).op, c)
      BY <2>1 DEF reap_send, Reap, IsRecv
    <3>2. \A i, j \in Arrived(c) : i = j
      BY <1>1, OneArrived
    <3> QED
      BY <1>2, <3>1, <3>2, GotReaped
  <2>2. CASE ~reap_send
    <3>1. cq' = cq
      BY <2>2 DEF submit_and_wait, woken, cq_advance, refill, on_sigalrm_uring, submit_recv
    <3> QED
      BY <3>1, GotSame
  <2> QED
    BY <2>1, <2>2
<1>5. ASSUME NEW c \in Conns, FlowOf(c)
      PROVE  FlowOf(c)'
  <2>1. /\ uconn'[c].rbuf = uconn[c].rbuf /\ uconn'[c].in_flight = uconn[c].in_flight
        /\ uconn'[c].failed = uconn[c].failed
    <3>1. PICK d : d = It
      OBVIOUS
    <3>2. uconn' = uconn \/ uconn' = [uconn EXCEPT ![d].deaf = TRUE]
      BY <3>1 DEF submit_and_wait, woken, cq_advance, refill, on_sigalrm_uring, submit_recv,
         Receive, reap_send
    <3> QED
      BY <3>2, DeafKeeps
  <2>2. HasRead(c)' = HasRead(c) /\ Asking(c)' = Asking(c)
    BY <1>3, <1>4, <2>1, HasReadSame, AskingSame
  <2> QED
    BY <1>1, <1>5, <2>1, <2>2, FlowKept
<1> QED
  BY <1>1, <1>5, FlowStep

(* A socket is connected.                                                   *)
LEMMA ConnectFlow ==
  ASSUME TypeInv, FlowInv, uring_connect
  PROVE  FlowInv'
<1>1. /\ proto' = proto /\ client' = client /\ uconn' = uconn /\ cq' = cq /\ Pending' = Pending
      /\ client.program = "uring" /\ gen.pc # "stopped"
  BY DEF uring_connect, Going, clientVars, Pending
<1>2. CASE Go("stopped")
  <2>1. gen'.pc = "stopped"
    BY <1>2, Invs, GoesTo
  <2> QED
    BY <2>1 DEF FlowInv
<1>3. CASE Connect(It)
  <2>1. PICK d \in Conns : d = It
    BY Invs, UringFields
  <2>2. conn[d] \in ConnTypes /\ conn[d].client = "none" /\ conn[d].server = "none"
    BY <1>3, <2>1, Invs DEF Connect, ServerInv, ListInv
  <2>3. PICK r : r = [conn[d] EXCEPT !.client = "open", !.server = "backlog"]
    OBVIOUS
  <2>4. conn'[d] = r /\ \A c \in Conns : c # d => conn'[c] = conn[c]
    <3>1. conn' = [conn EXCEPT ![d].client = "open", ![d].server = "backlog"]
      BY <1>3, <2>1 DEF Connect
    <3>2. conn \in [Conns -> ConnTypes]
      BY Invs DEF ConnInv
    <3> QED
      BY <2>3, <3>1, <3>2 DEF ConnTypes
  <2>5. ASSUME NEW c \in Conns, FlowOf(c)
        PROVE  FlowOf(c)'
    <3>1. HasRead(c)' = HasRead(c) /\ Asking(c)' = Asking(c)
      BY <1>1, GotSame, WaitingSame, HasReadSame, AskingSame
    <3>2. CASE c # d
      BY <1>1, <2>4, <2>5, <3>1, <3>2, FlowKept
    <3>3. CASE c = d
      <4>1. Flow(OwnFrame, r, HasRead(c), Asking(c), uconn[c].failed)
        BY <2>2, <2>3, <2>5, <3>3, FlowConnected DEF FlowOf
      <4>2. OwnFrame' = OwnFrame
        BY <1>1 DEF OwnFrame, Template
      <4> QED
        BY <1>1, <2>4, <3>1, <3>3, <4>1, <4>2 DEF FlowOf
    <3> QED
      BY <3>2, <3>3
  <2> QED
    BY <1>1, <2>5, FlowStep
<1> QED
  BY <1>2, <1>3 DEF uring_connect

(* A request is prepared, or counted though it is not.                      *)
LEMMA SubmitSendFlow ==
  ASSUME TypeInv, TypeInv', FlowInv, submit_send
  PROVE  FlowInv'
<1>1. /\ proto' = proto /\ client' = client /\ conn' = conn /\ cq' = cq
      /\ client.program = "uring" /\ gen.pc # "stopped"
  BY DEF submit_send, Going, clientVars, serverVars
<1>2. PICK d \in Conns : d = It
  BY Invs, UringFields
<1>3. /\ UringTypes /\ UringTypes'
      /\ uconn \in [Conns -> [in_flight : Int, rbuf : Bytes, failed : BOOLEAN, deaf : BOOLEAN]]
  BY DEF TypeInv, UringTypes
<1>4. PICK n \in Int : n = uconn[d].in_flight
  BY <1>3
<1>5. CASE /\ alloc_send_slot /\ Prepare(Send(It, Last(free)))
           /\ uconn' = [uconn EXCEPT ![It].in_flight = @ + 1]
  <2>1. PICK op : op = Send(It, Last(free))
    OBVIOUS
  <2>2. op \in Operations /\ Prepare(op)
    <3>1. free # <<>> /\ free \in Seq(1 .. PoolSize)
      BY <1>5, Invs DEF alloc_send_slot, UringTypes
    <3>2. Last(free) \in 1 .. PoolSize
      BY <3>1, LastFront
    <3> QED
      BY <1>5, <2>1, <3>2, Invs, UringFields, SendTyped
  <2>3. \A c : IsSend(op, c) <=> c = d
    BY <1>2, <2>1 DEF IsSend, Send
  <2>4. /\ uconn'[d].in_flight = n + 1 /\ uconn'[d].rbuf = uconn[d].rbuf
        /\ uconn'[d].failed = uconn[d].failed /\ \A c \in Conns : c # d => uconn'[c] = uconn[c]
    <3>1. uconn' = [uconn EXCEPT ![d].in_flight = n + 1]
      BY <1>2, <1>4, <1>5
    <3> QED
      BY <1>3, <3>1
  <2>5. ASSUME NEW c \in Conns, FlowOf(c)
        PROVE  FlowOf(c)'
    <3>1. HasRead(c)' = HasRead(c)
      BY <1>1, <2>4, GotSame, HasReadSame
    <3>2. Waiting(c)' = Waiting(c) + (IF IsSend(op, c) THEN 1 ELSE 0) /\ Waiting(c) \in Nat
      BY <1>3, <2>2, WaitingPrepared, WaitingIs
    <3>3. Asking(c)' = Asking(c)
      <4>1. CASE c = d
        <5>1. PICK w \in Nat : w = Waiting(c)
          BY <3>2
        <5>2. Waiting(c)' = w + 1
          BY <2>3, <3>2, <4>1, <5>1
        <5>3. Asking(c) = n - w /\ Asking(c)' = (n + 1) - (w + 1)
          BY <1>4, <2>4, <4>1, <5>1, <5>2 DEF Asking
        <5> QED
          BY <5>3
      <4>2. CASE c # d
        BY <2>3, <2>4, <3>2, <4>2, AskingSame
      <4> QED
        BY <4>1, <4>2
    <3>4. uconn'[c].failed = uconn[c].failed
      BY <2>4
    <3> QED
      BY <1>1, <2>5, <3>1, <3>3, <3>4, FlowKept
  <2> QED
    BY <1>1, <2>5, FlowStep
<1>6. CASE /\ UNCHANGED <<sq, ring>>
           /\ uconn' = [uconn EXCEPT ![It].in_flight = @ + 1, ![It].failed = TRUE]
  <2>1. /\ uconn'[d].in_flight = n + 1 /\ uconn'[d].rbuf = uconn[d].rbuf
        /\ uconn'[d].failed = TRUE /\ \A c \in Conns : c # d => uconn'[c] = uconn[c]
    <3>1. uconn' = [uconn EXCEPT ![d].in_flight = n + 1, ![d].failed = TRUE]
      BY <1>2, <1>4, <1>6
    <3> QED
      BY <1>3, <3>1
  <2>2. Pending' = Pending
    BY <1>6 DEF Pending
  <2>3. ASSUME NEW c \in Conns, FlowOf(c)
        PROVE  FlowOf(c)'
    <3>1. HasRead(c)' = HasRead(c)
      BY <1>1, <2>1, GotSame, HasReadSame
    <3>2. Waiting(c)' = Waiting(c)
      BY <2>2, WaitingSame
    <3>3. CASE c # d
      <4>1. Asking(c)' = Asking(c) /\ uconn'[c].failed = uconn[c].failed
        BY <2>1, <3>2, <3>3, AskingSame
      <4> QED
        BY <1>1, <2>3, <3>1, <4>1, FlowKept
    <3>4. CASE c = d
      <4>1. PICK i \in Int, j \in Int : i = Asking(c) /\ j = Asking(c)' /\ i <= j
        <5>1. PICK w \in Nat : w = Waiting(c)
          BY FlowFields
        <5>2. Asking(c) = n - w /\ Asking(c)' = (n + 1) - w
          BY <1>4, <2>1, <3>2, <3>4, <5>1 DEF Asking
        <5> QED
          BY <5>2
      <4>2. Flow(OwnFrame, conn[c], HasRead(c), i, uconn[c].failed)
        BY <2>3, <4>1 DEF FlowOf
      <4>3. Flow(OwnFrame, conn[c], HasRead(c), j, TRUE)
        BY <4>1, <4>2, FlowFields, FlowFailed
      <4>4. OwnFrame' = OwnFrame
        BY <1>1 DEF OwnFrame, Template
      <4>5. uconn'[c].failed = TRUE
        BY <2>1, <3>4
      <4> QED
        BY <1>1, <3>1, <4>1, <4>3, <4>4, <4>5 DEF FlowOf
    <3> QED
      BY <3>3, <3>4
  <2> QED
    BY <1>1, <2>3, FlowStep
<1> QED
  BY <1>5, <1>6 DEF submit_send

(* What was read is put behind what is there already.                       *)
LEMMA ReapRecvFlow ==
  ASSUME TypeInv, TypeInv', RecvInv, FlowInv, reap_recv
  PROVE  FlowInv'
<1>1. /\ proto' = proto /\ client' = client /\ conn' = conn /\ cq' = Tail(cq) /\ cq # <<>>
      /\ client.program = "uring" /\ gen.pc # "stopped" /\ Head(cq).op.op = "recv"
  BY DEF reap_recv, Reap, Going, clientVars, serverVars
<1>2. PICK d, res : d = Head(cq).op.conn /\ res = Head(cq).res
  OBVIOUS
<1>3. d \in Range(UringConns) /\ d \in Conns
  <2>1. cq \in Seq(Completions)
    BY Invs, CompletionsTyped
  <2>2. Head(cq) \in Completions
    BY <1>1, <2>1, HeadTyped
  <2>3. Head(cq).op \in Operations
    BY <2>2 DEF Completions
  <2> QED
    BY <1>2, <2>3, OperationFields, Invs, ClientFacts
<1>4. /\ UringTypes /\ UringTypes'
      /\ uconn \in [Conns -> [in_flight : Int, rbuf : Bytes, failed : BOOLEAN, deaf : BOOLEAN]]
  BY DEF TypeInv, UringTypes
<1>5. \A c : IsRecv(Head(cq).op, c) <=> c = d
  BY <1>1, <1>2 DEF IsRecv
<1>6. ASSUME NEW c \in Conns
      PROVE  /\ c # d => Got(c)' = Got(c)
             /\ c = d => Got(c)' = <<>> /\ Got(c) = res
  <2>1. \A i, j \in Arrived(c) : i = j
    BY <1>1, OneArrived
  <2> QED
    BY <1>1, <1>2, <1>4, <1>5, <2>1, GotReaped
<1>7. ASSUME NEW c \in Conns
      PROVE  Waiting(c)' = Waiting(c)
  <2>1. CASE UNCHANGED <<sq, ring>>
    <3>1. Pending' = Pending
      BY <2>1 DEF Pending
    <3> QED
      BY <3>1, WaitingSame
  <2>2. CASE Prepare(Recv(d, TailOff(uconn[d])))
    <3>1. PICK op : op = Recv(d, TailOff(uconn[d]))
      OBVIOUS
    <3>2. op \in Operations /\ Prepare(op)
      BY <1>3, <2>2, <3>1, Invs, UringFields, RecvTyped
    <3>3. ~IsSend(op, c)
      BY <3>1 DEF IsSend, Recv
    <3>4. Waiting(c)' = Waiting(c) + (IF IsSend(op, c) THEN 1 ELSE 0) /\ Waiting(c) \in Nat
      BY <1>4, <3>2, WaitingPrepared, WaitingIs
    <3> QED
      BY <3>3, <3>4
  <2> QED
    BY <1>2, <2>1, <2>2 DEF reap_recv, Receive
<1>8. ASSUME NEW c \in Conns
      PROVE  /\ uconn'[c].in_flight = uconn[c].in_flight /\ uconn'[c].failed = uconn[c].failed
             /\ c # d => uconn'[c].rbuf = uconn[c].rbuf
             /\ c = d => uconn'[c].rbuf = uconn[c].rbuf \o res
  <2>1. CASE uconn' = uconn /\ res = <<>>
    <3>1. uconn[c].rbuf \in Bytes
      BY FlowFields
    <3> QED
      BY <2>1, <3>1, WithNothing
  <2>2. CASE uconn' = [uconn EXCEPT ![d].rbuf = @ \o res]
    BY <1>3, <1>4, <2>2
  <2>3. CASE uconn' = [uconn EXCEPT ![d].deaf = TRUE] /\ res = <<>>
    <3>1. uconn[c].rbuf \in Bytes
      BY FlowFields
    <3>2. uconn[c].rbuf \o res = uconn[c].rbuf
      BY <2>3, <3>1, WithNothing
    <3> QED
      BY <1>3, <1>4, <2>3, <3>2
  <2> QED
    BY <1>2, <2>1, <2>2, <2>3 DEF reap_recv, Receive
<1>9. ASSUME NEW c \in Conns, FlowOf(c)
      PROVE  FlowOf(c)'
  <2>1. HasRead(c)' = HasRead(c)
    <3>1. CASE c # d
      BY <1>6, <1>8, <3>1, HasReadSame
    <3>2. CASE c = d
      <4>1. HasRead(c) = uconn[c].rbuf \o res /\ HasRead(c)' = (uconn[c].rbuf \o res) \o <<>>
        BY <1>6, <1>8, <3>2 DEF HasRead
      <4>2. HasRead(c) \in Bytes
        BY FlowFields
      <4> QED
        BY <4>1, <4>2, WithNothing
    <3> QED
      BY <3>1, <3>2
  <2>2. Asking(c)' = Asking(c)
    BY <1>7, <1>8, AskingSame
  <2> QED
    BY <1>1, <1>8, <1>9, <2>1, <2>2, FlowKept
<1> QED
  BY <1>1, <1>9, FlowStep

(* A packet is taken.                                                       *)
LEMMA DrainFlow ==
  ASSUME TypeInv, FlowInv, drain_packets
  PROVE  FlowInv'
<1>1. /\ proto' = proto /\ client' = client /\ conn' = conn /\ cq' = cq /\ Pending' = Pending
      /\ client.program = "uring" /\ gen.pc # "stopped"
  BY DEF drain_packets, Going, clientVars, serverVars, Pending
<1>2. PICK d \in Conns : d = It
  BY Invs, UringFields
<1>3. uconn \in [Conns -> [in_flight : Int, rbuf : Bytes, failed : BOOLEAN, deaf : BOOLEAN]]
  BY Invs DEF UringTypes
<1>4. PICK a \in Bytes, n \in Int, y \in 0 .. 1 :
        a = uconn[d].rbuf /\ n = uconn[d].in_flight /\ y = Answers(a)
  <2>1. uconn[d].rbuf \in Bytes /\ uconn[d].in_flight \in Int
    BY FlowFields
  <2>2. Answers(uconn[d].rbuf) \in 0 .. 1
    BY DEF Answers
  <2> QED
    BY <2>1, <2>2
<1>5. ~Drained(a)
  BY <1>2, <1>4 DEF drain_packets
<1>6. /\ uconn'[d].in_flight = n - y /\ uconn'[d].rbuf = Drop(a, 2 + Length(a))
      /\ uconn'[d].failed = uconn[d].failed /\ \A c \in Conns : c # d => uconn'[c] = uconn[c]
  <2>1. PICK b : b = Drop(a, 2 + Length(a))
    OBVIOUS
  <2>2. uconn' = [uconn EXCEPT ![d].rbuf = b, ![d].in_flight = n - y]
    BY <1>2, <1>4, <2>1 DEF drain_packets
  <2> QED
    BY <1>3, <2>1, <2>2
<1>7. ASSUME NEW c \in Conns, FlowOf(c)
      PROVE  FlowOf(c)'
  <2>1. Got(c)' = Got(c) /\ Waiting(c)' = Waiting(c)
    BY <1>1, GotSame, WaitingSame
  <2>2. CASE c # d
    BY <1>1, <1>6, <1>7, <2>1, <2>2, HasReadSame, AskingSame, FlowKept
  <2>3. CASE c = d
    <3>1. PICK b \in Bytes, m \in Int : b = Got(c) /\ m = Asking(c)
      BY FlowFields
    <3>2. HasRead(c) = a \o b /\ HasRead(c)' = Drop(a, 2 + Length(a)) \o b
      BY <1>4, <1>6, <2>1, <2>3, <3>1 DEF HasRead
    <3>3. Asking(c)' = m - y
      <4>1. PICK w \in Nat : w = Waiting(c)
        BY FlowFields
      <4>2. m = n - w /\ Asking(c)' = (n - y) - w
        BY <1>4, <1>6, <2>1, <2>3, <3>1, <4>1 DEF Asking
      <4> QED
        BY <4>2
    <3>4. PICK f \in ReplyFrames, k \in ConnTypes : f = OwnFrame /\ k = conn[c] /\ f[3] = proto
      BY Invs, OwnFrameTyped, FlowFields
    <3>5. Flow(f, k, a \o b, m, uconn[c].failed)
      BY <1>7, <3>1, <3>2, <3>4 DEF FlowOf
    <3>6. Flow(f, k, Drop(a, 2 + Length(a)) \o b, m - Answers(a), uconn[c].failed)
      BY <1>5, <3>4, <3>5, FlowTaken
    <3>7. OwnFrame' = OwnFrame
      BY <1>1 DEF OwnFrame, Template
    <3> QED
      BY <1>1, <1>4, <1>6, <2>3, <3>2, <3>3, <3>4, <3>6, <3>7 DEF FlowOf
  <2> QED
    BY <2>2, <2>3
<1> QED
  BY <1>1, <1>7, FlowStep

(* A request goes to the socket; if it cannot, it is counted still.         *)
LEMMA KernelSendFlow ==
  ASSUME TypeInv, TypeInv', RingUp, FlowInv, kernel_send
  PROVE  FlowInv'
<1>1. /\ proto' = proto /\ client' = client /\ gen' = gen /\ ring # <<>> /\ ring' = Tail(ring)
      /\ sq' = sq /\ client.program = "uring" /\ gen.pc # "stopped" /\ Head(ring).op = "send"
      /\ cq' = Append(cq, [op |-> Head(ring), res |-> <<>>])
  BY DEF kernel_send, Issue, clientVars
<1>2. PICK d \in Conns, op \in Operations : op = Head(ring) /\ d = op.conn
  BY <1>1, RingTarget
<1>3. /\ UringTypes /\ UringTypes'
      /\ uconn \in [Conns -> [in_flight : Int, rbuf : Bytes, failed : BOOLEAN, deaf : BOOLEAN]]
  BY DEF TypeInv, UringTypes
<1> DEFINE l == Least(Free(conn[d]), Len(Packet))
           m == Write(Owe(conn[d], Template), SubSeq(Packet, 1, l))
           Goes == /\ l > 0 /\ conn[d].server # "closed" /\ uconn' = uconn
                   /\ conn' = [conn EXCEPT ![d] = [m EXCEPT !.whole = m.whole /\ l = Len(Packet)]]
           Fails == conn' = conn /\ uconn' = [uconn EXCEPT ![d].failed = TRUE]
<1>4. Goes \/ Fails
  BY <1>2 DEF kernel_send
<1> HIDE DEF l, m
<1>5. \A c : IsSend(op, c) <=> c = d
  BY <1>1, <1>2 DEF IsSend
<1>6. ASSUME NEW c \in Conns
      PROVE  Got(c)' = Got(c)
  <2>1. PICK e \in Completions : e = [op |-> op, res |-> <<>>]
    BY EmptyTyped DEF Completions
  <2>2. cq' = Append(cq, e) /\ ~IsRecv(e.op, c)
    BY <1>1, <1>2, <2>1 DEF IsRecv
  <2> QED
    BY <1>3, <2>2, GotReported
<1>7. ASSUME NEW c \in Conns
      PROVE  Waiting(c) = Waiting(c)' + (IF c = d THEN 1 ELSE 0)
  BY <1>1, <1>2, <1>3, <1>5, WaitingIssued
<1>8. /\ \A c \in Conns : /\ uconn'[c].in_flight = uconn[c].in_flight
                          /\ uconn'[c].rbuf = uconn[c].rbuf
                          /\ c # d => uconn'[c] = uconn[c] /\ conn'[c] = conn[c]
      /\ Fails => conn' = conn /\ uconn'[d].failed = TRUE
  <2>1. PICK r : \/ uconn' = uconn /\ conn' = [conn EXCEPT ![d] = r]
                 \/ uconn' = [uconn EXCEPT ![d].failed = TRUE] /\ conn' = conn
    BY <1>4
  <2>2. conn \in [Conns -> ConnTypes]
    BY Invs DEF ConnInv
  <2> QED
    BY <1>3, <2>1, <2>2
<1>9. ASSUME NEW c \in Conns
      PROVE  Asking(c)' = Asking(c) + (IF c = d THEN 1 ELSE 0)
  <2>1. PICK n \in Int, w \in Nat : n = uconn[c].in_flight /\ w = Waiting(c)
    BY FlowFields
  <2>2. PICK v \in Nat : v = Waiting(c)'
    <3>1. Waiting(c)' \in Nat
      BY <1>3, WaitingNext
    <3> QED
      BY <3>1
  <2>3. w = v + (IF c = d THEN 1 ELSE 0) /\ Asking(c) = n - w /\ Asking(c)' = n - v
    BY <1>7, <1>8, <2>1, <2>2 DEF Asking
  <2> QED
    BY <2>3
<1>10. OwnFrame' = OwnFrame /\ OwnFrame \in Bytes
  BY <1>1, Invs, OwnFrameTyped DEF OwnFrame, Template
<1>11. PICK k \in ConnTypes, a \in Bytes, n \in Int : k = conn[d] /\ a = HasRead(d) /\ n = Asking(d)
  BY FlowFields
<1>12. HasRead(d)' = a
  BY <1>6, <1>8, <1>11, HasReadSame
<1>13. ASSUME FlowOf(d), Goes
       PROVE  FlowOf(d)'
  <2> DEFINE part == SubSeq(Packet, 1, l)
             o == Owe(k, Template)
  <2>1. /\ l > 0 /\ k.server # "closed" /\ m = Write(o, part)
        /\ conn' = [conn EXCEPT ![d] = [m EXCEPT !.whole = m.whole /\ l = Len(Packet)]]
    BY <1>11, <1>13 DEF m
  <2>2. part \in Bytes /\ Len(part) <= 5
    <3>1. Packet \in Bytes /\ Len(Packet) = 5
      BY Invs, PacketSize
    <3>2. Free(k) \in Int
      <4>1. room \in Nat /\ Len(k.up) \in Nat
        BY Invs, SizeTyped
      <4> QED
        BY <4>1 DEF Free
    <3>3. PICK b \in Int : b = Free(k)
      BY <3>2
    <3>4. l = Least(b, 5)
      BY <1>11, <3>1, <3>3 DEF l
    <3>5. l > 0
      BY <2>1
    <3>6. l \in 0 .. 5
      BY <3>3, <3>4, <3>5 DEF Least
    <3>7. SubSeq(Packet, 1, l) \in Bytes /\ Len(SubSeq(Packet, 1, l)) = l
      BY <3>1, <3>6, Cut
    <3> QED
      BY <3>6, <3>7
  <2>3. o = [k EXCEPT !.owed = k.owed \o OwnFrame]
    <3>1. [x |-> 1, hp |-> Byte - 1] \in States /\ proto \in Codecs
      BY Invs, BinaryAssumption DEF States, ClientTypes
    <3>2. Replies(Template) # {}
      BY <3>1, OwnReply DEF Template
    <3> QED
      BY <2>1, <3>2 DEF Owe, OwnFrame, TheReply
  <2>4. PICK w : w = (m.whole /\ l = Len(Packet))
    OBVIOUS
  <2>5. PICK r : r = [m EXCEPT !.whole = w]
    OBVIOUS
  <2>6. conn'[d] = r
    <3>1. conn \in [Conns -> ConnTypes]
      BY Invs DEF ConnInv
    <3> QED
      BY <2>1, <2>4, <2>5, <3>1
  <2> HIDE DEF part
  <2>7. m = [o EXCEPT !.up = k.up \o part] /\ m.whole = k.whole
    <3> HIDE DEF o
    <3>1. o.server = k.server /\ o.up = k.up /\ o.whole = k.whole
      BY <2>3 DEF ConnTypes
    <3>2. m = [o EXCEPT !.up = k.up \o part]
      BY <2>1, <3>1 DEF Write
    <3>3. m.whole = k.whole
      BY <2>3, <3>2 DEF ConnTypes
    <3> QED
      BY <3>2, <3>3
  <2> HIDE DEF o
  <2>8. /\ r.client = k.client /\ r.server = k.server /\ r.owed = k.owed \o OwnFrame
        /\ r.up = k.up \o part /\ r.down = k.down /\ r.output = k.output /\ r.input = k.input
        /\ r.whole = w
    BY <2>3, <2>5, <2>7 DEF ConnTypes
  <2>9. r.whole => k.whole
    BY <2>4, <2>7, <2>8
  <2>10. PICK f \in Bytes : f = OwnFrame
    BY <1>10
  <2>11. Flow(f, k, a, n, uconn[d].failed)
    BY <1>11, <1>13, <2>10 DEF FlowOf
  <2>12. Flow(f, r, a, n + 1, uconn[d].failed)
    BY <2>1, <2>2, <2>8, <2>9, <2>10, <2>11, FlowSent
  <2>13. Asking(d)' = n + 1 /\ uconn' = uconn
    BY <1>9, <1>11, <1>13
  <2> QED
    BY <1>10, <1>12, <2>6, <2>10, <2>12, <2>13 DEF FlowOf
<1>14. ASSUME FlowOf(d), conn' = conn, uconn'[d].failed = TRUE
       PROVE  FlowOf(d)'
  <2>1. PICK f : f = OwnFrame
    OBVIOUS
  <2>2. Flow(f, k, a, n, uconn[d].failed)
    BY <1>11, <1>14, <2>1 DEF FlowOf
  <2>3. n + 1 \in Int /\ n <= n + 1
    OBVIOUS
  <2>4. Flow(f, k, a, n + 1, TRUE)
    BY <2>2, <2>3, FlowFailed
  <2>5. Asking(d)' = n + 1
    BY <1>9, <1>11
  <2> QED
    BY <1>10, <1>11, <1>12, <1>14, <2>1, <2>4, <2>5 DEF FlowOf
<1>15. ASSUME NEW c \in Conns, FlowOf(c)
       PROVE  FlowOf(c)'
  <2>1. CASE c # d
    <3>1. HasRead(c)' = HasRead(c)
      BY <1>6, <1>8, HasReadSame
    <3>2. Asking(c)' = Asking(c)
      BY <1>9, <2>1, FlowFields
    <3> QED
      BY <1>1, <1>8, <1>15, <2>1, <3>1, <3>2, FlowKept
  <2>2. CASE c = d
    <3> HIDE DEF Goes, Fails
    <3> QED
      BY <1>8, <1>13, <1>14, <1>15, <1>4, <2>2
  <2> QED
    BY <2>1, <2>2
<1> QED
  BY <1>1, <1>15, FlowStep

(* The kernel reads, for the only recv there is.                            *)
LEMMA KernelRecvFlow ==
  ASSUME TypeInv, TypeInv', RingUp, InOrder, RecvInv, FlowInv, kernel_recv
  PROVE  FlowInv'
<1>1. PICK op, d, l : op = Head(ring) /\ d = op.conn /\ l = Received(op)
  OBVIOUS
<1>2. PICK res : res = SubSeq(conn[d].down, 1, l)
  OBVIOUS
<1>3. /\ proto' = proto /\ client' = client /\ gen' = gen /\ ring # <<>> /\ ring' = Tail(ring)
      /\ sq' = sq /\ client.program = "uring" /\ gen.pc # "stopped" /\ op.op = "recv"
      /\ cq' = Append(cq, [op |-> op, res |-> res]) /\ uconn' = uconn
      /\ conn' = [conn EXCEPT ![d] = Read(@, l)]
  BY <1>1, <1>2 DEF kernel_recv, Issue, clientVars
<1>4. op \in Operations /\ d \in Conns /\ conn[d].client # "none" /\ conn \in [Conns -> ConnTypes]
  BY <1>1, <1>3, RingTarget, Invs DEF ConnInv
<1>5. UringTypes /\ UringTypes'
  BY DEF TypeInv
<1>6. PICK k \in ConnTypes, a \in Bytes : k = conn[d] /\ a = uconn[d].rbuf
  BY <1>4, FlowFields
<1>7. l \in 0 .. Len(k.down)
  <2>1. PICK i \in Nat : i = Len(k.down)
    BY ConnFields, ByteSeq
  <2>2. PICK j \in Nat : j = RecvSize - op.off
    BY <1>4, OperationFields, UringAssumption
  <2>3. l = Least(i, j)
    BY <1>1, <1>6, <2>1, <2>2 DEF Received
  <2> QED
    BY <2>1, <2>3 DEF Least
<1>8. res \in Bytes /\ res = SubSeq(k.down, 1, l)
  <2>1. k.down \in Bytes
    BY ConnFields
  <2> QED
    BY <1>2, <1>6, <1>7, <2>1, Cut
<1>9. \A c : (IsRecv(op, c) <=> c = d) /\ ~IsSend(op, c)
  BY <1>1, <1>3 DEF IsRecv, IsSend
<1>10. ASSUME NEW c \in Conns
       PROVE  /\ c # d => Got(c)' = Got(c)
              /\ c = d => Got(c)' = res /\ Got(c) = <<>>
  <2>1. PICK e \in Completions : e = [op |-> op, res |-> res]
    BY <1>4, <1>8 DEF Completions
  <2>2. cq' = Append(cq, e) /\ e.op = op /\ e.res = res
    BY <1>3, <2>1
  <2>3. c = d => Arrived(c) = {}
    BY <1>1, <1>3, <1>9, OneArrived
  <2> QED
    BY <1>5, <1>9, <2>2, <2>3, GotReported
<1>11. ASSUME NEW c \in Conns
       PROVE  Asking(c)' = Asking(c)
  <2>1. Waiting(c) = Waiting(c)' + (IF IsSend(op, c) THEN 1 ELSE 0) /\ Waiting(c) \in Nat
    BY <1>1, <1>3, <1>5, WaitingIssued, WaitingIs
  <2>2. Waiting(c)' \in Nat
    BY <1>5, WaitingNext
  <2>3. Waiting(c)' = Waiting(c)
    BY <1>9, <2>1, <2>2
  <2> QED
    BY <1>3, <2>3, AskingSame
<1>12. Follows(k, <<>>)
  <2>1. PICK u \in Bytes : RestOf(d, u) /\ Held(conn[d], u)
    BY <1>4 DEF InOrder
  <2> QED
    BY <1>3, <1>6, <2>1 DEF RestOf, Held
<1>13. ASSUME NEW c \in Conns, FlowOf(c)
       PROVE  FlowOf(c)'
  <2>1. CASE c # d
    <3>1. HasRead(c)' = HasRead(c) /\ conn'[c] = conn[c]
      BY <1>3, <1>4, <1>10, <2>1, HasReadSame
    <3> QED
      BY <1>3, <1>11, <1>13, <3>1, FlowKept
  <2>2. CASE c = d
    <3>1. HasRead(c) = a
      BY <1>6, <1>10, <2>2, WithNothing DEF HasRead
    <3>2. HasRead(c)' = a \o res
      BY <1>3, <1>6, <1>10, <2>2 DEF HasRead
    <3>3. conn'[c] = Read(k, l)
      BY <1>3, <1>4, <1>6, <2>2
    <3>4. PICK f, n, failed : f = OwnFrame /\ n = Asking(c) /\ failed = uconn[c].failed
      OBVIOUS
    <3>5. Flow(f, k, a, n, failed)
      BY <1>6, <1>13, <2>2, <3>1, <3>4 DEF FlowOf
    <3>6. Flow(f, Read(k, l), a \o res, n, failed)
      BY <1>4, <1>6, <1>7, <1>8, <1>12, <3>5, FlowRead
    <3>7. OwnFrame' = OwnFrame
      BY <1>3 DEF OwnFrame, Template
    <3> QED
      BY <1>3, <1>11, <3>2, <3>3, <3>4, <3>6, <3>7 DEF FlowOf
  <2> QED
    BY <2>1, <2>2
<1> QED
  BY <1>3, <1>13, FlowStep

LEMMA FlowHolds ==
  ASSUME TypeInv, TypeInv', RepliesInv, RecvInv, FlowInv, [Next]_vars
  PROVE  FlowInv'
<1>1. InOrder /\ RingUp
  BY DEF RepliesInv
<1>2. CASE UringNext
  <2>1. CASE uring_exit
    <3>1. gen'.pc = "stopped"
      BY <2>1, Invs, GoesTo DEF uring_exit
    <3> QED
      BY <3>1 DEF FlowInv
  <2> QED
    BY <1>1, <1>2, <2>1, QuietFlow, ConnectFlow, SubmitSendFlow, ReapRecvFlow, DrainFlow,
       KernelSendFlow, KernelRecvFlow DEF UringNext
<1>3. CASE ServerNext /\ UNCHANGED <<clientVars, threadsVars, uringVars, other>>
  BY <1>3, ServerFlow
<1>4. CASE ThreadsNext \/ OtherNext
  <2>1. client' = client /\ client.program # "uring"
    <3>1. CASE ThreadsNext
      BY <3>1 DEF ThreadsNext, MainStep, ThreadStep, pthread_create, pthread_create_fails, alarm,
         pthread_join, on_sigalrm_threads, connect_one, loop, send, write, read_reply,
         close_all, At, Running, clientVars
    <3>2. CASE OtherNext
      BY <3>2 DEF OtherNext, other_connect, other_asks, other_writes, other_reads, other_closes,
         Other, clientVars
    <3> QED
      BY <1>4, <3>1, <3>2
  <2> QED
    BY <2>1 DEF FlowInv
<1>5. CASE UNCHANGED vars
  <2>1. /\ client' = client /\ proto' = proto /\ gen' = gen /\ conn' = conn /\ uconn' = uconn
        /\ cq' = cq /\ Pending' = Pending
    BY <1>5 DEF vars, clientVars, serverVars, uringVars, Pending
  <2>2. CASE client.program = "uring" /\ gen.pc # "stopped"
    <3>1. ASSUME NEW c \in Conns, FlowOf(c)
          PROVE  FlowOf(c)'
      BY <2>1, <3>1, GotSame, WaitingSame, HasReadSame, AskingSame, FlowKept
    <3> QED
      BY <2>1, <2>2, <3>1, FlowStep
  <2> QED
    BY <2>1, <2>2 DEF FlowInv
<1> QED
  BY <1>2, <1>3, <1>4, <1>5 DEF Next

----------------------------------------------------------------------------
(* How many requests are counted                                            *)

(* The connections whose seed has begun.                                    *)
Begun(c) ==
  /\ gen.pc # "connect"
  /\ \E j \in DOMAIN UringConns : UringConns[j] = c /\ (gen.pc = "seed" => j <= gen.i)

CountInv ==
  client.program = "uring" /\ gen.pc # "stopped" =>
    /\ gen.pc \notin {"seed", "drain", "refill"} => gen.left = 0
    /\ \A c \in Conns : uconn[c].in_flight + LeftOf(c) = IF Begun(c) THEN Depth ELSE 0

LEMMA CountFields ==
  ASSUME TypeInv
  PROVE  /\ gen \in GenRecords /\ gen.left \in Nat /\ Depth \in Nat \ {0} /\ It \in Conns
         /\ gen.i \in DOMAIN UringConns /\ gen.i \in Nat /\ It = UringConns[gen.i]
         /\ DOMAIN UringConns = 1 .. Len(UringConns) /\ Len(UringConns) \in Nat
         /\ \A i, j \in DOMAIN UringConns : UringConns[i] = UringConns[j] => i = j
         /\ \A c \in Conns : uconn[c].in_flight \in Int /\ LeftOf(c) \in Nat
         /\ uconn \in [Conns -> [in_flight : Int, rbuf : Bytes, failed : BOOLEAN, deaf : BOOLEAN]]
<1>1. /\ gen \in GenRecords /\ gen.left \in Nat /\ Depth \in Nat \ {0} /\ It \in Conns
      /\ gen.i \in DOMAIN UringConns /\ gen.i \in Nat /\ It = UringConns[gen.i]
      /\ DOMAIN UringConns = 1 .. Len(UringConns) /\ Len(UringConns) \in Nat
      /\ \A i, j \in DOMAIN UringConns : UringConns[i] = UringConns[j] => i = j
      /\ uconn \in [Conns -> [in_flight : Int, rbuf : Bytes, failed : BOOLEAN, deaf : BOOLEAN]]
  BY Invs, UringFields, ClientFacts, ConnsDistinct DEF It, UringTypes
<1>2. \A c \in Conns : uconn[c].in_flight \in Int /\ LeftOf(c) \in Nat
  BY <1>1 DEF LeftOf
<1> QED
  BY <1>1, <1>2

LEMMA CountStep ==
  ASSUME client' = client, gen'.pc \notin {"seed", "drain", "refill"} => gen'.left = 0,
         \A c \in Conns : uconn'[c].in_flight + LeftOf(c)' = IF Begun(c)' THEN Depth ELSE 0
  PROVE  CountInv'
<1>1. Depth' = Depth
  BY Fixed
<1> QED
  BY <1>1 DEF CountInv

(* The program moves on, on the same connection or on none.                 *)
LEMMA CountSame ==
  ASSUME TypeInv, CountInv, client' = client, client.program = "uring", gen.pc # "stopped",
         \A c \in Conns : uconn'[c].in_flight = uconn[c].in_flight,
         gen'.i = gen.i, gen'.left = gen.left,
         \/ gen'.pc = gen.pc
         \/ gen.pc \in {"drain", "refill"} /\ gen'.pc \in {"drain", "refill"}
         \/ gen.pc \in {"loop", "wait", "reap"} /\ gen'.pc \in {"loop", "wait", "reap"}
  PROVE  CountInv'
<1>1. UringConns' = UringConns /\ It' = It
  BY Fixed DEF It
<1>2. \A c : LeftOf(c)' = LeftOf(c) /\ (Begun(c)' <=> Begun(c))
  BY <1>1 DEF LeftOf, Begun
<1>3. /\ gen.pc \notin {"seed", "drain", "refill"} => gen.left = 0
      /\ \A c \in Conns : uconn[c].in_flight + LeftOf(c) = IF Begun(c) THEN Depth ELSE 0
  BY DEF CountInv
<1> QED
  BY <1>2, <1>3, CountStep

LEMMA QuietCount ==
  ASSUME TypeInv, CountInv,
         \/ submit_and_wait \/ woken \/ cq_advance \/ refill \/ on_sigalrm_uring
         \/ kernel_send \/ kernel_recv \/ reap_send
  PROVE  CountInv'
<1>1. client' = client /\ client.program = "uring" /\ gen.pc # "stopped" /\ gen \in GenRecords
  BY CountFields DEF submit_and_wait, woken, cq_advance, refill, on_sigalrm_uring, kernel_send,
     kernel_recv, Issue, reap_send, Reap, Going, clientVars
<1>2. \A c \in Conns : uconn'[c].in_flight = uconn[c].in_flight
  <2>1. uconn' = uconn \/ uconn' = [uconn EXCEPT ![Head(ring).conn].failed = TRUE]
    BY DEF submit_and_wait, woken, cq_advance, refill, on_sigalrm_uring, kernel_send,
       kernel_recv, reap_send
  <2>2. PICK d : d = Head(ring).conn
    OBVIOUS
  <2>3. uconn \in [Conns -> [in_flight : Int, rbuf : Bytes, failed : BOOLEAN, deaf : BOOLEAN]]
    BY CountFields
  <2>4. ASSUME NEW c \in Conns, uconn' = [uconn EXCEPT ![d].failed = TRUE]
        PROVE  uconn'[c].in_flight = uconn[c].in_flight
    BY <2>3, <2>4
  <2> QED
    BY <2>1, <2>2, <2>4
<1>3. /\ gen'.i = gen.i /\ gen'.left = gen.left
      /\ \/ gen'.pc = gen.pc
         \/ gen.pc \in {"drain", "refill"} /\ gen'.pc \in {"drain", "refill"}
         \/ gen.pc \in {"loop", "wait", "reap"} /\ gen'.pc \in {"loop", "wait", "reap"}
  BY <1>1 DEF submit_and_wait, woken, cq_advance, refill, on_sigalrm_uring, kernel_send,
     kernel_recv, reap_send, Going, Go, GenRecords
<1> QED
  BY <1>1, <1>2, <1>3, CountSame

LEMMA ConnectCount ==
  ASSUME TypeInv, CountInv, uring_connect
  PROVE  CountInv'
<1>1. /\ client' = client /\ client.program = "uring" /\ gen.pc = "connect" /\ gen \in GenRecords
      /\ uconn' = uconn
  BY CountFields DEF uring_connect, Going, clientVars
<1>2. UringConns' = UringConns /\ Depth' = Depth
  BY <1>1, Fixed
<1>3. gen.left = 0 /\ \A c \in Conns : uconn[c].in_flight = 0
  <2>1. \A c : ~Begun(c) /\ LeftOf(c) = 0
    BY <1>1 DEF Begun, LeftOf
  <2> QED
    BY <1>1, <2>1, CountFields DEF CountInv
<1>4. CASE gen'.pc = "stopped"
  BY <1>4 DEF CountInv
<1>5. CASE gen'.pc = "connect" /\ gen'.left = gen.left
  <2>1. \A c : ~Begun(c)' /\ LeftOf(c)' = 0
    BY <1>5 DEF Begun, LeftOf
  <2> QED
    BY <1>1, <1>3, <1>5, <2>1, CountStep
<1>6. CASE gen' = [pc |-> "seed", i |-> 1, left |-> Depth]
  <2>1. gen'.pc = "seed" /\ gen'.i = 1 /\ gen'.left = Depth
    BY <1>6
  <2>2. 1 \in DOMAIN UringConns /\ \A j \in DOMAIN UringConns : j <= 1 <=> j = 1
    BY CountFields
  <2>3. \A c : /\ LeftOf(c)' = IF c = UringConns[1] THEN Depth ELSE 0
               /\ Begun(c)' <=> c = UringConns[1]
    BY <1>2, <2>1, <2>2 DEF LeftOf, Begun, It
  <2> QED
    BY <1>1, <1>3, <2>1, <2>3, CountFields, CountStep
<1> QED
  BY <1>1, <1>4, <1>5, <1>6 DEF uring_connect, Go, GenRecords

LEMMA SubmitSendCount ==
  ASSUME TypeInv, CountInv, submit_send
  PROVE  CountInv'
<1>1. /\ client' = client /\ client.program = "uring" /\ gen.pc \in {"seed", "refill"}
      /\ gen.left > 0 /\ gen' = [gen EXCEPT !.left = @ - 1]
      /\ \/ uconn' = [uconn EXCEPT ![It].in_flight = @ + 1]
         \/ uconn' = [uconn EXCEPT ![It].in_flight = @ + 1, ![It].failed = TRUE]
  BY DEF submit_send, Going, clientVars
<1>2. gen'.pc = gen.pc /\ gen'.i = gen.i /\ gen'.left = gen.left - 1
  BY <1>1, CountFields DEF GenRecords
<1>3. UringConns' = UringConns /\ It' = It
  BY <1>1, <1>2, Fixed DEF It
<1>4. PICK d \in Conns : d = It
  BY CountFields
<1>5. /\ uconn'[d].in_flight = uconn[d].in_flight + 1
      /\ \A c \in Conns : c # d => uconn'[c].in_flight = uconn[c].in_flight
  BY <1>1, <1>4, CountFields
<1>6. /\ \A c : (Begun(c)' <=> Begun(c)) /\ (c # d => LeftOf(c)' = 0 /\ LeftOf(c) = 0)
      /\ LeftOf(d)' = gen.left - 1 /\ LeftOf(d) = gen.left
  BY <1>1, <1>2, <1>3, <1>4 DEF Begun, LeftOf
<1>7. \A c \in Conns : uconn[c].in_flight + LeftOf(c) = IF Begun(c) THEN Depth ELSE 0
  BY <1>1 DEF CountInv
<1>8. ASSUME NEW c \in Conns
      PROVE  uconn'[c].in_flight + LeftOf(c)' = uconn[c].in_flight + LeftOf(c)
  <2>1. CASE c = d
    <3>1. PICK n \in Int, l \in Nat : n = uconn[d].in_flight /\ l = gen.left
      BY CountFields
    <3>2. (n + 1) + (l - 1) = n + l
      OBVIOUS
    <3> QED
      BY <1>5, <1>6, <2>1, <3>1, <3>2
  <2>2. CASE c # d
    BY <1>5, <1>6, <2>2
  <2> QED
    BY <2>1, <2>2
<1> QED
  BY <1>1, <1>2, <1>6, <1>7, <1>8, CountStep

LEMMA SubmitRecvCount ==
  ASSUME TypeInv, CountInv, submit_recv
  PROVE  CountInv'
<1>1. /\ client' = client /\ client.program = "uring" /\ gen.pc \in {"seed", "refill"}
      /\ gen.left = 0 /\ gen \in GenRecords
      /\ gen' = IF gen.pc = "refill" THEN [gen EXCEPT !.pc = "reap"]
                ELSE IF gen.i < Len(UringConns) THEN [gen EXCEPT !.i = @ + 1, !.left = Depth]
                ELSE [gen EXCEPT !.pc = "loop"]
  BY CountFields DEF submit_recv, Going, clientVars
<1>2. UringConns' = UringConns
  BY <1>1, Fixed
<1>3. \A c \in Conns : uconn'[c].in_flight = IF Begun(c) THEN Depth ELSE 0
  <2>1. \A c : LeftOf(c) = 0
    BY <1>1 DEF LeftOf
  <2>2. \A c \in Conns : uconn[c].in_flight = IF Begun(c) THEN Depth ELSE 0
    BY <1>1, <2>1, CountFields DEF CountInv
  <2>3. PICK d : d = It
    OBVIOUS
  <2>4. uconn' = uconn \/ uconn' = [uconn EXCEPT ![d].deaf = TRUE]
    BY <2>3 DEF submit_recv, Receive
  <2>5. \A c \in Conns : uconn'[c].in_flight = uconn[c].in_flight
    BY <2>4, DeafKeeps
  <2> QED
    BY <2>2, <2>5
<1>4. CASE gen.pc = "refill"
  <2>1. gen'.pc = "reap" /\ gen'.left = 0
    BY <1>1, <1>4 DEF GenRecords
  <2>2. \A c : LeftOf(c)' = 0 /\ (Begun(c)' <=> Begun(c))
    BY <1>2, <1>4, <2>1 DEF LeftOf, Begun
  <2> QED
    BY <1>1, <1>3, <2>1, <2>2, CountFields, CountStep
<1>5. CASE gen.pc = "seed" /\ gen.i < Len(UringConns)
  <2>1. gen'.pc = "seed" /\ gen'.i = gen.i + 1 /\ gen'.left = Depth
    BY <1>1, <1>5, CountFields DEF GenRecords
  <2>2. /\ gen.i + 1 \in DOMAIN UringConns /\ ~(gen.i + 1 <= gen.i)
        /\ \A j \in DOMAIN UringConns : j <= gen.i + 1 <=> j <= gen.i \/ j = gen.i + 1
    BY <1>5, CountFields
  <2>3. PICK e : e = UringConns[gen.i + 1]
    OBVIOUS
  <2>4. /\ \A c : LeftOf(c)' = IF c = e THEN Depth ELSE 0
        /\ \A c : Begun(c)' <=> Begun(c) \/ c = e
        /\ ~Begun(e)
    <3>1. It' = e
      BY <1>2, <2>1, <2>3 DEF It
    <3>2. \A c : LeftOf(c)' = IF c = e THEN Depth ELSE 0
      BY <2>1, <3>1 DEF LeftOf
    <3>3. \A c : Begun(c)' <=> \E j \in DOMAIN UringConns : UringConns[j] = c /\ j <= gen.i + 1
      BY <1>2, <2>1 DEF Begun
    <3>4. \A c : Begun(c) <=> \E j \in DOMAIN UringConns : UringConns[j] = c /\ j <= gen.i
      BY <1>5 DEF Begun
    <3>5. ~Begun(e)
      BY <2>2, <2>3, <3>4, CountFields
    <3> QED
      BY <2>2, <2>3, <3>2, <3>3, <3>4, <3>5
  <2> QED
    BY <1>1, <1>3, <2>1, <2>4, CountFields, CountStep
<1>6. CASE gen.pc = "seed" /\ ~(gen.i < Len(UringConns))
  <2>1. gen'.pc = "loop" /\ gen'.left = 0
    BY <1>1, <1>6 DEF GenRecords
  <2>2. \A j \in DOMAIN UringConns : j <= gen.i
    BY <1>6, CountFields
  <2>3. \A c : LeftOf(c)' = 0 /\ (Begun(c)' <=> Begun(c))
    BY <1>2, <1>6, <2>1, <2>2 DEF LeftOf, Begun
  <2> QED
    BY <1>1, <1>3, <2>1, <2>3, CountFields, CountStep
<1> QED
  BY <1>1, <1>4, <1>5, <1>6

LEMMA ReapRecvCount ==
  ASSUME TypeInv, CountInv, reap_recv
  PROVE  CountInv'
<1>1. PICK d, res, j : /\ d = Head(cq).op.conn /\ res = Head(cq).res
                       /\ j = CHOOSE i \in 1 .. Len(UringConns) : UringConns[i] = d
  OBVIOUS
<1>2. client' = client /\ client.program = "uring" /\ gen.pc = "reap"
  BY DEF reap_recv, Reap, Going, clientVars
<1>3. \/ gen' = gen /\ (uconn' = uconn \/ uconn' = [uconn EXCEPT ![d].deaf = TRUE])
      \/ /\ uconn' = [uconn EXCEPT ![d].rbuf = @ \o res]
         /\ gen' = [pc |-> "drain", left |-> 0, i |-> j]
  BY <1>1 DEF reap_recv, Receive
<1>4. CASE gen' = gen /\ (uconn' = uconn \/ uconn' = [uconn EXCEPT ![d].deaf = TRUE])
  <2>1. \A c \in Conns : uconn'[c].in_flight = uconn[c].in_flight
    BY <1>4, DeafKeeps
  <2> QED
    BY <1>2, <1>4, <2>1, CountSame
<1>5. CASE /\ uconn' = [uconn EXCEPT ![d].rbuf = @ \o res]
           /\ gen' = [pc |-> "drain", left |-> 0, i |-> j]
  <2>1. UringConns' = UringConns /\ gen'.pc = "drain" /\ gen'.left = 0
    BY <1>2, <1>5, Fixed
  <2>2. \A c \in Conns : uconn'[c].in_flight = uconn[c].in_flight
    BY <1>5, CountFields
  <2>3. \A c : LeftOf(c)' = 0 /\ LeftOf(c) = 0 /\ (Begun(c)' <=> Begun(c))
    BY <1>2, <2>1 DEF LeftOf, Begun
  <2>4. \A c \in Conns : uconn[c].in_flight + LeftOf(c) = IF Begun(c) THEN Depth ELSE 0
    BY <1>2 DEF CountInv
  <2> QED
    BY <1>2, <2>1, <2>2, <2>3, <2>4, CountStep
<1> QED
  BY <1>3, <1>4, <1>5

LEMMA DrainCount ==
  ASSUME TypeInv, CountInv, drain_packets
  PROVE  CountInv'
<1>1. PICK d \in Conns, y \in 0 .. 1 : d = It /\ y = Answers(uconn[It].rbuf)
  <2>1. Answers(uconn[It].rbuf) \in 0 .. 1
    BY DEF Answers
  <2> QED
    BY <2>1, CountFields
<1>2. /\ client' = client /\ client.program = "uring" /\ gen.pc = "drain"
      /\ gen' = [gen EXCEPT !.left = @ + y]
      /\ \E b : uconn' = [uconn EXCEPT ![d].rbuf = b, ![d].in_flight = @ - y]
  BY <1>1 DEF drain_packets, Going, clientVars
<1>3. gen'.pc = "drain" /\ gen'.i = gen.i /\ gen'.left = gen.left + y
  BY <1>2, CountFields DEF GenRecords
<1>4. UringConns' = UringConns /\ It' = It
  BY <1>2, <1>3, Fixed DEF It
<1>5. /\ uconn'[d].in_flight = uconn[d].in_flight - y
      /\ \A c \in Conns : c # d => uconn'[c].in_flight = uconn[c].in_flight
  BY <1>2, CountFields
<1>6. /\ \A c : (Begun(c)' <=> Begun(c)) /\ (c # d => LeftOf(c)' = 0 /\ LeftOf(c) = 0)
      /\ LeftOf(d)' = gen.left + y /\ LeftOf(d) = gen.left
  BY <1>1, <1>2, <1>3, <1>4 DEF Begun, LeftOf
<1>7. \A c \in Conns : uconn[c].in_flight + LeftOf(c) = IF Begun(c) THEN Depth ELSE 0
  BY <1>2 DEF CountInv
<1>8. ASSUME NEW c \in Conns
      PROVE  uconn'[c].in_flight + LeftOf(c)' = uconn[c].in_flight + LeftOf(c)
  <2>1. CASE c = d
    <3>1. PICK n \in Int, l \in Nat : n = uconn[d].in_flight /\ l = gen.left
      BY CountFields
    <3>2. (n - y) + (l + y) = n + l
      OBVIOUS
    <3> QED
      BY <1>5, <1>6, <2>1, <3>1, <3>2
  <2>2. CASE c # d
    BY <1>5, <1>6, <2>2
  <2> QED
    BY <2>1, <2>2
<1> QED
  BY <1>2, <1>3, <1>6, <1>7, <1>8, CountStep

LEMMA CountStarts ==
  ASSUME Init
  PROVE  CountInv
<1>1. gen.pc = "connect" /\ gen.left = 0 /\ \A c \in Conns : uconn[c].in_flight = 0
  BY DEF Init, UringInit
<1>2. \A c : ~Begun(c) /\ LeftOf(c) = 0
  BY <1>1 DEF Begun, LeftOf
<1> QED
  BY <1>1, <1>2 DEF CountInv

LEMMA ElsewhereCount ==
  ASSUME TypeInv, CountInv, UNCHANGED uringVars, client' = client
  PROVE  CountInv'
<1>1. gen' = gen /\ uconn' = uconn
  BY DEF uringVars
<1>2. CASE client.program = "uring" /\ gen.pc # "stopped"
  BY <1>1, <1>2, CountSame
<1> QED
  BY <1>1, <1>2 DEF CountInv

LEMMA CountHolds ==
  ASSUME TypeInv, CountInv, [Next]_vars
  PROVE  CountInv'
<1>1. CASE UringNext
  <2>1. CASE uring_exit
    <3>1. gen'.pc = "stopped"
      BY <2>1, Invs, GoesTo DEF uring_exit
    <3> QED
      BY <3>1 DEF CountInv
  <2> QED
    BY <1>1, <2>1, QuietCount, ConnectCount, SubmitSendCount, SubmitRecvCount, ReapRecvCount,
       DrainCount DEF UringNext
<1>2. CASE ServerNext /\ UNCHANGED <<clientVars, threadsVars, uringVars, other>>
  BY <1>2, ElsewhereCount DEF clientVars
<1>3. CASE ThreadsNext /\ UNCHANGED <<uringVars, other>>
  <2>1. client' = client
    BY <1>3 DEF ThreadsNext, MainStep, ThreadStep, pthread_create, pthread_create_fails, alarm,
           pthread_join, on_sigalrm_threads, connect_one, loop, send, write, read_reply,
           close_all, clientVars
  <2> QED
    BY <1>3, <2>1, ElsewhereCount
<1>4. CASE OtherNext
  <2>1. client' = client /\ UNCHANGED uringVars
    BY <1>4 DEF OtherNext, other_connect, other_asks, other_writes, other_reads, other_closes,
           Other, clientVars
  <2> QED
    BY <2>1, ElsewhereCount
<1>5. CASE UNCHANGED vars
  BY <1>5, ElsewhereCount DEF vars, clientVars
<1> QED
  BY <1>1, <1>2, <1>3, <1>4, <1>5 DEF Next

----------------------------------------------------------------------------
(* Room for what is received                                                *)

(* Of what was read, less than a packet is left once packets are taken.     *)
RoomLeft ==
  client.program = "uring" /\ gen.pc # "stopped" =>
    \A c \in Conns : ~(gen.pc = "drain" /\ c = It) => Len(uconn[c].rbuf) < RecvSize

LEMMA FrontAlone ==
  ASSUME NEW q \in Bytes \X Bytes \X Bytes \X Bytes
  PROVE  ((q[1] \o q[2]) \o q[3]) \o q[4] = q[1] \o ((q[2] \o q[3]) \o q[4])
<1>1. PICK a \in Bytes, b \in Bytes : a = q[1] /\ b = q[2]
  OBVIOUS
<1>2. \A e \in Bytes : (a \o b) \o e = a \o (b \o e)
  BY FrontGrouped
<1>3. q[3] \in Bytes /\ q[4] \in Bytes
  OBVIOUS
<1>4. PICK y \in Bytes : y = b \o q[3]
  BY <1>3, Joined
<1>5. \A e \in Bytes : (a \o y) \o e = a \o (y \o e)
  BY FrontGrouped
<1> QED
  BY <1>1, <1>2, <1>3, <1>4, <1>5

(* When no packet is complete, what is left is short.                       *)
LEMMA DrainedShort ==
  ASSUME TypeInv, FlowInv, MaxPayload >= 4, client.program = "uring", gen.pc # "stopped",
         NEW c \in Conns, Drained(uconn[c].rbuf)
  PROVE  Len(uconn[c].rbuf) < 6
<1>1. PICK a \in Bytes, b \in Bytes, l \in Bytes :
        a = uconn[c].rbuf /\ b = Got(c) /\ l = Line(conn[c])
  <2>1. uconn[c].rbuf \in Bytes /\ Got(c) \in Bytes /\ conn[c] \in ConnTypes
    BY FlowFields
  <2> QED
    BY <2>1, SizeTyped
<1>2. FlowOf(c)
  BY DEF FlowInv
<1>3. conn[c].client # "closed"
  BY <1>2 DEF FlowOf, Flow
<1>4. Worth((a \o b) \o l, conn[c].server = "closed", Size(conn[c]), 5 * Asking(c))
  BY <1>1, <1>2, <1>3 DEF FlowOf, Flow, Carries, HasRead
<1>5. PICK t \in Bytes, n \in Nat : <<((a \o b) \o l) \o t, n>> \in Chains(ReplyFrames)
  BY <1>4 DEF Worth
<1>6. PICK y \in Bytes : y = b \o l
  BY Joined
<1>7. PICK x \in Bytes : x = y \o t
  BY Joined
<1>8. ((a \o b) \o l) \o t = a \o ((b \o l) \o t)
  <2>1. PICK q \in Bytes \X Bytes \X Bytes \X Bytes : q = <<a, b, l, t>>
    OBVIOUS
  <2>2. ((q[1] \o q[2]) \o q[3]) \o q[4] = q[1] \o ((q[2] \o q[3]) \o q[4])
    BY FrontAlone
  <2> QED
    BY <2>1, <2>2
<1>9. <<a \o x, n>> \in Chains(ReplyFrames)
  BY <1>5, <1>6, <1>7, <1>8
<1> QED
  BY <1>1, <1>9, FrontShort

LEMMA RoomSame ==
  ASSUME RoomLeft, client' = client,
         gen'.pc # "stopped" => /\ gen.pc # "stopped" /\ (gen.pc = "drain" => gen' = gen)
                                /\ \A c \in Conns : uconn'[c].rbuf = uconn[c].rbuf
  PROVE  RoomLeft'
<1>1. UringConns' = UringConns
  BY Fixed
<1>2. gen' = gen => It' = It
  BY <1>1 DEF It
<1> QED
  BY <1>2 DEF RoomLeft

LEMMA QuietRoom ==
  ASSUME TypeInv, RoomLeft,
         \/ uring_connect \/ submit_send \/ submit_recv \/ submit_and_wait \/ woken \/ cq_advance
         \/ kernel_send \/ kernel_recv \/ reap_send \/ on_sigalrm_uring
  PROVE  RoomLeft'
<1>1. client' = client /\ client.program = "uring" /\ gen.pc # "stopped" /\ gen \in GenRecords
  BY CountFields DEF uring_connect, submit_send, submit_recv, submit_and_wait, woken, cq_advance,
     kernel_send, kernel_recv, Issue, reap_send, Reap, on_sigalrm_uring, Going, clientVars
<1>2. \A c \in Conns : uconn'[c].rbuf = uconn[c].rbuf
  <2>1. PICK d : d = Head(ring).conn
    OBVIOUS
  <2>2. PICK e : e = It
    OBVIOUS
  <2>3. \/ uconn' = uconn \/ uconn' = [uconn EXCEPT ![d].failed = TRUE]
        \/ uconn' = [uconn EXCEPT ![e].in_flight = @ + 1]
        \/ uconn' = [uconn EXCEPT ![e].in_flight = @ + 1, ![e].failed = TRUE]
        \/ uconn' = [uconn EXCEPT ![e].deaf = TRUE]
    BY <2>1, <2>2 DEF uring_connect, submit_send, submit_recv, Receive, submit_and_wait, woken,
       cq_advance, kernel_send, kernel_recv, reap_send, on_sigalrm_uring
  <2>4. uconn \in [Conns -> [in_flight : Int, rbuf : Bytes, failed : BOOLEAN, deaf : BOOLEAN]]
    BY CountFields
  <2>5. CASE uconn' = uconn \/ uconn' = [uconn EXCEPT ![d].failed = TRUE]
    BY <2>4, <2>5
  <2>6. CASE uconn' = [uconn EXCEPT ![e].in_flight = @ + 1]
    BY <2>4, <2>6
  <2>7. CASE uconn' = [uconn EXCEPT ![e].in_flight = @ + 1, ![e].failed = TRUE]
    BY <2>4, <2>7
  <2>8. CASE uconn' = [uconn EXCEPT ![e].deaf = TRUE]
    BY <2>4, <2>8
  <2> QED
    BY <2>3, <2>5, <2>6, <2>7, <2>8
<1>3. gen.pc = "drain" => gen' = gen
  BY <1>1 DEF uring_connect, submit_send, submit_recv, submit_and_wait, woken, cq_advance,
     kernel_send, kernel_recv, reap_send, on_sigalrm_uring, Going, Go, GenRecords
<1> QED
  BY <1>1, <1>2, <1>3, RoomSame

(* What is received is put into the buffer whose packets are taken next.    *)
LEMMA ReapRecvRoom ==
  ASSUME TypeInv, TypeInv', RoomLeft, reap_recv
  PROVE  RoomLeft'
<1>1. PICK d, res, j : /\ d = Head(cq).op.conn /\ res = Head(cq).res
                       /\ j = CHOOSE i \in 1 .. Len(UringConns) : UringConns[i] = d
  OBVIOUS
<1>2. /\ client' = client /\ client.program = "uring" /\ gen.pc = "reap"
      /\ cq # <<>> /\ Head(cq).op.op = "recv"
  BY DEF reap_recv, Reap, Going, clientVars
<1>3. \/ gen' = gen /\ (uconn' = uconn \/ uconn' = [uconn EXCEPT ![d].deaf = TRUE])
      \/ /\ uconn' = [uconn EXCEPT ![d].rbuf = @ \o res]
         /\ gen' = [pc |-> "drain", left |-> 0, i |-> j]
  BY <1>1 DEF reap_recv, Receive
<1>4. CASE gen' = gen /\ (uconn' = uconn \/ uconn' = [uconn EXCEPT ![d].deaf = TRUE])
  <2>1. \A c \in Conns : uconn'[c].rbuf = uconn[c].rbuf
    BY <1>4, DeafKeeps
  <2> QED
    BY <1>2, <1>4, <2>1, RoomSame
<1>5. CASE /\ uconn' = [uconn EXCEPT ![d].rbuf = @ \o res]
           /\ gen' = [pc |-> "drain", left |-> 0, i |-> j]
  <2>1. \A c \in Conns : c # d => uconn'[c].rbuf = uconn[c].rbuf
    BY <1>5, CountFields
  <2>2. It' = d
    <3>1. UringConns' = UringConns /\ gen'.i = j
      BY <1>2, <1>5, Fixed
    <3>2. d \in Range(UringConns)
      <4>1. cq \in Seq(Completions)
        BY Invs, CompletionsTyped
      <4>2. Head(cq) \in Completions
        BY <1>2, <4>1, HeadTyped
      <4>3. Head(cq).op \in Operations
        BY <4>2 DEF Completions
      <4> QED
        BY <1>1, <4>3, OperationFields
    <3>3. \E i \in 1 .. Len(UringConns) : UringConns[i] = d
      BY <3>2, CountFields DEF Range
    <3> QED
      BY <1>1, <3>1, <3>3 DEF It
  <2>3. gen'.pc = "drain"
    BY <1>5
  <2> QED
    BY <1>2, <2>1, <2>2, <2>3 DEF RoomLeft
<1> QED
  BY <1>3, <1>4, <1>5

LEMMA DrainRoom ==
  ASSUME TypeInv, RoomLeft, drain_packets
  PROVE  RoomLeft'
<1>1. PICK d \in Conns : d = It
  BY CountFields
<1>2. PICK b, y : b = Drop(uconn[d].rbuf, 2 + Length(uconn[d].rbuf)) /\ y = Answers(uconn[d].rbuf)
  OBVIOUS
<1>3. /\ client' = client /\ client.program = "uring" /\ gen.pc = "drain"
      /\ gen' = [gen EXCEPT !.left = @ + y]
      /\ uconn' = [uconn EXCEPT ![d].rbuf = b, ![d].in_flight = @ - y]
  BY <1>1, <1>2 DEF drain_packets, Going, clientVars
<1>4. gen'.pc = "drain" /\ gen'.i = gen.i
  BY <1>3, CountFields DEF GenRecords
<1>5. It' = d
  BY <1>1, <1>3, <1>4, Fixed DEF It
<1>6. \A c \in Conns : c # d => uconn'[c].rbuf = uconn[c].rbuf
  BY <1>3, CountFields
<1> QED
  BY <1>1, <1>3, <1>4, <1>5, <1>6 DEF RoomLeft

(* The only step that may leave the buffer full once its packets are taken. *)
LEMMA RefillRoom ==
  ASSUME MaxPayload >= 4, RecvSize >= 6, TypeInv, FlowInv, RoomLeft, refill
  PROVE  RoomLeft'
<1>1. /\ client' = client /\ client.program = "uring" /\ gen.pc = "drain" /\ uconn' = uconn
      /\ Drained(uconn[It].rbuf)
  BY DEF refill, Going, clientVars
<1>2. Len(uconn[It].rbuf) < 6
  BY <1>1, CountFields, DrainedShort
<1>3. Len(uconn[It].rbuf) < RecvSize
  <2>1. PICK n \in Nat : n = Len(uconn[It].rbuf)
    <3>1. uconn[It].rbuf \in Bytes
      BY CountFields
    <3> QED
      BY <3>1, ByteSeq
  <2> QED
    BY <1>2, <2>1, UringAssumption
<1>4. \A c \in Conns : Len(uconn'[c].rbuf) < RecvSize
  BY <1>1, <1>3 DEF RoomLeft
<1> QED
  BY <1>4 DEF RoomLeft

LEMMA RoomKept ==
  ASSUME MaxPayload >= 4, RecvSize >= 6, TypeInv, TypeInv', FlowInv, RoomLeft, [Next]_vars
  PROVE  RoomLeft'
<1>1. CASE UringNext
  <2>1. CASE uring_exit
    <3>1. gen'.pc = "stopped"
      BY <2>1, Invs, GoesTo DEF uring_exit
    <3> QED
      BY <3>1 DEF RoomLeft
  <2> QED
    BY <1>1, <2>1, QuietRoom, ReapRecvRoom, DrainRoom, RefillRoom DEF UringNext
<1>2. CASE client' = client /\ UNCHANGED uringVars
  <2>1. gen' = gen /\ uconn' = uconn
    BY <1>2 DEF uringVars
  <2> QED
    BY <1>2, <2>1, RoomSame
<1>3. CASE ServerNext /\ UNCHANGED <<clientVars, threadsVars, uringVars, other>>
  BY <1>2, <1>3 DEF clientVars
<1>4. CASE ThreadsNext /\ UNCHANGED <<uringVars, other>>
  <2>1. client' = client
    BY <1>4 DEF ThreadsNext, MainStep, ThreadStep, pthread_create, pthread_create_fails, alarm,
           pthread_join, on_sigalrm_threads, connect_one, loop, send, write, read_reply,
           close_all, clientVars
  <2> QED
    BY <1>2, <1>4, <2>1
<1>5. CASE OtherNext
  <2>1. client' = client /\ UNCHANGED uringVars
    BY <1>5 DEF OtherNext, other_connect, other_asks, other_writes, other_reads, other_closes,
           Other, clientVars
  <2> QED
    BY <1>2, <2>1
<1>6. CASE UNCHANGED vars
  BY <1>2, <1>6 DEF vars, clientVars
<1> QED
  BY <1>1, <1>3, <1>4, <1>5, <1>6 DEF Next

(* Nothing that goes wrong on the way changes what the connections carry.   *)
RingInv == RepliesInv /\ RecvInv /\ FlowInv /\ CountInv

LEMMA RingInvHolds == Spec => []RingInv
<1>1. Init => RingInv
  BY RepliesStart, RecvStarts, FlowStarts, CountStarts DEF RingInv
<1>2. TypeInv /\ TypeInv' /\ RingInv /\ [Next]_vars => RingInv'
  BY RepliesStep, RecvKept, FlowHolds, CountHolds DEF RingInv
<1> QED
  BY <1>1, <1>2, TypeInvHolds, PTL DEF Spec

(* Every reply has a payload of three or four bytes: where those are        *)
(* accepted and the buffer holds one of them, a recv always has room, also  *)
(* after sends that failed and connections that were cut off.               *)
THEOREM RecvHasRoomHolds ==
  ASSUME MaxPayload >= 4, RecvSize >= 6
  PROVE  Spec => []RecvHasRoom
<1>1. Init => RoomLeft
  <2> SUFFICES ASSUME Init
               PROVE  RoomLeft
    OBVIOUS
  <2>1. \A c \in Conns : uconn[c].rbuf = <<>>
    BY DEF Init, UringInit
  <2>2. Len(<<>>) < RecvSize
    BY EmptyTyped, UringAssumption
  <2> QED
    BY <2>1, <2>2 DEF RoomLeft
<1>2. TypeInv /\ TypeInv' /\ RingInv /\ RoomLeft /\ [Next]_vars => RoomLeft'
  BY RoomKept DEF RingInv
<1>3. TypeInv /\ RoomLeft => RecvHasRoom
  <2> SUFFICES ASSUME TypeInv, RoomLeft, client.program = "uring", gen.pc # "stopped",
                      NEW c \in Range(UringConns), Receiving(c)
               PROVE  Len(uconn[c].rbuf) < RecvSize
    BY DEF RecvHasRoom
  <2>1. c \in Conns
    BY Invs, ClientFacts
  <2>2. ~(gen.pc = "drain" /\ c = It)
    BY DEF Receiving, Expects
  <2> QED
    BY <2>1, <2>2 DEF RoomLeft
<1> QED
  BY <1>1, <1>2, <1>3, RingInvHolds, TypeInvHolds, PTL DEF Spec

----------------------------------------------------------------------------
(* What in_flight counts                                                    *)

LEMMA FrameLengths ==
  ASSUME NEW f \in ReplyFrames, NEW s \in Bytes, NEW n \in Nat, <<s, n>> \in Chains({f})
  PROVE  Len(s) = Len(f) * n
<1> DEFINE R == {z \in Bytes \X Nat : Len(z[1]) = Len(f) * z[2]}
<1>1. PICK l \in 5 .. 6 : l = Len(f) /\ f \in Bytes
  BY FrameSizes
<1>2. <<<<>>, 0>> \in R
  BY <1>1, EmptyTyped
<1>3. ASSUME NEW z \in R
      PROVE  <<f \o z[1], z[2] + 1>> \in R
  <2>1. PICK a \in Bytes, m \in Nat : a = z[1] /\ m = z[2] /\ Len(a) = l * m
    <3>1. z \in Bytes \X Nat /\ Len(z[1]) = Len(f) * z[2]
      OBVIOUS
    <3>2. z[1] \in Bytes /\ z[2] \in Nat
      BY <3>1
    <3> QED
      BY <1>1, <3>1, <3>2
  <2>2. f \o a \in Bytes /\ Len(f \o a) = Len(f) + Len(a)
    BY <1>1, Joined
  <2>3. PICK i \in Nat : i = m + 1 /\ l * i = l + l * m
    <3>1. 5 * (m + 1) = 5 + 5 * m /\ 6 * (m + 1) = 6 + 6 * m
      OBVIOUS
    <3>2. l = 5 \/ l = 6
      BY <1>1
    <3>3. l * (m + 1) = l + l * m
      BY <3>1, <3>2
    <3> QED
      BY <3>3
  <2>4. PICK x \in Bytes : x = f \o a /\ Len(x) = Len(f) * i
    BY <1>1, <2>1, <2>2, <2>3
  <2>5. <<x, i>> \in R
    BY <2>4
  <2> HIDE DEF R
  <2> QED
    BY <2>1, <2>3, <2>4, <2>5
<1>4. AddsFrames({f}, R)
  <2> HIDE DEF R
  <2> QED
    BY <1>2, <1>3 DEF AddsFrames
<1>5. <<s, n>> \in R
  <2>1. R \in SUBSET (Bytes \X Nat)
    OBVIOUS
  <2> HIDE DEF R
  <2> QED
    BY <1>4, <2>1, ChainLeast
<1> QED
  BY <1>5

LEMMA AllAskedFor ==
  ASSUME TypeInv, FlowInv, client.program = "uring", gen.pc # "stopped", NEW c \in Conns
  PROVE  Asking(c) \in Nat
<1>1. FlowOf(c)
  BY DEF FlowInv
<1>2. Carries(conn[c], HasRead(c), 5 * Asking(c)) /\ conn[c].client # "closed"
  BY <1>1 DEF FlowOf, Flow
<1>3. PICK m \in Int, i \in Nat : m = Asking(c) /\ i = Size(conn[c])
  BY FlowFields, SizeTyped
<1>4. PICK n \in Nat : 5 * n + i <= 5 * m
  BY <1>2, <1>3 DEF Carries, Worth
<1> QED
  BY <1>3, <1>4

LEMMA OwnReplySize ==
  ASSUME TypeInv
  PROVE  Len(Owe(NoConn, Template).owed) = Len(OwnFrame)
<1>1. [x |-> 1, hp |-> Byte - 1] \in States /\ proto \in Codecs
  BY Invs, BinaryAssumption DEF States, ClientTypes
<1>2. Replies(Template) # {}
  BY <1>1, OwnReply DEF Template
<1>3. OwnFrame \in Bytes
  BY Invs, OwnFrameTyped
<1>4. <<>> \o OwnFrame = OwnFrame
  BY <1>3, WithNothing
<1>5. NoConn.owed = <<>> /\ NoConn.owed \o OwnFrame = OwnFrame
  BY <1>4 DEF NoConn
<1>6. PICK k \in ConnTypes : k = NoConn /\ k.server # "closed"
  <2>1. NoConn \in ConnTypes
    BY Invs, NoConnTyped DEF ServerInv
  <2>2. NoConn.server # "closed"
    BY DEF NoConn
  <2> QED
    BY <2>1, <2>2
<1>7. Owe(k, Template) = [k EXCEPT !.owed = k.owed \o OwnFrame]
  BY <1>2, <1>6 DEF Owe, OwnFrame, TheReply
<1> QED
  BY <1>5, <1>6, <1>7 DEF ConnTypes

(* The bytes of a connection on which nothing has gone wrong.               *)
LEMMA OwedOnTime ==
  ASSUME TypeInv, FlowInv, client.program = "uring", gen.pc # "stopped", NEW c \in Conns,
         conn[c].whole, ~uconn[c].failed, conn[c].server # "closed"
  PROVE  Len(OwnFrame) * uconn[c].in_flight =
           Len(OwnFrame) * Cardinality(Unsent(c)) + Len(conn[c].owed) + Len(Got(c))
             + Len(uconn[c].rbuf)
<1>1. PICK a \in Bytes, b \in Bytes, o \in Bytes :
        a = uconn[c].rbuf /\ b = Got(c) /\ o = conn[c].owed
  BY FlowFields, ConnFields
<1>2. PICK f \in ReplyFrames : f = OwnFrame
  BY Invs, OwnFrameTyped
<1>3. PICK m \in Nat : m = Asking(c)
  BY AllAskedFor
<1>4. FlowOf(c)
  BY DEF FlowInv
<1>5. <<(a \o b) \o o, m>> \in Chains({f})
  BY <1>1, <1>2, <1>3, <1>4 DEF FlowOf, Flow, HasRead
<1>6. PICK x \in Bytes : x = a \o b /\ Len(x) = Len(a) + Len(b)
  BY Joined
<1>7. x \o o \in Bytes /\ Len(x \o o) = Len(x) + Len(o)
  BY Joined
<1>8. Len(x \o o) = Len(f) * m
  BY <1>5, <1>6, <1>7, FrameLengths
<1>9. PICK i \in Nat, j \in Nat, k \in Nat : i = Len(a) /\ j = Len(b) /\ k = Len(o)
  BY ByteSeq
<1>10. PICK l \in 5 .. 6 : l = Len(f)
  BY FrameSizes
<1>11. PICK n \in Int, w \in Nat : n = uconn[c].in_flight /\ w = Cardinality(Unsent(c)) /\ m = n - w
  BY <1>3, FlowFields DEF Asking, Waiting
<1>12. l * m = (i + j) + k
  BY <1>6, <1>7, <1>8, <1>9, <1>10
<1>13. l * n = l * w + k + j + i
  <2>1. CASE l = 5
    <3>1. 5 * (n - w) = (i + j) + k
      BY <1>11, <1>12, <2>1
    <3>2. 5 * n = 5 * w + k + j + i
      BY <3>1
    <3> QED
      BY <2>1, <3>2
  <2>2. CASE l = 6
    <3>1. 6 * (n - w) = (i + j) + k
      BY <1>11, <1>12, <2>2
    <3>2. 6 * n = 6 * w + k + j + i
      BY <3>1
    <3> QED
      BY <2>2, <3>2
  <2> QED
    BY <1>10, <2>1, <2>2
<1> QED
  BY <1>1, <1>2, <1>9, <1>10, <1>11, <1>13

(* There are never more requests on their way than Depth, nor fewer than    *)
(* none; and where nothing has gone wrong each one counted is on its way.   *)
THEOREM InFlightIsRealHolds == Spec => []InFlightIsReal
<1>1. TypeInv /\ RingInv => InFlightIsReal
  <2> SUFFICES ASSUME TypeInv, RepliesInv, RecvInv, FlowInv, CountInv,
                      client.program = "uring", gen.pc # "stopped"
               PROVE  InFlightIsReal
    BY DEF RingInv, InFlightIsReal
  <2>1. \A c \in Conns : uconn[c].in_flight + LeftOf(c) \in {0, Depth}
    BY DEF CountInv
  <2>2. \A c \in Conns : uconn[c].in_flight \in Nat /\ LeftOf(c) \in Nat
    <3> TAKE c \in Conns
    <3>1. PICK n \in Int, w \in Nat : n = uconn[c].in_flight /\ w = Waiting(c) /\ n - w \in Nat
      BY AllAskedFor, FlowFields DEF Asking
    <3> QED
      BY <3>1, CountFields
  <2>3. \A c \in Conns : uconn[c].in_flight \in 0 .. Depth /\ LeftOf(c) \in 0 .. Depth
    BY <2>1, <2>2, CountFields
  <2>4. gen.left \in 0 .. Depth
    <3>1. CASE gen.pc \in {"seed", "drain", "refill"}
      BY <2>3, <3>1, CountFields DEF LeftOf
    <3>2. CASE gen.pc \notin {"seed", "drain", "refill"}
      BY <3>2, CountFields DEF CountInv
    <3> QED
      BY <3>1, <3>2
  <2>5. Range(UringConns) \subseteq Conns
    BY Invs, ClientFacts
  <2>6. PICK reply : reply = Len(Owe(NoConn, Template).owed) /\ reply = Len(OwnFrame)
    BY OwnReplySize
  <2>7. \A c \in Conns :
          conn[c].whole /\ ~uconn[c].failed /\ conn[c].server \in {"backlog", "open"} =>
            reply * uconn[c].in_flight =
              reply * Cardinality(Unsent(c)) + Len(conn[c].owed) + Len(Got(c))
                + Len(uconn[c].rbuf)
    BY <2>6, OwedOnTime
  <2> QED
    BY <2>1, <2>3, <2>4, <2>5, <2>6, <2>7 DEF InFlightIsReal
<1> QED
  BY <1>1, RingInvHolds, TypeInvHolds, PTL DEF Spec
=============================================================================
