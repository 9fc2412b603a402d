------------------------------ MODULE BinarySystem ----------------------------
(****************************************************************************)
(* A worker of the binary server and a client: one of the two load          *)
(* generators, or another program that sends what it likes.                 *)
(****************************************************************************)
EXTENDS BinaryThreads, BinaryUring

VARIABLE other  \* what the other program has left to send on its connections

vars == <<serverVars, clientVars, threadsVars, uringVars, other>>

(* Malformed packets: no payload, one too long, one of another size than a  *)
(* raw state has, one that is no map, one of an unknown type.               *)
Malformations ==
  {<<0, 0>>, <<(MaxPayload + 1) \div Byte, (MaxPayload + 1) % Byte>>,
   <<0, 2, RAW, 0>>, <<0, 2, MSGPACK, 0>>, <<0, 1, 0>>}

Init ==
  /\ ServerInit /\ ClientInit /\ ThreadsInit /\ UringInit
  /\ other = [c \in Conns |-> [asked |-> 0, unsent |-> <<>>]]

Other(c) ==
  /\ client.program = "other" /\ conn[c].client = "open"
  /\ UNCHANGED <<clientVars, threadsVars, uringVars, backlog, worker, cur, room>>

other_connect(c) ==
  /\ client.program = "other" /\ Connect(c)
  /\ UNCHANGED <<clientVars, threadsVars, uringVars, other>>

(* At most Depth requests, the last of which may be malformed.              *)
other_asks(c) ==
  /\ Other(c) /\ other[c].asked < Depth /\ other[c].unsent = <<>>
  /\ \/ \E type \in Codecs, s \in {[x |-> 0, hp |-> 0], [x |-> Byte - 1, hp |-> 1]} :
          /\ other' = [other EXCEPT ![c] = [asked |-> @.asked + 1, unsent |-> Frame(Payload(type, s))]]
          /\ conn' = [conn EXCEPT ![c] = Owe(@, Payload(type, s))]
     \/ \E bytes \in Malformations :
          /\ other' = [other EXCEPT ![c] = [asked |-> Depth, unsent |-> bytes]]
          /\ UNCHANGED conn

other_writes(c) ==
  /\ Other(c)
  /\ \E n \in {1, Least(Free(conn[c]), Len(other[c].unsent))} :
       /\ n \in 1 .. Least(Free(conn[c]), Len(other[c].unsent))
       /\ other' = [other EXCEPT ![c].unsent = Drop(@, n)]
       /\ conn' = [conn EXCEPT ![c] = Write(@, SubSeq(other[c].unsent, 1, n))]

other_reads(c) ==
  /\ Other(c) /\ conn[c].down # <<>>
  /\ conn' = [conn EXCEPT ![c] = Read(@, Len(@.down))] /\ UNCHANGED other

other_closes(c) ==
  /\ Other(c) /\ Closing({c}) /\ UNCHANGED other

OtherNext ==
  \E c \in Range(ConnsOf[1]) :
    other_connect(c) \/ other_asks(c) \/ other_writes(c) \/ other_reads(c) \/ other_closes(c)

Next ==
  \/ ServerNext /\ UNCHANGED <<clientVars, threadsVars, uringVars, other>>
  \/ ThreadsNext /\ UNCHANGED <<uringVars, other>>
  \/ UringNext /\ UNCHANGED <<threadsVars, other>>
  \/ OtherNext

(* The worker takes its events in turn, and the scheduler runs every        *)
(* thread; the other program may stop anywhere, and so may the kernel of    *)
(* the ring.                                                                *)
Fairness ==
  /\ WF_vars(WorkerStep /\ UNCHANGED <<clientVars, threadsVars, uringVars, other>>)
  /\ SF_vars(binary_listener_callback /\ UNCHANGED <<clientVars, threadsVars, uringVars, other>>)
  /\ \A c \in Conns :
       SF_vars(dispatch(c) /\ UNCHANGED <<clientVars, threadsVars, uringVars, other>>)
  /\ WF_vars(MainStep /\ UNCHANGED <<uringVars, other>>)
  /\ \A t \in UNION {DOMAIN p.conns : p \in Clients} :
       WF_vars(t \in Threads /\ ThreadStep(t) /\ UNCHANGED <<uringVars, other>>)

Spec == Init /\ [][Next]_vars /\ Fairness

Bytes == Seq(0 .. Byte - 1)
Operations ==
  [op : {"send"}, conn : Range(UringConns), slot : 1 .. PoolSize, off : {0}]
    \cup [op : {"recv"}, conn : Range(UringConns), slot : {0}, off : 0 .. RecvSize - 1]
TypeOK ==
  /\ conn \in [Conns ->
       [client : {"none", "open", "failed", "closed"}, active : BOOLEAN,
        server : {"none", "backlog", "open", "closed"}, whole : BOOLEAN,
        up : Bytes, down : Bytes, input : Bytes, output : Bytes, owed : Bytes]]
  /\ worker \in {"idle", "event", "process", "stopped", "aborted"}
  /\ backlog \in Seq(Conns) /\ cur \in [conn : Conns, evs : SUBSET {"READ", "WRITE", "CLOSE"}]
  /\ \A c \in Conns : Len(conn[c].up) <= room /\ Len(conn[c].down) <= room
  /\ \A t \in Threads :
       thr[t] \in [pc : {"none", "connect", "loop", "conn", "write", "read", "close", "done"},
                   i : 1 .. Len(ConnsOf[t]) + 1, d : 0 .. Depth - 1, x : 0 .. Byte - 1,
                   unsent : Bytes, reply : Bytes]
  /\ main \in {"create", "join", "done", "killed"}
  /\ gen.pc \in {"connect", "seed", "loop", "wait", "reap", "drain", "refill", "stopped"}
  /\ gen.left \in Nat /\ gen.i \in DOMAIN UringConns
  /\ sq \in Seq(Operations) /\ Len(sq) <= SqSize /\ ring \in Seq(Operations)
  /\ cq \in Seq([op : Operations, res : Bytes]) /\ free \in Seq(1 .. PoolSize)
  /\ uconn \in [Conns -> [in_flight : Int, rbuf : Bytes, failed : BOOLEAN, deaf : BOOLEAN]]
  /\ other \in [Conns -> [asked : 0 .. Depth, unsent : Bytes]]
=============================================================================
