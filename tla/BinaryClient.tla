----------------------------- MODULE BinaryClient -----------------------------
(****************************************************************************)
(* What the clients of the binary server have in common: the two load       *)
(* generators of bench/, and any other program that connects.  One of them  *)
(* runs; it asks in one codec.                                              *)
(****************************************************************************)
EXTENDS BinaryServer

CONSTANT Clients  \* the clients considered: program, --depth, and the
                  \* connections of each of its threads, in order

ASSUME ClientAssumption ==
  \A p \in Clients :
    /\ p.program \in {"threads", "uring", "other"} /\ p.depth \in Nat \ {0}
    /\ p.conns \in Seq(Seq(Conns) \ {<<>>}) /\ p.conns # <<>>
    /\ \A t, u \in DOMAIN p.conns : \A i \in DOMAIN p.conns[t], j \in DOMAIN p.conns[u] :
         p.conns[t][i] = p.conns[u][j] => t = u /\ i = j

VARIABLES
  client,  \* the client that runs
  proto,   \* --proto
  g_stop   \* set by SIGALRM

clientVars == <<client, proto, g_stop>>

ClientInit ==
  /\ client \in Clients /\ proto \in Codecs /\ g_stop = FALSE

Depth == client.depth
ConnsOf == client.conns

(* connect() succeeds before the server accepts.                            *)
Connect(c) ==
  /\ conn[c].client = "none" /\ worker \notin {"stopped", "aborted"}
  /\ conn' = [conn EXCEPT ![c].client = "open", ![c].server = "backlog"]
  /\ backlog' = Append(backlog, c)
  /\ UNCHANGED <<worker, cur, room>>

(* A request is written as a whole or in parts; its reply is owed from the  *)
(* first byte on, unless it is malformed.                                   *)
Owe(k, payload) ==
  [k EXCEPT !.owed =
     IF k.server = "closed" \/ Replies(payload) = {} THEN @
     ELSE @ \o Frame(CHOOSE r \in Replies(payload) : TRUE)]

Free(k) == room - Len(k.up)
Write(k, bytes) == IF k.server = "closed" THEN k ELSE [k EXCEPT !.up = @ \o bytes]
Read(k, n) == [k EXCEPT !.down = Drop(@, n), !.owed = Drop(@, n)]

(* A client that closes before it has read everything resets the            *)
(* connection, and the server may lose what it has not read.                *)
Closing(closed) ==
  \E lost \in SUBSET {c \in closed : conn[c].down # <<>>} :
    conn' = [c \in Conns |->
               IF c \in closed
               THEN [conn[c] EXCEPT !.client = "closed", !.down = <<>>, !.owed = <<>>,
                                    !.up = IF c \in lost THEN <<>> ELSE @]
               ELSE conn[c]]
Open == {c \in Conns : conn[c].client = "open"}
=============================================================================
