----------------------------- MODULE BinaryServer -----------------------------
(****************************************************************************)
(* A worker of the binary server: src/infrastructure/binary_server.c over   *)
(* the stream and descriptor of libreactor, and the sockets between it and  *)
(* its clients.                                                             *)
(*                                                                          *)
(* A packet is two bytes of length and a payload; a payload is the type and *)
(* the state of a player: x, here of one byte, and hp.  Its y is treated as *)
(* x is and left out.  The worker gets its events level-triggered, which is *)
(* what Reactor shows of descriptors that change their mask only in their   *)
(* own callback.                                                            *)
(****************************************************************************)
EXTENDS Integers, Sequences, SequencesExt

CONSTANTS
  Conns,        \* connections that are ever opened
  Byte,         \* values of a byte, 256 in the code
  MaxPayload,   \* BINARY_MAX_PAYLOAD
  Codecs,       \* {RAW}, and MSGPACK in a build with HAVE_MSGPACK
  AcceptMax,    \* connections accepted in one callback
  Rooms,        \* what a socket may hold in one direction
  Failures      \* whether calls that need memory or threads may fail

RAW == 1
MSGPACK == 2

ASSUME BinaryAssumption ==
  /\ Byte \in Nat \ 0 .. 3 /\ MaxPayload \in 1 .. Byte * Byte - 2
  /\ Codecs \subseteq {RAW, MSGPACK} /\ AcceptMax \in Nat \ {0}
  /\ Rooms \subseteq Nat \ {0} /\ Failures \in BOOLEAN

VARIABLES
  conn,     \* each connection, with its sockets
  backlog,  \* connections not yet accepted
  worker,   \* where the worker is
  cur,      \* the connection and the events being dispatched
  room      \* size of the socket buffers

serverVars == <<conn, backlog, worker, cur, room>>

(* The bytes a client has in flight (up) and is sent (down), the stream's   *)
(* buffers, and, for the properties only, the replies the client is still   *)
(* to read (owed) and whether all requests so far reached its socket whole. *)
NoConn ==
  [client |-> "none", server |-> "none", active |-> FALSE,
   up |-> <<>>, down |-> <<>>, input |-> <<>>, output |-> <<>>,
   owed |-> <<>>, whole |-> TRUE]

ServerInit ==
  /\ conn = [c \in Conns |-> NoConn]
  /\ backlog = <<>> /\ worker = "idle"
  /\ cur = [conn |-> CHOOSE c \in Conns : TRUE, evs |-> {}]
  /\ room \in Rooms

Least(m, n) == IF m < n THEN m ELSE n
Drop(s, n) == SubSeq(s, n + 1, Len(s))

----------------------------------------------------------------------------
(* Packets                                                                  *)

States == [x : 0 .. Byte - 1, hp : 0 .. Byte - 1]

(* Mutant of player_mutate: x does not wrap.                                *)
MutateOn(s) ==
  [x |-> s.x + 1, hp |-> IF s.hp = 0 THEN 0 ELSE s.hp - 1]

player_mutate(s) ==
  [x |-> (s.x + 1) % Byte, hp |-> IF s.hp = 0 THEN 0 ELSE s.hp - 1]

(* msgpack takes one byte for a small number; a larger one has a prefix.    *)
PackUint(x) == IF x < Byte \div 2 THEN <<x>> ELSE <<Byte - 1, x>>

Payload(type, s) ==
  <<type>> \o (IF type = RAW THEN <<s.x>> ELSE PackUint(s.x)) \o <<s.hp>>

Frame(payload) == <<Len(payload) \div Byte, Len(payload) % Byte>> \o payload

(* The length a sequence of two or more bytes starts with.                  *)
Length(s) == s[1] * Byte + s[2]

(* The replies to a payload: one, or none if its type is unknown, its size  *)
(* is not that of a raw state, or msgpack does not find the map.            *)
Replies(payload) ==
  {Payload(q[1], player_mutate(q[2])) :
     q \in {r \in Codecs \X States : Payload(r[1], r[2]) = payload}}

----------------------------------------------------------------------------
(* The stream                                                               *)

(* Mutant of Sent: what was sent stays in the output buffer.                *)
SentTwice(k) ==
  LET n == Least(Len(k.output), room - Len(k.down))
  IN [k EXCEPT !.down = IF k.client = "closed" THEN <<>> ELSE @ \o SubSeq(k.output, 1, n)]

(* stream_socket_write; a peer that is gone swallows the first data.        *)
Sent(k) ==
  LET n == Least(Len(k.output), room - Len(k.down))
  IN [k EXCEPT !.down = IF k.client = "closed" THEN <<>> ELSE @ \o SubSeq(k.output, 1, n),
               !.output = Drop(@, n)]

(* A failed send leaves everything where it is (with NDEBUG; see            *)
(* assert_fails).                                                           *)
stream_flush(k) == {Sent(k)} \cup {r \in {k} : k.client = "closed"}

stream_write(k, bytes) == [k EXCEPT !.output = @ \o bytes]
stream_consume(k, n) == [k EXCEPT !.input = Drop(@, n)]

(* Mutant of binary_conn_close: the connection stays in the list.           *)
CloseKept(k) ==
  [k EXCEPT !.server = "closed", !.up = <<>>, !.input = <<>>, !.output = <<>>]

(* Also stream_close, and list_erase, which frees the connection.           *)
binary_conn_close(k) ==
  IF ~k.active THEN k
  ELSE [k EXCEPT !.active = FALSE, !.server = "closed",
                 !.up = <<>>, !.input = <<>>, !.output = <<>>]

binary_conn_open(k, fails) ==
  IF fails THEN [k EXCEPT !.server = "closed", !.up = <<>>]
  ELSE [k EXCEPT !.server = "open", !.active = TRUE]

(* All sockets of the worker are closed.                                    *)
Torn(k) ==
  IF k.server \in {"open", "backlog"}
  THEN [binary_conn_close(k) EXCEPT !.server = "closed", !.up = <<>>] ELSE k

----------------------------------------------------------------------------
(* The worker                                                               *)

(* The listener's callback.                                                 *)
binary_listener_callback ==
  /\ worker = "idle" /\ backlog # <<>>
  /\ LET n == Least(Len(backlog), AcceptMax)
         accepted == {backlog[i] : i \in 1 .. n}
     IN /\ \E refused \in SUBSET accepted :
             /\ refused = {} \/ Failures
             /\ conn' = [c \in Conns |-> IF c \in accepted
                                         THEN binary_conn_open(conn[c], c \in refused)
                                         ELSE conn[c]]
        /\ backlog' = Drop(backlog, n)
  /\ UNCHANGED <<worker, cur, room>>

(* Readiness of a socket whose mask has STREAM_WRITE while output waits.    *)
Ready(k, e) ==
  CASE e = "READ"  -> k.up # <<>> \/ k.client = "closed"
    [] e = "WRITE" -> k.output # <<>> /\ (Len(k.down) < room \/ k.client = "closed")
    [] e = "CLOSE" -> k.client = "closed"

dispatch(c) ==
  /\ worker = "idle" /\ conn[c].active
  /\ LET evs == {e \in {"READ", "WRITE", "CLOSE"} : Ready(conn[c], e)}
     IN evs # {} /\ cur' = [conn |-> c, evs |-> evs]
  /\ worker' = "event"
  /\ UNCHANGED <<conn, backlog, room>>

(* descriptor_callback tests for READ, then WRITE, then CLOSE.              *)
Before(e) ==
  CASE e = "READ" -> {} [] e = "WRITE" -> {"READ"} [] e = "CLOSE" -> {"READ", "WRITE"}
IsNext(e) == e \in cur.evs /\ Before(e) \cap cur.evs = {}

Event(e) ==
  /\ worker = "event" /\ conn[cur.conn].active /\ IsNext(e)
  /\ cur' = [cur EXCEPT !.evs = @ \ {e}]
  /\ UNCHANGED <<backlog, room>>

(* stream_socket_callback and binary_conn_callback.                         *)
on_read ==
  /\ Event("READ")
  /\ LET k == conn[cur.conn]
     IN /\ conn' = [conn EXCEPT ![cur.conn] = [k EXCEPT !.input = @ \o k.up, !.up = <<>>]]
        /\ worker' = IF k.up = <<>> THEN "event" ELSE "process"

(* STREAM_WRITE, once the output is drained, closes.                        *)
on_write ==
  /\ Event("WRITE")
  /\ \E k \in stream_flush(conn[cur.conn]) :
       conn' = [conn EXCEPT ![cur.conn] = IF k.output = <<>> THEN binary_conn_close(k) ELSE k]
  /\ UNCHANGED worker

on_close ==
  /\ Event("CLOSE")
  /\ conn' = [conn EXCEPT ![cur.conn] = binary_conn_close(@)]
  /\ UNCHANGED worker

(* A connection that was closed by an earlier event is freed; what the      *)
(* callers read there are a descriptor of -1 and a connection not active.   *)
dispatched ==
  /\ worker = "event"
  /\ cur.evs = {} \/ ~conn[cur.conn].active
  /\ worker' = "idle" /\ cur' = [cur EXCEPT !.evs = {}]
  /\ UNCHANGED <<conn, backlog, room>>

BadLength(s) == IF Len(s) < 2 THEN FALSE ELSE Length(s) \notin 1 .. MaxPayload
Incomplete(s) ==
  IF Len(s) < 2 THEN TRUE ELSE ~BadLength(s) /\ Len(s) < 2 + Length(s)
FrontPayload(s) == SubSeq(s, 3, 2 + Length(s))
Malformed(s) ==
  ~Incomplete(s) /\ (IF BadLength(s) THEN TRUE ELSE Replies(FrontPayload(s)) = {})

(* Mutant of binary_conn_process: one packet for each event.                *)
ProcessOne ==
  /\ worker = "process" /\ UNCHANGED <<backlog, cur, room>> /\ worker' = "event"
  /\ LET k == conn[cur.conn]
     IN \/ Incomplete(k.input) /\ UNCHANGED conn
        \/ Malformed(k.input) /\ conn' = [conn EXCEPT ![cur.conn] = binary_conn_close(k)]
        \/ /\ ~Incomplete(k.input) /\ ~Malformed(k.input)
           /\ \E r \in Replies(FrontPayload(k.input)) :
              \E f \in stream_flush(stream_write(k, Frame(r))) :
                conn' = [conn EXCEPT ![cur.conn] = stream_consume(f, 2 + Length(k.input))]

(* One turn of the loop: each reply is flushed before its request is        *)
(* consumed.                                                                *)
binary_conn_process ==
  /\ worker = "process"
  /\ LET k == conn[cur.conn]
     IN \/ Incomplete(k.input) /\ worker' = "event" /\ UNCHANGED conn
        \/ /\ Malformed(k.input) /\ worker' = "event"
           /\ conn' = [conn EXCEPT ![cur.conn] = binary_conn_close(k)]
        \/ /\ ~Incomplete(k.input) /\ ~Malformed(k.input) /\ UNCHANGED worker
           /\ \E r \in Replies(FrontPayload(k.input)) :
              \E f \in stream_flush(stream_write(k, Frame(r))) :
                conn' = [conn EXCEPT ![cur.conn] = stream_consume(f, 2 + Length(k.input))]
  /\ UNCHANGED <<backlog, cur, room>>

(* A send to a peer that is gone fails with an error other than EAGAIN, and *)
(* a build without NDEBUG dies in stream_socket_write.                      *)
assert_fails ==
  /\ conn[cur.conn].active /\ conn[cur.conn].client = "closed"
  /\ LET k == conn[cur.conn]
     IN \/ worker = "process" /\ ~Incomplete(k.input) /\ ~Malformed(k.input)
        \/ worker = "event" /\ IsNext("WRITE")
  /\ conn' = [c \in Conns |-> Torn(conn[c])]
  /\ worker' = "aborted" /\ backlog' = <<>>
  /\ UNCHANGED <<cur, room>>

(* After the loop has ended: every connection, then the listener.           *)
binary_server_shutdown ==
  /\ worker = "idle" /\ worker' = "stopped" /\ backlog' = <<>>
  /\ conn' = [c \in Conns |-> Torn(conn[c])]
  /\ UNCHANGED <<cur, room>>

WorkerStep == on_read \/ on_write \/ on_close \/ dispatched \/ binary_conn_process

ServerNext ==
  \/ binary_listener_callback
  \/ \E c \in Conns : dispatch(c)
  \/ WorkerStep \/ assert_fails \/ binary_server_shutdown

----------------------------------------------------------------------------
(* Properties                                                               *)

(* However its requests and their replies are split, buffered or delayed,   *)
(* what a client reads are the replies to its requests, each once and in    *)
(* the order it asked.                                                      *)
RepliesInOrder ==
  \A c \in Conns : conn[c].client = "open" /\ conn[c].whole =>
    IsPrefix(conn[c].down \o conn[c].output, conn[c].owed)

(* No complete packet, nor a malformed one, waits in the input while the    *)
(* worker waits: only new input would bring it back to it.                  *)
NoPacketForgotten ==
  worker = "idle" => \A c \in Conns : conn[c].active => Incomplete(conn[c].input)

(* The list holds the connections whose socket is open and no other; the    *)
(* worker is in the middle of the packets of such a one only, and none is   *)
(* left when it has stopped.                                                *)
ListedIsOpen ==
  /\ \A c \in Conns :
       /\ conn[c].active <=> conn[c].server = "open"
       /\ conn[c].server = "backlog" <=> \E i \in 1 .. Len(backlog) : backlog[i] = c
  /\ worker = "process" => conn[cur.conn].active
  /\ worker \in {"stopped", "aborted"} =>
       \A c \in Conns : conn[c].server \notin {"open", "backlog"}
=============================================================================
