--------------------------- MODULE HttpConnection ---------------------------
(****************************************************************************)
(* One HTTP connection of a worker: the request state machine of            *)
(* third_party/libreactor/src/reactor/server.c over the buffered stream of  *)
(* stream.c (plain sockets) and the poll slot its descriptor holds in the   *)
(* event loop, with the router of src/domain/http_server.c as its handler.  *)
(*                                                                          *)
(* The client pipelines requests 1, 2, ...  Data is counted in units: a     *)
(* request is RequestLen units of the byte stream it sends, a response is   *)
(* ResponseLen units of the byte stream it gets, each unit named by the     *)
(* request it answers.  Functions of the C code that run without giving the *)
(* client or the kernel a chance to act are operators on the connection     *)
(* record; what happens between two of them is an action.                   *)
(****************************************************************************)
EXTENDS Integers, Sequences, Bags, FiniteSets

CONSTANTS
  NRequests,    \* requests the client sends at most
  Bad,          \* those that are malformed
  Async,        \* those whose handler keeps the request and answers later
  RequestLen, ResponseLen,
  Threshold,    \* SERVER_BUFFER_CLEANUP_THRESHOLD
  SndBuf,       \* what the socket holds for the client
  Resets        \* whether the client may reset the connection

ASSUME HttpAssumption ==
  /\ NRequests \in Nat /\ Bad \subseteq 1 .. NRequests /\ Async \subseteq 1 .. NRequests
  /\ RequestLen \in Nat \ {0} /\ ResponseLen \in Nat \ {0}
  /\ Threshold \in Nat /\ SndBuf \in Nat \ {0} /\ Resets \in BOOLEAN

VARIABLES
  conn,     \* the server_request with its stream, socket and polls
  pending,  \* the request in its handler's hands, 0 if none
  pc,       \* where the worker is
  evs,      \* the events descriptor_callback has yet to dispatch
  answering,\* server_request_update was called by a late server_respond
  sent,     \* units the client has sent
  got,      \* units the client has read
  peer      \* "open", "half" (it sent FIN), "reset"

vars == <<conn, pending, pc, evs, answering, sent, got, peer>>

Bits == {"READ", "WRITE", "CLOSE"}
Interests == {{}, {"READ"}, {"READ", "WRITE"}}
Poll(mask) == [events |-> mask, res |-> {}]
Polls == [events : Interests, res : SUBSET Bits]

Unaccepted ==
  [open |-> FALSE, mask |-> {}, polls |-> EmptyBag, cancel |-> FALSE,
   base |-> 0, top |-> 0, output |-> <<>>, sndbuf |-> <<>>,
   state |-> "NONE", ref |-> 0, event_triggered |-> FALSE, consumed_bytes |-> 0]

Init ==
  /\ conn = Unaccepted
  /\ pending = 0 /\ pc = "idle" /\ evs = {} /\ answering = FALSE
  /\ sent = 0 /\ got = <<>> /\ peer = "open"

----------------------------------------------------------------------------
(* descriptor.c and core.c, as far as one slot shows them.  Every poll finds*)
(* an entry in the submission queue here; Reactor has those that do not.    *)

(* reactor_modify queues a poll only when none is in flight.                *)
descriptor_mask(c, mask) ==
  [c EXCEPT !.mask = mask,
            !.polls = IF c.mask # mask /\ @ = EmptyBag THEN SetToBag({Poll(mask)}) ELSE @]

(* The slot is given up and one of its polls cancelled, if that is still    *)
(* possible; those that are left are dropped as they complete.              *)
descriptor_close(c) == [c EXCEPT !.open = FALSE, !.mask = {}, !.cancel = TRUE]

(* Mutant of rearm: the slot is not looked at again.                        *)
RearmClosed(c) == [c EXCEPT !.polls = @ (+) SetToBag({Poll(c.mask)})]

rearm(c) ==
  IF c.open THEN [c EXCEPT !.polls = @ (+) SetToBag({Poll(c.mask)})] ELSE c

----------------------------------------------------------------------------
(* stream.c                                                                 *)

Input(c) == c.top - c.base

(* send() on a reset socket: neither data sent nor EAGAIN.                  *)
SendFails(c) == peer = "reset" /\ c.output # <<>>

stream_write(c, k) == [c EXCEPT !.output = @ \o [i \in 1 .. ResponseLen |-> k]]
stream_consume(c, n) == [c EXCEPT !.base = IF Input(c) < n THEN c.top ELSE @ + n]

stream_socket_write(c) ==
  LET room  == SndBuf - Len(c.sndbuf)
      total == IF Len(c.output) < room THEN Len(c.output) ELSE room
  IN [c EXCEPT !.sndbuf = @ \o SubSeq(c.output, 1, total),
               !.output = SubSeq(@, total + 1, Len(@))]

(* Mutant of stream_socket_mask: pending output is not waited for.          *)
ReadMask(c) == {"READ"}

stream_socket_mask(c) == {"READ"} \cup (IF c.output = <<>> THEN {} ELSE {"WRITE"})
stream_socket_update(c) == descriptor_mask(c, stream_socket_mask(c))
stream_flush(c) == stream_socket_update(stream_socket_write(c))

stream_close(c) ==
  IF c.open THEN [descriptor_close(c) EXCEPT !.base = c.top, !.output = <<>>] ELSE c

----------------------------------------------------------------------------
(* server.c                                                                 *)

server_hold(c) == [c EXCEPT !.ref = @ + 1]

(* The last release destroys the stream and frees the request.              *)
server_release(c) ==
  IF c.ref = 1 THEN [stream_close(c) EXCEPT !.ref = 0] ELSE [c EXCEPT !.ref = @ - 1]

(* Mutant of server_close: a closed request is closed again.                *)
CloseAgain(c) == server_release([stream_close(c) EXCEPT !.state = "CLOSED"])

server_close(c) ==
  IF c.state = "CLOSED" THEN c
  ELSE server_release([stream_close(c) EXCEPT !.state = "CLOSED"])

(* Mutant of http_read_request_data: an incomplete request is taken whole.  *)
ReadIncomplete(c) ==
  IF c.base \div RequestLen + 1 \in Bad \/ c.base % RequestLen # 0 THEN -1 ELSE RequestLen

(* What the parser finds at the front of the input: the malformed request is*)
(* recognised at its first unit, and so is input that starts in the middle  *)
(* of a request.                                                            *)
FrontRequest(c) == c.base \div RequestLen + 1
http_read_request_data(c) ==
  CASE FrontRequest(c) \in Bad \/ c.base % RequestLen # 0 -> -1
    [] Input(c) < RequestLen -> -2
    [] OTHER -> RequestLen

(* Mutant of Responded: the request stays in the input.                     *)
RespondedUnconsumed(c, k) == [stream_write(c, k) EXCEPT !.consumed_bytes = 0]

(* server_respond up to the point where it looks at event_triggered.        *)
Responded(c, k) ==
  [stream_consume(stream_write(c, k), c.consumed_bytes) EXCEPT !.consumed_bytes = 0]

(* Mutant of update_begin: no reference is taken.                           *)
UpdateUnheld(c) ==
  [c EXCEPT !.event_triggered = TRUE, !.consumed_bytes = 0, !.state = "READ"]

(* server_request_update up to its loop.                                    *)
UpdateDue(c) == c.state = "NEED_MORE_DATA" /\ Input(c) > 0
update_begin(c) ==
  [server_hold(c) EXCEPT !.event_triggered = TRUE, !.consumed_bytes = 0, !.state = "READ"]

Loop(c) == IF c.state = "READ" THEN "read" ELSE "finish"

(* The worker dies in a failed assertion; the kernel closes its sockets.    *)
Abort ==
  /\ pc' = "aborted"
  /\ UNCHANGED <<conn, pending, evs, answering, sent, got, peer>>

server_socket_accept ==
  /\ pc = "idle" /\ conn.state = "NONE"
  /\ conn' = [Unaccepted EXCEPT !.open = TRUE, !.mask = {"READ"},
                                !.polls = SetToBag({Poll({"READ"})}),
                                !.state = "NEED_MORE_DATA", !.ref = 1]
  /\ UNCHANGED <<pending, pc, evs, answering, sent, got, peer>>

(* One turn of the loop of server_request_update, up to the handler.        *)
server_request_read ==
  /\ pc = "read"
  /\ LET n == http_read_request_data(conn)
         k == FrontRequest(conn)
         bad == stream_write(server_hold(conn), k)
     IN \/ /\ Input(conn) = 0 \/ n = -2
           /\ conn' = [conn EXCEPT !.state = "NEED_MORE_DATA"]
           /\ pc' = Loop(conn') /\ UNCHANGED pending
        \/ /\ Input(conn) > 0 /\ n = -1
           /\ ~SendFails(bad)
           /\ conn' = server_release(server_close(stream_flush(bad)))
           /\ pc' = Loop(conn') /\ UNCHANGED pending
        \/ /\ Input(conn) > 0 /\ n > 0
           /\ conn' = [server_hold(conn) EXCEPT !.state = "HANDLING", !.consumed_bytes = n]
           /\ pending' = k
           /\ pc' = IF k \in Async THEN Loop(conn') ELSE "handler"
  /\ UNCHANGED <<evs, answering, sent, got, peer>>

(* Mutant of http_server_handle_request: the response ends the loop.        *)
HandledLast ==
  /\ pc = "handler"
  /\ conn' = server_release([Responded(conn, pending) EXCEPT !.state = "NEED_MORE_DATA"])
  /\ pending' = 0
  /\ pc' = Loop(conn')
  /\ UNCHANGED <<evs, answering, sent, got, peer>>

(* http_server_handle_request answers every route before it returns.        *)
http_server_handle_request ==
  /\ pc = "handler"
  /\ conn' = server_release([Responded(conn, pending) EXCEPT !.state = "READ"])
  /\ pending' = 0
  /\ pc' = Loop(conn')
  /\ UNCHANGED <<evs, answering, sent, got, peer>>

(* The end of server_request_update, and of the server_respond around it.   *)
update_end ==
  /\ pc = "finish"
  /\ LET full == Input(conn) > Threshold
         c1 == IF full THEN [stream_consume(conn, conn.consumed_bytes) EXCEPT !.consumed_bytes = 0]
               ELSE conn
         c2 == IF conn.state = "CLOSED" THEN conn ELSE stream_flush(c1)
         c3 == server_release([c2 EXCEPT !.event_triggered = FALSE])
     IN /\ conn.state # "CLOSED" => ~SendFails(conn)
        /\ conn' = IF answering THEN server_release(c3) ELSE c3
  /\ pc' = IF answering THEN "idle" ELSE "event"
  /\ answering' = FALSE
  /\ UNCHANGED <<pending, evs, sent, got, peer>>

(* server_respond outside of the connection's own callback.                 *)
server_respond ==
  /\ pc = "idle" /\ pending # 0
  /\ pending' = 0
  /\ \/ /\ conn.state = "CLOSED"
        /\ conn' = server_release(conn)
        /\ UNCHANGED <<pc, answering>>
     \/ /\ conn.state # "CLOSED" /\ peer = "reset"
        /\ pc' = "aborted" /\ UNCHANGED <<conn, answering>>
     \/ /\ conn.state # "CLOSED" /\ peer # "reset"
        /\ LET c1 == [Responded(conn, pending) EXCEPT !.state = "NEED_MORE_DATA"]
               c2 == stream_flush(c1)
           IN \/ /\ UpdateDue(c2)
                 /\ conn' = update_begin(c2) /\ pc' = "read" /\ answering' = TRUE
              \/ /\ ~UpdateDue(c2)
                 /\ conn' = server_release(c2) /\ UNCHANGED <<pc, answering>>
  /\ UNCHANGED <<evs, sent, got, peer>>

(* server_destruct, after the event loop has ended.                         *)
server_shutdown ==
  /\ pc = "idle" /\ conn.ref > 0
  /\ conn' = server_release(conn)
  /\ pc' = "stopped"
  /\ UNCHANGED <<pending, evs, answering, sent, got, peer>>

----------------------------------------------------------------------------
(* Dispatch: descriptor_callback, stream_socket_callback and                *)
(* server_request_callback for one completion.  Events left over when the   *)
(* request was freed by an earlier one reach cleared handlers.              *)

dispatch ==
  /\ pc = "idle" /\ conn.open
  /\ \E p \in BagToSet(conn.polls) :
       /\ p.res # {}
       /\ conn' = [conn EXCEPT !.polls = @ (-) SetToBag({p})]
       /\ evs' = p.res
  /\ pc' = "event"
  /\ UNCHANGED <<pending, answering, sent, got, peer>>

(* descriptor_callback tests for READ, then WRITE, then CLOSE.              *)
Before(e) ==
  CASE e = "READ" -> {} [] e = "WRITE" -> {"READ"} [] e = "CLOSE" -> {"READ", "WRITE"}

Event(e) == pc = "event" /\ conn.ref > 0 /\ e \in evs /\ Before(e) \cap evs = {}

(* recv() until a short read; nothing read, nothing dispatched.             *)
on_read ==
  /\ Event("READ")
  /\ LET c == [conn EXCEPT !.top = sent]
     IN \/ /\ sent > conn.top /\ UpdateDue(c)
           /\ conn' = update_begin(c) /\ pc' = "read"
        \/ /\ ~(sent > conn.top /\ UpdateDue(c))
           /\ conn' = c /\ UNCHANGED pc
  /\ evs' = evs \ {"READ"}
  /\ UNCHANGED <<pending, answering, sent, got, peer>>

(* Once everything is written STREAM_WRITE is dispatched, and               *)
(* server_request_callback closes on every event but STREAM_READ.           *)
on_write ==
  /\ Event("WRITE")
  /\ ~SendFails(conn)
  /\ LET c == stream_socket_update(stream_socket_write(conn))
     IN conn' = IF c.output = <<>> THEN server_close(c) ELSE c
  /\ evs' = evs \ {"WRITE"}
  /\ UNCHANGED <<pending, pc, answering, sent, got, peer>>

on_close ==
  /\ Event("CLOSE")
  /\ conn' = server_close(conn)
  /\ evs' = evs \ {"CLOSE"}
  /\ UNCHANGED <<pending, pc, answering, sent, got, peer>>

dispatched ==
  /\ pc = "event" /\ (evs = {} \/ conn.ref = 0)
  /\ conn' = rearm(conn)
  /\ evs' = {} /\ pc' = "idle"
  /\ UNCHANGED <<pending, answering, sent, got, peer>>

(* A completion whose slot has been given up is not dispatched.             *)
dropped ==
  /\ pc = "idle" /\ ~conn.open
  /\ \E p \in BagToSet(conn.polls) :
       p.res # {} /\ conn' = [conn EXCEPT !.polls = @ (-) SetToBag({p})]
  /\ UNCHANGED <<pending, pc, evs, answering, sent, got, peer>>

(* assert(errno == EAGAIN) in stream_socket_write, wherever it is reached.  *)
assert_fails ==
  /\ \/ pc = "finish" /\ conn.state # "CLOSED" /\ SendFails(conn)
     \/ pc = "read" /\ http_read_request_data(conn) = -1 /\ Input(conn) > 0 /\ peer = "reset"
     \/ Event("WRITE") /\ SendFails(conn)
  /\ Abort

----------------------------------------------------------------------------
(* The kernel and the client                                                *)

Readable == sent > conn.top \/ peer # "open"
Writable == Len(conn.sndbuf) < SndBuf \/ peer = "reset"
Readiness ==
  (IF Readable THEN {"READ"} ELSE {}) \cup (IF Writable THEN {"WRITE"} ELSE {})
    \cup (IF peer # "open" THEN {"CLOSE"} ELSE {})

poll_complete ==
  /\ \E p \in BagToSet(conn.polls) :
       LET res == Readiness \cap (p.events \cup {"CLOSE"}) IN
       /\ p.res = {} /\ res # {}
       /\ conn' = [conn EXCEPT !.polls = (@ (-) SetToBag({p})) (+) SetToBag({[p EXCEPT !.res = res]})]
  /\ UNCHANGED <<pending, pc, evs, answering, sent, got, peer>>

(* The IORING_OP_POLL_REMOVE of a closed descriptor ends one of its polls,  *)
(* whose completion is dropped as well; it may come too late, and it may    *)
(* never have got an entry.                                                 *)
poll_cancelled ==
  /\ conn.cancel
  /\ \E p \in BagToSet(conn.polls) :
       p.res = {} /\ conn' = [conn EXCEPT !.cancel = FALSE, !.polls = @ (-) SetToBag({p})]
  /\ UNCHANGED <<pending, pc, evs, answering, sent, got, peer>>

Running == pc \notin {"aborted", "stopped"}

client_send ==
  /\ Running /\ peer = "open" /\ sent < NRequests * RequestLen
  /\ conn.state # "CLOSED"
  /\ sent' = sent + 1
  /\ UNCHANGED <<conn, pending, pc, evs, answering, got, peer>>

client_recv ==
  /\ peer # "reset" /\ conn.sndbuf # <<>>
  /\ got' = Append(got, Head(conn.sndbuf))
  /\ conn' = [conn EXCEPT !.sndbuf = Tail(@)]
  /\ UNCHANGED <<pending, pc, evs, answering, sent, peer>>

client_shutdown ==
  /\ Running /\ peer = "open"
  /\ peer' = "half"
  /\ UNCHANGED <<conn, pending, pc, evs, answering, sent, got>>

client_reset ==
  /\ Running /\ Resets /\ peer # "reset"
  /\ peer' = "reset"
  /\ conn' = [conn EXCEPT !.sndbuf = <<>>]
  /\ UNCHANGED <<pending, pc, evs, answering, sent, got>>

Client == client_send \/ client_recv \/ client_shutdown \/ client_reset

Worker ==
  \/ server_socket_accept
  \/ dispatch \/ on_read \/ on_write \/ on_close \/ dispatched \/ dropped
  \/ server_request_read \/ http_server_handle_request \/ update_end
  \/ assert_fails

Next == Worker \/ server_respond \/ server_shutdown \/ poll_complete \/ poll_cancelled \/ Client

Spec == Init /\ [][Next]_vars

(* The loop runs and the kernel completes polls; the client reads what is   *)
(* there, but need not send, and a late handler need not answer.            *)
Fairness == WF_vars(Worker) /\ WF_vars(poll_complete) /\ WF_vars(client_recv)
FairSpec == Spec /\ Fairness

----------------------------------------------------------------------------
(* Properties                                                               *)

TypeOK ==
  /\ conn \in [open : BOOLEAN, mask : Interests, polls : {conn.polls}, cancel : BOOLEAN,
               base : Nat, top : Nat, output : Seq(1 .. NRequests),
               sndbuf : Seq(1 .. NRequests),
               state : {"NONE", "NEED_MORE_DATA", "READ", "HANDLING", "CLOSED"},
               ref : 0 .. 4, event_triggered : BOOLEAN, consumed_bytes : {0, RequestLen}]
  /\ IsABag(conn.polls) /\ BagToSet(conn.polls) \subseteq Polls
  /\ conn.base <= conn.top /\ conn.top <= sent /\ Len(conn.sndbuf) <= SndBuf
  /\ pending \in 0 .. NRequests
  /\ pc \in {"idle", "event", "read", "handler", "finish", "aborted", "stopped"}
  /\ evs \subseteq Bits
  /\ answering \in BOOLEAN
  /\ sent \in 0 .. NRequests * RequestLen
  /\ got \in Seq(1 .. NRequests)
  /\ peer \in {"open", "half", "reset"}

(* What the client has read, what the socket holds and what the output      *)
(* buffer holds are the responses to requests 1, 2, 3, ... in this order,   *)
(* each once and uninterrupted: no pipelined request is answered twice,     *)
(* skipped or parsed from the wrong offset, however its units are split     *)
(* over reads and its response over writes.  (A reset discards what the     *)
(* socket held.)                                                            *)
AnsweredInOrder ==
  LET all == IF peer = "reset" THEN got ELSE got \o conn.sndbuf \o conn.output
  IN \A i \in 1 .. Len(all) : all[i] = (i - 1) \div ResponseLen + 1

(* The reference count counts the connection itself until it is closed, the *)
(* request its handler holds, and server_request_update while it runs (also *)
(* inside a late server_respond): the request is freed once nobody uses it, *)
(* and never before.                                                        *)
Users ==
  Cardinality({u \in {"connection", "handler", "update", "respond"} :
    \/ u = "connection" /\ conn.state \notin {"NONE", "CLOSED"}
    \/ u = "handler" /\ pending # 0
    \/ u = "update" /\ pc \in {"read", "handler", "finish"}
    \/ u = "respond" /\ answering})
RefsCounted == Running => conn.ref = Users

(* The loop never goes to sleep on a request it could serve: while the      *)
(* worker waits on an open connection whose request is not in a handler's   *)
(* hands, the input holds no complete and no malformed request.             *)
NoRequestForgotten ==
  pc = "idle" /\ conn.open /\ pending = 0 =>
    Input(conn) = 0 \/ http_read_request_data(conn) = -2

Copies(p, B) == IF BagIn(p, B) THEN B[p] ELSE 0

(* Nothing more happens for a closed connection: although polls submitted   *)
(* before the close still complete and a handler may still answer, no       *)
(* completion is dispatched to it any more, no poll is submitted for its    *)
(* descriptor, whose number may by then belong to another one, and nothing  *)
(* more is read or written.                                                 *)
ClosedIsSilent ==
  [][conn.state = "CLOSED" =>
       /\ conn'.state = "CLOSED" /\ ~conn'.open
       /\ conn'.output = <<>> /\ Input(conn') = 0 /\ conn'.top = conn.top
       /\ Len(conn'.sndbuf) <= Len(conn.sndbuf)
       /\ evs' \subseteq evs
       /\ \A p \in Polls : p.res = {} => Copies(p, conn'.polls) <= Copies(p, conn.polls)]_vars

(* The connection keeps what the abstract responder promises: a response is *)
(* begun only for a request that has arrived, in the order of the requests, *)
(* none after the close, and a close loses only the end of what is under    *)
(* way, whatever is split, late or pipelined.  A malformed request arrives  *)
(* with its first unit.                                                     *)
Arrived(k) == sent >= (IF k \in Bad THEN (k - 1) * RequestLen + 1 ELSE k * RequestLen)
Abstract == INSTANCE Responder WITH
  phase     <- IF peer = "reset" THEN "lost"
               ELSE IF conn.state = "NONE" THEN "none"
               ELSE IF conn.open THEN "open" ELSE "closed",
  received  <- Cardinality({k \in 1 .. NRequests : Arrived(k)}),
  channel   <- IF peer = "reset" THEN <<>> ELSE conn.sndbuf \o conn.output,
  delivered <- got
ImplementsResponder == Abstract!Spec

(* Every complete request the client sends before any request with a late   *)
(* handler is answered in full, through partial reads, partial writes and a *)
(* full socket, unless the connection comes to its end.                     *)
RequestsServed ==
  \A k \in 1 .. NRequests :
    (\A j \in 1 .. k : j \notin Async \cup Bad) =>
      (sent >= k * RequestLen)
        ~> (Len(got) >= k * ResponseLen \/ conn.state = "CLOSED" \/ ~Running)

(* "Pipeline: continue processing requests on this connection": the server  *)
(* closes a connection only after the client did, or for a malformed        *)
(* request.                                                                 *)
KeptAlive ==
  conn.state = "CLOSED" =>
    peer # "open" \/ \E k \in Bad : sent > (k - 1) * RequestLen

(* The assertion of stream_socket_write: a send fails only with EAGAIN.     *)
SendFailsOnlyWithEAGAIN == pc # "aborted"
=============================================================================
