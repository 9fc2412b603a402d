----------------------------- MODULE BinaryThreads ----------------------------
(****************************************************************************)
(* bench/binary_loadgen.c: threads that each send Depth requests on a       *)
(* connection of theirs with blocking calls, read as many replies, and go   *)
(* on to their next connection, until an alarm sets g_stop.  Its counts are *)
(* left out.                                                                *)
(****************************************************************************)
EXTENDS BinaryClient

Threads == DOMAIN ConnsOf

VARIABLES
  thr,   \* the threads
  main   \* where main is: it creates, joins, or is done; "killed" with all

threadsVars == <<thr, main>>

NoThread ==
  [pc |-> "none", i |-> 1, d |-> 0, x |-> 0, unsent |-> <<>>, reply |-> <<>>]

ThreadsInit == thr = [t \in Threads |-> NoThread] /\ main = "create"

Running == client.program = "threads" /\ main \notin {"done", "killed"}
At(t, place) == Running /\ thr[t].pc = place
MyConn(t) == ConnsOf[t][thr[t].i]

(* errors++ or the end of a round: goto next_conn.                          *)
NextConn(r) == [r EXCEPT !.pc = "conn", !.i = @ + 1, !.d = 0, !.unsent = <<>>, !.reply = <<>>]

(* The process ends and the kernel closes its sockets.                      *)
Killed ==
  /\ main' = "killed" /\ Closing(Open)
  /\ UNCHANGED <<thr, backlog, worker, cur, room>>

(* The thread that is created next; main waits for the others once it has   *)
(* set the alarm.                                                           *)
Created == {t \in Threads : thr[t].pc # "none"}
pthread_create ==
  /\ Running /\ main = "create" /\ Created # Threads
  /\ LET t == CHOOSE u \in Threads \ Created : \A v \in Threads \ Created : u <= v
     IN thr' = [thr EXCEPT ![t] = [NoThread EXCEPT !.pc = "connect"]]
  /\ UNCHANGED <<main, serverVars, clientVars>>

pthread_create_fails ==
  /\ Failures /\ Running /\ main = "create" /\ Created # Threads
  /\ Killed /\ UNCHANGED clientVars

alarm ==
  /\ Running /\ main = "create" /\ Created = Threads
  /\ main' = "join"
  /\ UNCHANGED <<thr, serverVars, clientVars>>

pthread_join ==
  /\ Running /\ main = "join" /\ \A t \in Threads : thr[t].pc = "done"
  /\ main' = "done"
  /\ UNCHANGED <<thr, serverVars, clientVars>>

(* A thread whose connection fails goes on without it.                      *)
connect_one(t) ==
  /\ At(t, "connect") /\ UNCHANGED <<main, clientVars>>
  /\ \/ /\ thr[t].i > Len(ConnsOf[t])
        /\ thr' = [thr EXCEPT ![t].pc = "loop"] /\ UNCHANGED serverVars
     \/ /\ thr[t].i <= Len(ConnsOf[t])
        /\ thr' = [thr EXCEPT ![t].i = @ + 1]
        /\ \/ Connect(MyConn(t))
           \/ /\ Failures \/ worker \in {"stopped", "aborted"}
              /\ conn' = [conn EXCEPT ![MyConn(t)].client = "failed"]
              /\ UNCHANGED <<backlog, worker, cur, room>>

loop(t) ==
  /\ At(t, "loop")
  /\ thr' = [thr EXCEPT ![t].pc = IF g_stop THEN "close" ELSE "conn", ![t].i = 1]
  /\ UNCHANGED <<main, serverVars, clientVars>>

Request(t) == Payload(proto, [x |-> thr[t].x, hp |-> Byte - 1])

(* The head of the loop over the connections, and of the one that sends.    *)
send(t) ==
  /\ At(t, "conn") /\ UNCHANGED <<main, clientVars, backlog, worker, cur, room>>
  /\ \/ /\ thr[t].i > Len(ConnsOf[t])
        /\ thr' = [thr EXCEPT ![t].pc = "loop"] /\ UNCHANGED conn
     \/ /\ thr[t].i <= Len(ConnsOf[t]) /\ conn[MyConn(t)].client = "failed"
        /\ thr' = [thr EXCEPT ![t].i = @ + 1] /\ UNCHANGED conn
     \/ /\ thr[t].i <= Len(ConnsOf[t]) /\ conn[MyConn(t)].client = "open"
        /\ thr' = [thr EXCEPT ![t].pc = "write", ![t].unsent = Frame(Request(t))]
        /\ conn' = [conn EXCEPT ![MyConn(t)] = Owe(@, Request(t))]

(* Mutant of Written: the last request of a round is never sent.            *)
WrittenLess(r) ==
  [r EXCEPT !.d = IF r.d + 2 < Depth THEN @ + 1 ELSE 0, !.x = (@ + 1) % Byte,
            !.pc = IF r.d + 2 < Depth THEN "conn" ELSE "read", !.unsent = <<>>]

Written(r) ==
  [r EXCEPT !.d = IF r.d + 1 < Depth THEN @ + 1 ELSE 0, !.x = (@ + 1) % Byte,
            !.pc = IF r.d + 1 < Depth THEN "conn" ELSE "read", !.unsent = <<>>]

(* A blocking write gives the socket what fits, until all is taken; to a    *)
(* connection that the server closed it succeeds once, and then fails or    *)
(* ends the process with SIGPIPE, which it does not ignore.                 *)
write(t) ==
  /\ At(t, "write") /\ UNCHANGED clientVars
  /\ LET k == conn[MyConn(t)]
         r == thr[t]
     IN \/ \E n \in 1 .. Least(Free(k), Len(r.unsent)) :
             /\ k.server # "closed"
             /\ conn' = [conn EXCEPT ![MyConn(t)] = Write(k, SubSeq(r.unsent, 1, n))]
             /\ thr' = [thr EXCEPT ![t] = IF n = Len(r.unsent) THEN Written(r)
                                          ELSE [r EXCEPT !.unsent = Drop(@, n)]]
             /\ UNCHANGED <<main, backlog, worker, cur, room>>
        \/ /\ k.server = "closed"
           /\ \E q \in {Written(r), NextConn(r)} : thr' = [thr EXCEPT ![t] = q]
           /\ UNCHANGED <<main, serverVars>>
        \/ k.server = "closed" /\ Killed

(* What read_n is still to read of a reply: its length, then its payload.   *)
Needed(s) == IF Len(s) < 2 THEN 2 - Len(s) ELSE 2 + Length(s) - Len(s)

(* With the reply s, or a part of it; one with another type ends the round. *)
Answered(r, s) ==
  CASE BadLength(s) -> NextConn(r)
    [] Incomplete(s) -> [r EXCEPT !.reply = s]
    [] ~BadLength(s) /\ ~Incomplete(s) ->
         IF s[3] = proto /\ r.d + 1 < Depth
         THEN [r EXCEPT !.reply = <<>>, !.d = @ + 1] ELSE NextConn(r)

read_reply(t) ==
  /\ At(t, "read") /\ UNCHANGED <<main, clientVars, backlog, worker, cur, room>>
  /\ LET k == conn[MyConn(t)]
         r == thr[t]
         n == Least(Needed(r.reply), Len(k.down))
     IN \/ /\ n > 0 /\ conn' = [conn EXCEPT ![MyConn(t)] = Read(k, n)]
           /\ thr' = [thr EXCEPT ![t] = Answered(r, r.reply \o SubSeq(k.down, 1, n))]
        \/ /\ n = 0 /\ k.server = "closed"
           /\ thr' = [thr EXCEPT ![t] = NextConn(r)] /\ UNCHANGED conn

close_all(t) ==
  /\ At(t, "close") /\ UNCHANGED <<main, clientVars, backlog, worker, cur, room>>
  /\ thr' = [thr EXCEPT ![t].pc = "done"]
  /\ Closing(Open \cap Range(ConnsOf[t]))

(* signal() installs the handler with SA_RESTART, so that reads go on; a    *)
(* write that has given away a part returns short, and its connection is    *)
(* not used again.                                                          *)
on_sigalrm_threads ==
  /\ Running /\ main = "join" /\ ~g_stop /\ g_stop' = TRUE
  /\ \E cut \in {{}} \cup {{t} : t \in {u \in Threads :
                     thr[u].pc = "write" /\ thr[u].unsent # Frame(Request(u))}} :
       thr' = [t \in Threads |-> IF t \in cut THEN NextConn(thr[t]) ELSE thr[t]]
  /\ UNCHANGED <<main, serverVars, client, proto>>

ThreadStep(t) ==
  connect_one(t) \/ loop(t) \/ send(t) \/ write(t) \/ read_reply(t) \/ close_all(t)
MainStep == pthread_create \/ alarm \/ pthread_join

ThreadsNext ==
  \/ MainStep \/ pthread_create_fails \/ on_sigalrm_threads
  \/ \E t \in Threads : ThreadStep(t)

----------------------------------------------------------------------------
(* Properties                                                               *)

(* The alarm ends the program although every call of a thread may block and *)
(* none is interrupted by it: each thread gets the replies it waits for, or *)
(* the end of its connection, and main gets to join them all.  (SIGPIPE     *)
(* ends it too.)                                                            *)
ThreadsStop ==
  (client.program = "threads" /\ g_stop) ~> main \in {"done", "killed"}
=============================================================================
