----------------------------- MODULE Supervisor -----------------------------
(****************************************************************************)
(* The process tree of the servers: the parent forks one worker per CPU,    *)
(* each worker runs an event loop, and signals and exits are to bring       *)
(* everything down.                                                         *)
(*                                                                          *)
(*   "http":   src/infrastructure/server_infrastructure.c over              *)
(*             src/platform/process.c and src/platform/signals.c            *)
(*   "binary": src/main/libreactor-binary-server.c                          *)
(*                                                                          *)
(* Both run reactor_construct and reactor_loop of core.c in the worker.     *)
(* Signals are SIGTERM and SIGINT, which no code tells apart; a process     *)
(* gets at most one.                                                        *)
(****************************************************************************)
EXTENDS Integers

CONSTANTS
  N,         \* worker_count
  Servers,   \* the programs considered
  Failures,  \* whether fork, start-up steps and workers may fail
  Parent     \* the parent process; worker i is process i

ASSUME SupervisorAssumption ==
  /\ N \in Nat \ {0} /\ Servers \subseteq {"http", "binary"}
  /\ Failures \in BOOLEAN /\ Parent \notin Int

Workers == 1 .. N
Processes == Workers \cup {Parent}

VARIABLES
  server,              \* which program this is
  pc,                  \* where each process is
  forked,              \* workers forked so far
  joined,              \* workers waited for ("binary")
  eventfd,             \* value of the eventfd of each worker
  active,              \* reactor_core.active of each worker
  shutdown_requested,  \* each process's copy of the flag
  signalled,           \* processes a signal was sent to
  pending              \* processes whose signal is not handled yet

vars == <<server, pc, forked, joined, eventfd, active, shutdown_requested,
          signalled, pending>>

ParentPlaces == {"fork", "eventfd_read", "log_running", "log_started", "check",
                 "wait", "log_exit"}
Starting == {"affinity", "log_start", "construct", "listen"}
Serving  == {"loop", "enter", "waiting", "drain"}

(* "blocked": the signal handler waits for the log mutex its own process    *)
(* holds.                                                                   *)
Ended == {"exited", "blocked"}

Init ==
  /\ server \in Servers
  /\ pc = [p \in Processes |-> IF p = Parent THEN "fork" ELSE "none"]
  /\ forked = 0 /\ joined = 0
  /\ eventfd = [w \in Workers |-> 0]
  /\ active = [w \in Workers |-> FALSE]
  /\ shutdown_requested = [p \in Processes |-> FALSE]
  /\ signalled = {} /\ pending = {}

Goto(p, place) == pc' = [pc EXCEPT ![p] = place]

----------------------------------------------------------------------------
(* The parent                                                               *)

(* Mutant of fork: one worker too many.                                     *)
ForkOneMore ==
  /\ pc[Parent] = "fork" /\ forked <= N
  /\ forked' = forked + 1
  /\ pc' = [pc EXCEPT ![forked + 1] = "affinity",
                      ![Parent] = IF server = "http" THEN "eventfd_read" ELSE "fork"]
  /\ UNCHANGED <<server, joined, eventfd, active, shutdown_requested, signalled, pending>>

(* The worker inherits the flag.                                            *)
fork ==
  /\ pc[Parent] = "fork" /\ forked < N
  /\ forked' = forked + 1
  /\ pc' = [pc EXCEPT ![forked + 1] = "affinity",
                      ![Parent] = IF server = "http" THEN "eventfd_read" ELSE "fork"]
  /\ shutdown_requested' =
       [shutdown_requested EXCEPT ![forked + 1] = shutdown_requested[Parent]]
  /\ UNCHANGED <<server, joined, eventfd, active, signalled, pending>>

(* The HTTP server gives up, leaving earlier workers to themselves; the     *)
(* binary server makes do with the workers it has.                          *)
fork_fails ==
  /\ Failures /\ pc[Parent] = "fork" /\ forked < N
  /\ Goto(Parent, IF server = "http" THEN "log_exit" ELSE "wait")
  /\ UNCHANGED <<server, forked, joined, eventfd, active, shutdown_requested,
                 signalled, pending>>

forked_all ==
  /\ pc[Parent] = "fork" /\ forked = N
  /\ Goto(Parent, IF server = "http" THEN "log_started" ELSE "wait")
  /\ UNCHANGED <<server, forked, joined, eventfd, active, shutdown_requested,
                 signalled, pending>>

eventfd_read ==
  /\ pc[Parent] = "eventfd_read" /\ eventfd[forked] > 0
  /\ eventfd' = [eventfd EXCEPT ![forked] = @ - 1]
  /\ Goto(Parent, "log_running")
  /\ UNCHANGED <<server, forked, joined, active, shutdown_requested, signalled, pending>>

check_shutdown ==
  /\ pc[Parent] = "check"
  /\ Goto(Parent, IF shutdown_requested[Parent] THEN "log_exit" ELSE "wait")
  /\ UNCHANGED <<server, forked, joined, eventfd, active, shutdown_requested,
                 signalled, pending>>

(* Mutants of wait: for any worker; for the first one.                      *)
WaitForAny ==
  /\ pc[Parent] = "wait" /\ \E w \in Workers : pc[w] = "exited"
  /\ Goto(Parent, "exited")
  /\ UNCHANGED <<server, forked, joined, eventfd, active, shutdown_requested,
                 signalled, pending>>
WaitForFirst ==
  /\ pc[Parent] = "wait" /\ pc[1] = "exited"
  /\ Goto(Parent, "exited")
  /\ UNCHANGED <<server, forked, joined, eventfd, active, shutdown_requested,
                 signalled, pending>>

(* wait() returns with the first worker that exits; waitpid() takes the     *)
(* workers in turn.                                                         *)
wait ==
  /\ pc[Parent] = "wait"
  /\ \/ /\ server = "http" /\ \E w \in Workers : pc[w] = "exited"
        /\ Goto(Parent, "log_exit") /\ UNCHANGED joined
     \/ /\ server = "binary" /\ joined < forked /\ pc[joined + 1] = "exited"
        /\ joined' = joined + 1 /\ UNCHANGED pc
     \/ /\ server = "binary" /\ joined = forked
        /\ Goto(Parent, "exited") /\ UNCHANGED joined
  /\ UNCHANGED <<server, forked, eventfd, active, shutdown_requested, signalled, pending>>

(* log_internal returns and the mutex is free again.                        *)
logged(p) ==
  /\ \/ p = Parent /\ pc[p] = "log_running" /\ Goto(p, "fork")
     \/ p = Parent /\ pc[p] = "log_started" /\ Goto(p, "check")
     \/ p = Parent /\ pc[p] = "log_exit" /\ Goto(p, "exited")
     \/ p \in Workers /\ pc[p] = "log_start" /\ Goto(p, "construct")
  /\ UNCHANGED <<server, forked, joined, eventfd, active, shutdown_requested,
                 signalled, pending>>

----------------------------------------------------------------------------
(* A worker                                                                 *)

set_affinity(w) ==
  /\ pc[w] = "affinity" /\ Goto(w, "log_start")
  /\ UNCHANGED <<server, forked, joined, eventfd, active, shutdown_requested,
                 signalled, pending>>

(* Mutant of reactor_construct: the parent is told before the worker        *)
(* listens.                                                                 *)
ReadyTooEarly(w) ==
  /\ pc[w] = "construct" /\ Goto(w, "listen")
  /\ active' = [active EXCEPT ![w] = TRUE]
  /\ eventfd' = [eventfd EXCEPT ![w] = 1]
  /\ UNCHANGED <<server, forked, joined, shutdown_requested, signalled, pending>>

reactor_construct(w) ==
  /\ pc[w] = "construct" /\ Goto(w, "listen")
  /\ active' = [active EXCEPT ![w] = TRUE]
  /\ UNCHANGED <<server, forked, joined, eventfd, shutdown_requested, signalled, pending>>

(* Mutant of worker_ready: the parent is not told.                          *)
ReadyUntold(w) ==
  /\ pc[w] = "listen" /\ Goto(w, "loop")
  /\ UNCHANGED <<server, forked, joined, eventfd, active, shutdown_requested,
                 signalled, pending>>

(* The socket is bound and listening, then the parent is told.              *)
worker_ready(w) ==
  /\ pc[w] = "listen" /\ Goto(w, "loop")
  /\ eventfd' = IF server = "http" THEN [eventfd EXCEPT ![w] = @ + 1] ELSE eventfd
  /\ UNCHANGED <<server, forked, joined, active, shutdown_requested, signalled, pending>>

(* reactor_loop looks at active, then enters the kernel: two steps.         *)
reactor_loop(w) ==
  /\ \/ pc[w] = "loop" /\ Goto(w, IF active[w] THEN "enter" ELSE "drain")
     \/ pc[w] = "enter" /\ Goto(w, "waiting")
     \/ pc[w] = "drain" /\ Goto(w, "exited")
  /\ UNCHANGED <<server, forked, joined, eventfd, active, shutdown_requested,
                 signalled, pending>>

(* A completion ends the wait; the timer of the HTTP server brings one      *)
(* every second, clients bring them when they like.                         *)
wake(w) ==
  /\ pc[w] = "waiting" /\ Goto(w, "loop")
  /\ UNCHANGED <<server, forked, joined, eventfd, active, shutdown_requested,
                 signalled, pending>>

(* Mutant of timer_tick: the timer is never set.                            *)
NoTimer(w) == server = "none" /\ wake(w)

timer_tick(w) == server = "http" /\ wake(w)
traffic(w) == wake(w)

(* Affinity, ring, address or socket cannot be had, or the worker dies.     *)
worker_fails(w) ==
  /\ Failures /\ pc[w] \in Starting \cup Serving
  /\ Goto(w, "exited")
  /\ UNCHANGED <<server, forked, joined, eventfd, active, shutdown_requested,
                 signalled, pending>>

----------------------------------------------------------------------------
(* Signals                                                                  *)

kill(p) ==
  /\ pc[p] \notin Ended \cup {"none"} /\ p \notin signalled
  /\ signalled' = signalled \cup {p} /\ pending' = pending \cup {p}
  /\ UNCHANGED <<server, pc, forked, joined, eventfd, active, shutdown_requested>>

Logging(p) == pc[p] \in {"log_running", "log_started", "log_exit", "log_start"}

(* signals.c: the flag is set and the handler logs.  SA_RESTART: a blocked  *)
(* eventfd_read or wait goes on.                                            *)
signal_handler(p) ==
  /\ server = "http"
  /\ shutdown_requested' = [shutdown_requested EXCEPT ![p] = TRUE]
  /\ pc' = IF Logging(p) THEN [pc EXCEPT ![p] = "blocked"] ELSE pc
  /\ UNCHANGED active

(* libreactor-binary-server.c: the handler has no effect.                   *)
on_signal ==
  /\ server = "binary"
  /\ UNCHANGED <<pc, active, shutdown_requested>>

(* core.c, once the reactor is constructed: no SA_RESTART, a wait ends.     *)
reactor_signal(w) ==
  /\ active' = [active EXCEPT ![w] = FALSE]
  /\ pc' = IF pc[w] = "waiting" THEN [pc EXCEPT ![w] = "loop"] ELSE pc
  /\ UNCHANGED shutdown_requested

Constructed(p) == p \in Workers /\ pc[p] \in {"listen"} \cup Serving

deliver(p) ==
  /\ p \in pending /\ pc[p] \notin Ended
  /\ pending' = pending \ {p}
  /\ \/ Constructed(p) /\ reactor_signal(p)
     \/ ~Constructed(p) /\ (signal_handler(p) \/ on_signal)
  /\ UNCHANGED <<server, forked, joined, eventfd, signalled>>

----------------------------------------------------------------------------
ParentStep ==
  \/ fork \/ fork_fails \/ forked_all \/ eventfd_read \/ check_shutdown \/ wait
  \/ logged(Parent)
WorkerStep(w) ==
  \/ set_affinity(w) \/ logged(w) \/ reactor_construct(w) \/ worker_ready(w)
  \/ reactor_loop(w)

Next ==
  \/ ParentStep
  \/ \E w \in Workers :
       WorkerStep(w) \/ timer_tick(w) \/ traffic(w) \/ worker_fails(w)
  \/ \E p \in Processes : kill(p) \/ deliver(p)

Spec == Init /\ [][Next]_vars

(* Processes run, the timer ticks, signals are delivered.  Nothing has to   *)
(* fail, no client has to come.                                             *)
Fairness ==
  /\ WF_vars(ParentStep)
  /\ \A w \in Workers : WF_vars(WorkerStep(w)) /\ WF_vars(timer_tick(w))
  /\ \A p \in Processes : WF_vars(deliver(p))
FairSpec == Spec /\ Fairness

----------------------------------------------------------------------------
(* Properties                                                               *)

PlacesOK ==
  /\ pc \in [Processes -> {"none"} \cup ParentPlaces \cup Starting \cup Serving \cup Ended]
  /\ pc[Parent] \in ParentPlaces \cup Ended
  /\ \A w \in Workers : pc[w] \in {"none"} \cup Starting \cup Serving \cup Ended

TypeOK ==
  /\ server \in Servers
  /\ PlacesOK
  /\ forked \in 0 .. N /\ joined \in 0 .. forked
  /\ eventfd \in [Workers -> 0 .. 1]
  /\ active \in [Workers -> BOOLEAN]
  /\ shutdown_requested \in [Processes -> BOOLEAN]
  /\ pending \subseteq signalled /\ signalled \subseteq Processes

(* The HTTP workers start one at a time, and the parent supervises only     *)
(* once all of them listen: the workers before the last one forked, and the *)
(* last one too when the parent no longer waits for it, have come through   *)
(* their start-up, whatever signals arrive and whichever workers die.       *)
StartedInTurn ==
  server = "http" =>
    \A w \in Workers :
      w < forked \/ (w = forked /\ pc[Parent] # "eventfd_read")
        => pc[w] \in Serving \cup {"exited"}

(* The parent of the binary server ends only after every worker it forked;  *)
(* it never waits for a worker that was not forked.                         *)
BinaryJoinsAll ==
  server = "binary" /\ pc[Parent] = "exited" =>
    \A w \in Workers : pc[w] \in {"none", "exited"}

(* What StartedInTurn and BinaryJoinsAll need to be inductive: a worker that*)
(* was not forked has not run, one that has written its eventfd has come    *)
(* through its start-up, the parent reads the eventfd of a worker it forked,*)
(* and the workers counted as joined have exited.                           *)
UnforkedIdle == \A w \in Workers : w > forked => pc[w] = "none"
ReadyHasStarted ==
  \A w \in Workers : eventfd[w] # 0 => pc[w] \in Serving \cup {"exited"}
ReadsOfForked == pc[Parent] = "eventfd_read" => server = "http" /\ forked > 0
JoinedHaveExited ==
  /\ \A w \in Workers : w <= joined => pc[w] = "exited"
  /\ server = "binary" => pc[Parent] \in {"fork", "wait", "exited"}
  /\ server = "binary" /\ pc[Parent] = "exited" => joined = forked
SupervisorInv ==
  /\ TypeOK /\ StartedInTurn /\ UnforkedIdle /\ ReadyHasStarted
  /\ ReadsOfForked /\ JoinedHaveExited

(* Start-up is no deadlock: the parent waits for the worker and the worker  *)
(* for nobody, so that the parent gets on unless the worker dies before it  *)
(* is ready (or blocks in its own handler).                                 *)
ParentReleased ==
  \A w \in Workers :
    (pc[Parent] = "eventfd_read" /\ forked = w)
      ~> (pc[Parent] # "eventfd_read" \/ pc[w] \in Ended)

(* A signal that reaches the event loop of an HTTP worker ends the worker,  *)
(* also when it arrives between the test of active and the wait: the timer  *)
(* makes the loop look again.                                               *)
HttpWorkerStops ==
  \A w \in Workers :
    (server = "http" /\ Constructed(w) /\ ~active[w]) ~> pc[w] = "exited"

(* The parent of the HTTP server notices the death of whichever worker and  *)
(* comes to its end, also when a signal reaches it meanwhile; it may block  *)
(* only in the handler of a signal that interrupts its last log call.  The  *)
(* code waits for any one worker; process.h:91 says "Wait for all workers". *)
ParentFollows ==
  \A w \in Workers :
    (server = "http" /\ pc[Parent] = "wait" /\ pc[w] = "exited")
      ~> (pc[Parent] = "exited" \/ (pc[Parent] = "blocked" /\ Parent \in signalled))

(* "io_uring_enter returns EINTR on signal delivery and the loop re-checks  *)
(* active. No self-pipe needed.": a signal ends the event loop of a worker, *)
(* of either server.                                                        *)
SignalEndsLoop ==
  \A w \in Workers : (Constructed(w) /\ ~active[w]) ~> pc[w] = "exited"

(* "Wait for workers to exit or shutdown signal": the parent ends once      *)
(* shutdown is requested.                                                   *)
ShutdownEndsParent ==
  (server = "http" /\ pc[Parent] \in {"check", "wait"} /\ shutdown_requested[Parent])
    ~> pc[Parent] = "exited"
=============================================================================
