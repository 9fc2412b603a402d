--------------------------- MODULE Infrastructure ---------------------------
(****************************************************************************)
(* What one process of the HTTP server owns from the start of main to its   *)
(* return: memory, eventfds, the reactor and the server of a worker, signal *)
(* dispositions and the global signal manager, through every step that may  *)
(* fail.  fork() returns in two processes; the model goes on with either.   *)
(*                                                                          *)
(*   src/main/libreactor-server.c, infrastructure/server_infrastructure.c,  *)
(*   platform/process.c, platform/signals.c, platform/system.c              *)
(*                                                                          *)
(* How the processes act on each other, and the log mutex a handler may     *)
(* meet, is Supervisor.                                                     *)
(****************************************************************************)
EXTENDS Integers, Sequences

CONSTANTS
  NCpus,       \* processors sched_getaffinity finds
  MaxSignals   \* signals that arrive at most

ASSUME InfrastructureAssumption == NCpus \in Nat \ {0} /\ MaxSignals \in Nat

VARIABLES
  pc,          \* where the process is
  k,           \* index of the signal being set up or restored
  manager,     \* worker_manager_t
  heap,        \* "unused", "live" or "freed", for each block or resource
  efds,        \* eventfds open in this process
  stdin,       \* whether descriptor 0 was open at the start
  disposition, \* of each signal
  global,      \* whether global_signal_manager is set
  shutdown,    \* shutdown_requested
  active,      \* reactor_core.active
  told,        \* whether this worker wrote its eventfd
  failed,      \* the steps that failed
  fault,       \* what the program did that it must not
  signals,     \* signals that have arrived
  unheard      \* where a signal was "swallowed" or "killed" the process

vars == <<pc, k, manager, heap, efds, stdin, disposition, global, shutdown,
          active, told, failed, fault, signals, unheard>>

(* signal_manager_default_config.                                           *)
Handled == <<"SIGTERM", "SIGINT", "SIGPIPE">>
Signals == {Handled[i] : i \in DOMAIN Handled}

Ids == 0 .. NCpus - 1
(* The pool of slots and the ring; the timer and the listening socket of    *)
(* the open server.                                                         *)
Reactor == {"slots", "ring"}
Blocks == {"config", "cpu_ids", "workers", "server"} \cup Reactor
NoManager ==
  [worker_count |-> 0, cpu_ids |-> FALSE, workers |-> FALSE,
   eventfd |-> [i \in Ids |-> 0], type |-> "PARENT", current |-> 0]

Init ==
  /\ pc = "init" /\ k = 1
  /\ manager = NoManager
  /\ heap = [b \in Blocks |-> "unused"]
  /\ efds = {} /\ stdin \in BOOLEAN
  /\ disposition = [s \in Signals |-> "default"]
  /\ global = FALSE /\ shutdown = FALSE /\ active = FALSE /\ told = FALSE
  /\ failed = {} /\ fault = {} /\ signals = 0 /\ unheard = {}

Fails(step) == failed' = failed \cup {step}

----------------------------------------------------------------------------
(* Memory and descriptors                                                   *)

malloc(h, b) == [h EXCEPT ![b] = "live"]
free(h, blocks) == [b \in Blocks |-> IF b \in blocks THEN "freed" ELSE h[b]]
BadFree(h, blocks) == IF \E b \in blocks : h[b] # "live" THEN {"free"} ELSE {}

(* The lowest number that is free: 0 when standard input was closed.        *)
NextFd == IF ~stdin /\ 0 \notin efds THEN 0 ELSE 3

worker_manager_cleanup ==
  LET held == (IF manager.cpu_ids THEN {"cpu_ids"} ELSE {})
              \cup (IF manager.workers THEN {"workers"} ELSE {})
      shut == IF manager.workers
              THEN {manager.eventfd[i] : i \in 0 .. manager.worker_count - 1} \ {0, -1}
              ELSE {}
  IN /\ heap' = free(heap, held)
     /\ fault' = fault \cup BadFree(heap, held)
                       \cup (IF shut \subseteq efds THEN {} ELSE {"close"})
     /\ efds' = efds \ shut
     /\ manager' = NoManager

----------------------------------------------------------------------------
(* server_infrastructure_init, default_config and create                    *)

system_init ==
  /\ pc = "init" /\ pc' = "config"
  /\ disposition' = [disposition EXCEPT !["SIGPIPE"] = "ignored"]
  /\ UNCHANGED <<k, manager, heap, efds, stdin, global, shutdown, active, told,
                 failed, fault, signals, unheard>>

(* Without the processors the configuration names one worker and no array.  *)
system_get_cpu_info ==
  /\ pc = "config" /\ pc' = "create"
  /\ \/ heap' = malloc(heap, "config") /\ UNCHANGED failed
     \/ Fails("cpu_info") /\ UNCHANGED heap
  /\ UNCHANGED <<k, manager, efds, stdin, disposition, global, shutdown, active,
                 told, fault, signals, unheard>>

(* Mutant of worker_manager_init: the array is not copied.                  *)
KeepsConfigArray ==
  \/ heap["config"] = "unused" /\ UNCHANGED <<manager, failed>> /\ heap' = heap
  \/ /\ heap["config"] = "live"
     /\ manager' = [NoManager EXCEPT !.worker_count = NCpus, !.cpu_ids = TRUE, !.workers = TRUE]
     /\ heap' = [heap EXCEPT !["workers"] = "live", !["cpu_ids"] = "freed", !["config"] = "freed"]
     /\ UNCHANGED failed

(* worker_manager_init, whose result nobody looks at, and the release of the*)
(* configuration's array.  Out of memory it leaves what it has set: the     *)
(* number of workers, and the pointer to the array it has freed again.      *)
worker_manager_init ==
  LET counted == [NoManager EXCEPT !.worker_count = NCpus]
      copied == malloc(free(heap, {"config"}), "cpu_ids")
  IN \/ /\ heap["config"] = "unused"
        /\ UNCHANGED <<manager, heap, failed>>
     \/ /\ heap["config"] = "live"
        /\ manager' = counted /\ heap' = free(heap, {"config"}) /\ Fails("malloc")
     \/ /\ heap["config"] = "live"
        /\ manager' = [counted EXCEPT !.cpu_ids = TRUE]
        /\ heap' = free(copied, {"cpu_ids"}) /\ Fails("malloc")
     \/ /\ heap["config"] = "live"
        /\ manager' = [counted EXCEPT !.cpu_ids = TRUE, !.workers = TRUE]
        /\ heap' = malloc(copied, "workers") /\ UNCHANGED failed

(* Mutant of server_infrastructure_create: the global manager is not set.   *)
GlobalUnset ==
  /\ pc = "create" /\ pc' = "install" /\ k' = 1
  /\ worker_manager_init
  /\ UNCHANGED <<efds, stdin, disposition, global, shutdown, active, told, fault,
                 signals, unheard>>

(* Up to the point where signal_manager_init installs the first handler.    *)
server_infrastructure_create ==
  /\ pc = "create" /\ pc' = "install" /\ k' = 1
  /\ worker_manager_init
  /\ global' = TRUE
  /\ UNCHANGED <<efds, stdin, disposition, shutdown, active, told, fault, signals,
                 unheard>>

(* Mutant of signal_manager_init: one signal too many.                      *)
InstallOneMore ==
  /\ pc = "install"
  /\ disposition' = [disposition EXCEPT ![Handled[k]] = "handler"]
  /\ IF k <= Len(Handled) THEN k' = k + 1 /\ UNCHANGED pc ELSE pc' = "fork" /\ k' = 1
  /\ UNCHANGED <<manager, heap, efds, stdin, global, shutdown, active, told, failed,
                 fault, signals, unheard>>

signal_manager_init ==
  /\ pc = "install"
  /\ disposition' = [disposition EXCEPT ![Handled[k]] = "handler"]
  /\ IF k < Len(Handled) THEN k' = k + 1 /\ UNCHANGED pc ELSE pc' = "fork" /\ k' = 1
  /\ UNCHANGED <<manager, heap, efds, stdin, global, shutdown, active, told, failed,
                 fault, signals, unheard>>

(* main returns; handlers installed so far and the global stay.             *)
signal_manager_init_fails ==
  /\ pc = "install" /\ pc' = "exited" /\ Fails("sigaction")
  /\ worker_manager_cleanup
  /\ UNCHANGED <<k, stdin, disposition, global, shutdown, active, told, signals, unheard>>

----------------------------------------------------------------------------
(* worker_manager_fork_workers                                              *)

Destroy == pc' = "destroy"
Crash == pc' = "crashed"

(* Workers are forked one at a time; current counts them in the parent.     *)
forked_all ==
  /\ pc = "fork" /\ manager.type = "PARENT" /\ manager.current = manager.worker_count
  /\ pc' = "supervise"
  /\ UNCHANGED <<k, manager, heap, efds, stdin, disposition, global, shutdown, active,
                 told, failed, fault, signals, unheard>>

Forking == pc = "fork" /\ manager.current < manager.worker_count

(* Mutant of fork_fails: the parent makes do with the workers it has.       *)
ForkBreaks ==
  /\ Forking
  /\ pc' = "supervise" /\ Fails("fork")
  /\ UNCHANGED <<k, manager, heap, efds, stdin, disposition, global, shutdown, active,
                 told, fault, signals, unheard>>

(* eventfd() or fork() fails; the eventfd is closed again.                  *)
fork_fails ==
  /\ Forking
  /\ Destroy /\ Fails("fork")
  /\ UNCHANGED <<k, manager, heap, efds, stdin, disposition, global, shutdown, active,
                 told, fault, signals, unheard>>

(* The contexts exist only when worker_manager_init got its memory.         *)
fork_parent ==
  /\ Forking
  /\ IF manager.workers
     THEN /\ manager' = [manager EXCEPT !.eventfd[manager.current] = NextFd]
          /\ pc' = "read" /\ UNCHANGED fault
     ELSE Crash /\ fault' = fault \cup {"pointer"} /\ UNCHANGED manager
  /\ efds' = efds \cup {NextFd}
  /\ UNCHANGED <<k, heap, stdin, disposition, global, shutdown, active, told, failed,
                 signals, unheard>>

eventfd_read ==
  /\ pc = "read" /\ pc' = "fork"
  /\ efds' = efds \ {manager.eventfd[manager.current]}
  /\ manager' = [manager EXCEPT !.eventfd[manager.current] = -1, !.current = @ + 1]
  /\ UNCHANGED <<k, heap, stdin, disposition, global, shutdown, active, told, failed,
                 fault, signals, unheard>>

(* Closed, but not marked as closed: the cleanup closes the number again.   *)
eventfd_read_fails ==
  /\ pc = "read" /\ Destroy /\ Fails("eventfd_read")
  /\ efds' = efds \ {manager.eventfd[manager.current]}
  /\ UNCHANGED <<k, manager, heap, stdin, disposition, global, shutdown, active, told,
                 fault, signals, unheard>>

(* Without contexts the child goes by a processor read from no array or a   *)
(* freed one, which may be refused, and dies when it stores its eventfd.    *)
fork_child ==
  /\ Forking
  /\ manager' = [manager EXCEPT !.type = "WORKER"]
  /\ \/ /\ manager.workers
        /\ pc' = "affinity" /\ efds' = efds \cup {NextFd}
        /\ UNCHANGED <<failed, fault>>
     \/ /\ ~manager.workers /\ fault' = fault \cup {"pointer"}
        /\ \/ Crash /\ efds' = efds \cup {NextFd} /\ UNCHANGED failed
           \/ manager.cpu_ids /\ Destroy /\ Fails("affinity") /\ UNCHANGED efds
  /\ UNCHANGED <<k, heap, stdin, disposition, global, shutdown, active, told, signals,
                 unheard>>

affinity_fails ==
  /\ pc = "affinity" /\ Destroy /\ Fails("affinity")
  /\ efds' = {}
  /\ UNCHANGED <<k, manager, heap, stdin, disposition, global, shutdown, active, told,
                 fault, signals, unheard>>

(* Mutant of enter_worker: the eventfd is not remembered.                   *)
EventfdForgotten ==
  /\ pc = "affinity" /\ pc' = "construct"
  /\ UNCHANGED <<k, manager, heap, efds, stdin, disposition, global, shutdown, active,
                 told, failed, fault, signals, unheard>>

(* The one eventfd that is open: those of earlier workers were closed       *)
(* before fork.                                                             *)
enter_worker ==
  /\ pc = "affinity" /\ pc' = "construct"
  /\ \E efd \in efds : manager' = [manager EXCEPT !.eventfd[manager.current] = efd]
  /\ UNCHANGED <<k, heap, efds, stdin, disposition, global, shutdown, active, told,
                 failed, fault, signals, unheard>>

----------------------------------------------------------------------------
(* The rest of server_infrastructure_start                                  *)

reactor_construct ==
  /\ pc = "construct" /\ pc' = "listen"
  /\ active' = TRUE
  /\ heap' = malloc(malloc(heap, "slots"), "ring")
  /\ disposition' = [disposition EXCEPT !["SIGTERM"] = "reactor", !["SIGINT"] = "reactor",
                                        !["SIGPIPE"] = "ignored"]
  /\ UNCHANGED <<k, manager, efds, stdin, global, shutdown, told, failed, fault,
                 signals, unheard>>

(* abort(), when there is no memory or no ring to be had.                   *)
reactor_construct_aborts ==
  /\ pc = "construct" /\ Crash /\ Fails("reactor")
  /\ UNCHANGED <<k, manager, heap, efds, stdin, disposition, global, shutdown, active,
                 told, fault, signals, unheard>>

(* server_infrastructure_start returns, and what the reactor holds stays.   *)
listen_fails ==
  /\ pc = "listen" /\ Destroy /\ Fails("listen")
  /\ UNCHANGED <<k, manager, heap, efds, stdin, disposition, global, shutdown, active,
                 told, fault, signals, unheard>>

server_open ==
  /\ pc = "listen" /\ pc' = "ready"
  /\ heap' = malloc(heap, "server")
  /\ UNCHANGED <<k, manager, efds, stdin, disposition, global, shutdown, active, told,
                 failed, fault, signals, unheard>>

(* worker_manager_signal_ready, whose result nobody looks at: when          *)
(* eventfd_write fails the worker serves all the same, the eventfd open.    *)
worker_manager_signal_ready ==
  /\ pc = "ready" /\ pc' = "loop"
  /\ LET efd == manager.eventfd[manager.current] IN
       \/ /\ efd <= 0 /\ UNCHANGED <<told, efds, manager, failed>>
       \/ /\ efd > 0 /\ Fails("eventfd_write") /\ UNCHANGED <<told, efds, manager>>
       \/ /\ efd > 0 /\ told' = TRUE /\ efds' = efds \ {efd} /\ UNCHANGED failed
          /\ manager' = [manager EXCEPT !.eventfd[manager.current] = -1]
  /\ UNCHANGED <<k, heap, stdin, disposition, global, shutdown, active, fault, signals,
                 unheard>>

(* Mutant of reactor_loop: the reactor is not taken down.                   *)
LoopForgets ==
  /\ pc = "loop" /\ ~active /\ Destroy
  /\ heap' = free(heap, {"server"})
  /\ UNCHANGED <<k, manager, efds, stdin, disposition, global, shutdown, active, told,
                 failed, fault, signals, unheard>>

(* The loop ends, and server_destruct and reactor_destruct follow.          *)
reactor_loop ==
  /\ pc = "loop" /\ ~active /\ Destroy
  /\ LET held == {"server"} \cup Reactor IN
       heap' = free(heap, held) /\ fault' = fault \cup BadFree(heap, held)
  /\ UNCHANGED <<k, manager, efds, stdin, disposition, global, shutdown, active, told,
                 failed, signals, unheard>>

(* wait() returns a worker, if there is one to exit, or shutdown is         *)
(* requested; when the parent looks at the flag is Supervisor.              *)
supervise ==
  /\ pc = "supervise" /\ (shutdown \/ manager.current > 0) /\ Destroy
  /\ UNCHANGED <<k, manager, heap, efds, stdin, disposition, global, shutdown, active,
                 told, failed, fault, signals, unheard>>

----------------------------------------------------------------------------
(* server_infrastructure_destroy                                            *)

signal_manager_cleanup ==
  /\ pc = "destroy" /\ pc' = "restore" /\ k' = 1
  /\ global' = FALSE
  /\ UNCHANGED <<manager, heap, efds, stdin, disposition, shutdown, active, told,
                 failed, fault, signals, unheard>>

restore_handler ==
  /\ pc = "restore"
  /\ disposition' = [disposition EXCEPT ![Handled[k]] = "default"]
  /\ IF k < Len(Handled) THEN k' = k + 1 /\ UNCHANGED pc ELSE pc' = "cleanup" /\ k' = 1
  /\ UNCHANGED <<manager, heap, efds, stdin, global, shutdown, active, told, failed,
                 fault, signals, unheard>>

(* The manager is zeroed with the rest, and main returns.                   *)
server_infrastructure_destroy ==
  /\ pc = "cleanup" /\ pc' = "exited"
  /\ worker_manager_cleanup
  /\ shutdown' = FALSE
  /\ UNCHANGED <<k, stdin, disposition, global, active, told, failed, signals, unheard>>

----------------------------------------------------------------------------
(* Signals                                                                  *)

Over == {"exited", "killed", "crashed"}

Kill ==
  /\ pc' = "killed" /\ unheard' = unheard \cup {<<"killed", pc>>}
  /\ UNCHANGED <<shutdown, active>>

(* signal_handler of signals.c does nothing without a manager, and nothing  *)
(* for SIGPIPE.                                                             *)
signal_handler(s) ==
  /\ shutdown' = (shutdown \/ (global /\ s # "SIGPIPE"))
  /\ unheard' = IF global \/ s = "SIGPIPE" THEN unheard ELSE unheard \cup {<<"swallowed", pc>>}
  /\ UNCHANGED <<pc, active>>

reactor_signal ==
  /\ active' = FALSE
  /\ UNCHANGED <<pc, shutdown, unheard>>

signal(s) ==
  /\ pc \notin Over /\ signals < MaxSignals
  /\ signals' = signals + 1
  /\ \/ disposition[s] = "default" /\ Kill
     \/ disposition[s] = "ignored" /\ UNCHANGED <<pc, shutdown, active, unheard>>
     \/ disposition[s] = "handler" /\ signal_handler(s)
     \/ disposition[s] = "reactor" /\ reactor_signal
  /\ UNCHANGED <<k, manager, heap, efds, stdin, disposition, global, told, failed, fault>>

----------------------------------------------------------------------------
Step ==
  \/ system_init \/ system_get_cpu_info \/ server_infrastructure_create
  \/ signal_manager_init \/ signal_manager_init_fails
  \/ forked_all \/ fork_fails \/ fork_parent \/ eventfd_read \/ eventfd_read_fails
  \/ fork_child \/ affinity_fails \/ enter_worker
  \/ reactor_construct \/ reactor_construct_aborts \/ listen_fails \/ server_open
  \/ worker_manager_signal_ready \/ reactor_loop \/ supervise
  \/ signal_manager_cleanup \/ restore_handler \/ server_infrastructure_destroy

Next == Step \/ \E s \in Signals : signal(s)

Spec == Init /\ [][Next]_vars

----------------------------------------------------------------------------
(* Properties                                                               *)

Places ==
  {"init", "config", "create", "install", "fork", "read", "affinity", "construct",
   "listen", "ready", "loop", "supervise", "destroy", "restore", "cleanup"} \cup Over
Coming == {"init", "config", "create", "install"}
Going == {"destroy", "restore", "cleanup", "exited"}

TypeOK ==
  /\ pc \in Places /\ k \in 1 .. Len(Handled)
  /\ manager \in [worker_count : {0, NCpus}, cpu_ids : BOOLEAN, workers : BOOLEAN,
                  eventfd : [Ids -> {-1, 0, 3}], type : {"PARENT", "WORKER"},
                  current : 0 .. NCpus]
  /\ heap \in [Blocks -> {"unused", "live", "freed"}]
  /\ efds \subseteq {0, 3} /\ stdin \in BOOLEAN
  /\ disposition \in [Signals -> {"default", "ignored", "handler", "reactor"}]
  /\ global \in BOOLEAN /\ shutdown \in BOOLEAN /\ active \in BOOLEAN /\ told \in BOOLEAN
  /\ failed \subseteq {"cpu_info", "malloc", "sigaction", "fork", "eventfd_read",
                       "affinity", "reactor", "listen", "eventfd_write"}
  /\ fault \subseteq {"free", "close", "pointer"}
  /\ signals \in 0 .. MaxSignals /\ unheard \subseteq {"killed", "swallowed"} \X Places

(* Whichever step fails, and on either side of fork, no block is freed      *)
(* twice, none is used that is not there, and no descriptor is closed that  *)
(* is not open: except that worker_manager_init out of memory is not        *)
(* noticed, and that a failed eventfd_read leaves a number behind.          *)
NoFault ==
  /\ fault # {} => failed \cap {"malloc", "eventfd_read"} # {}
  /\ "close" \in fault => "eventfd_read" \in failed

(* When main returns, on whichever path, everything the process took is     *)
(* given back: memory, the server, eventfds (number 0 is taken for none),   *)
(* handlers.  What stays behind is the pool and the ring of the reactor,    *)
(* when the worker could not listen, and handlers and manager, when         *)
(* sigaction failed; nothing else, and on no other path.                    *)
EverythingReturned ==
  pc = "exited" =>
    /\ \A b \in Blocks : heap[b] = "live" => b \in Reactor /\ "listen" \in failed
    /\ 3 \notin efds
    /\ "sigaction" \notin failed => ~global /\ \A s \in Signals : disposition[s] = "default"

(* A signal is never swallowed by a handler that finds no manager, and never*)
(* kills, from the moment the handlers are installed until the process      *)
(* comes to its end; while they are being installed it may kill, but is not *)
(* swallowed either.                                                        *)
SignalsHeard ==
  \A u \in unheard : u[2] \in Going \/ (u[1] = "killed" /\ u[2] \in Coming)

(* The parent supervises only once it has forked every worker; with none at *)
(* all only when the processors could not be found.                         *)
SupervisesAll ==
  pc = "supervise" =>
    /\ manager.current = manager.worker_count
    /\ manager.current = 0 => "cpu_info" \in failed

(* A worker that serves has told its parent, which waits for it, unless its *)
(* eventfd got number 0 or could not be written.                            *)
ServesAndTold == pc = "loop" => told \/ ~stdin \/ "eventfd_write" \in failed
=============================================================================
