------------------------ MODULE InfrastructureProofs ------------------------
(****************************************************************************)
(* What a process of the HTTP server owns, for any number of processors and *)
(* of signals: the properties of Infrastructure are invariants.             *)
(****************************************************************************)
EXTENDS Infrastructure, TLAPS

Starting == {"init", "config", "create"}
Ending == {"destroy", "restore", "cleanup"}
Owning ==
  {"install", "fork", "read", "affinity", "construct", "listen", "ready", "loop",
   "supervise"} \cup Ending

(* The worker whose eventfd this process handles is one of the workers.     *)
CurrentCounted ==
  pc \in {"read", "affinity", "construct", "listen", "ready"} =>
    manager.current < manager.worker_count /\ manager.workers

(* Blocks are live exactly while the manager points at them; only a failed  *)
(* allocation leaves a pointer without its block, or workers without        *)
(* contexts.                                                                *)
MemoryOwned ==
  /\ pc \in Starting => manager = NoManager
  /\ pc \in {"init", "config"} => \A b \in Blocks : heap[b] = "unused"
  /\ pc = "create" => /\ heap["cpu_ids"] = "unused" /\ heap["workers"] = "unused"
                      /\ heap["config"] = "unused" => "cpu_info" \in failed
  /\ pc \in Owning =>
       /\ heap["config"] # "live"
       /\ heap["cpu_ids"] = "live" => manager.cpu_ids
       /\ heap["workers"] = "live" => manager.workers
       /\ "malloc" \in failed \/ (manager.cpu_ids => heap["cpu_ids"] = "live")
       /\ "malloc" \in failed \/ (manager.workers => heap["workers"] = "live")
       /\ "malloc" \in failed \/ (manager.worker_count # 0 => manager.workers)
       /\ manager.worker_count = 0 => "cpu_info" \in failed

(* The reactor is there while the worker runs it, the server while it is    *)
(* open; what a worker that cannot listen leaves is remembered.             *)
ReactorOwned ==
  /\ pc \in {"listen", "ready", "loop"} => heap["slots"] = "live" /\ heap["ring"] = "live"
  /\ pc \in {"ready", "loop"} => heap["server"] = "live"
  /\ pc \in (Starting \cup Owning) \ {"ready", "loop"} => heap["server"] # "live"
  /\ pc \in (Starting \cup Owning) \ {"listen", "ready", "loop"} /\ "listen" \notin failed =>
       heap["slots"] # "live" /\ heap["ring"] # "live"

(* One eventfd is open at most; it is that of the current worker, and its   *)
(* number stands in the manager, but for the moment after fork.             *)
EventfdsOwned ==
  /\ pc \in Starting \cup {"install", "fork", "supervise"} => efds = {}
  /\ pc = "read" => efds = {manager.eventfd[manager.current]}
  /\ pc = "affinity" => efds = {IF stdin THEN 3 ELSE 0}
  /\ pc \in {"construct", "listen", "ready"} /\ stdin => manager.eventfd[manager.current] = 3
  /\ pc \in Owning => \A i \in Ids : manager.eventfd[i] = 3 =>
       /\ i = manager.current /\ i < manager.worker_count /\ manager.workers
       /\ "eventfd_read" \in failed \/ 3 \in efds
       /\ pc \notin {"install", "fork", "affinity", "supervise"}
  /\ pc \in Owning \ {"affinity"} /\ 3 \in efds =>
       manager.current \in Ids /\ manager.eventfd[manager.current] = 3

(* Handlers are installed only behind the manager, and taken away in turn.  *)
HandlersSet ==
  /\ pc \in Starting => \A s \in Signals : disposition[s] # "handler"
  /\ pc \in Owning \ {"restore", "cleanup"} => global
  /\ pc = "install" => \A i \in 1 .. k - 1 : disposition[Handled[i]] = "handler"
  /\ pc \in Owning \ ({"install"} \cup Ending) => \A s \in Signals : disposition[s] # "default"
  /\ pc = "restore" => ~global /\ \A i \in 1 .. k - 1 : disposition[Handled[i]] = "default"
  /\ pc = "cleanup" => ~global /\ \A s \in Signals : disposition[s] = "default"

InfrastructureInv ==
  /\ TypeOK /\ CurrentCounted /\ MemoryOwned /\ ReactorOwned /\ EventfdsOwned
  /\ HandlersSet
  /\ NoFault /\ EverythingReturned /\ SignalsHeard /\ SupervisesAll /\ ServesAndTold

(* The three signals, by their places.                                      *)
LEMMA HandledAre ==
  /\ Len(Handled) = 3 /\ Signals = {"SIGTERM", "SIGINT", "SIGPIPE"}
  /\ Handled[1] = "SIGTERM" /\ Handled[2] = "SIGINT" /\ Handled[3] = "SIGPIPE"
  BY DEF Handled, Signals

(* The records the manager may be.                                          *)
Managers ==
  [worker_count : {0, NCpus}, cpu_ids : BOOLEAN, workers : BOOLEAN,
   eventfd : [Ids -> {-1, 0, 3}], type : {"PARENT", "WORKER"}, current : 0 .. NCpus]

(* The manager main starts with is one of them.                             *)
LEMMA NoManagerTyped == NoManager \in Managers
  BY InfrastructureAssumption DEF NoManager, Managers, Ids

(* Setting the eventfd or the number of a worker, or becoming one, keeps it *)
(* one.                                                                     *)
LEMMA ManagerUpdated ==
  ASSUME NEW m \in Managers, NEW i, NEW efd \in {-1, 0, 3}
  PROVE  /\ [m EXCEPT !.eventfd[i] = efd] \in Managers
         /\ [m EXCEPT !.type = "WORKER"] \in Managers
         /\ \A n \in 0 .. NCpus : [m EXCEPT !.eventfd[i] = efd, !.current = n] \in Managers
<1>1. [m.eventfd EXCEPT ![i] = efd] \in [Ids -> {-1, 0, 3}]
  BY DEF Managers
<1> QED
  BY <1>1 DEF Managers

(* Every step leaves a manager of the right type.                           *)
LEMMA ManagerKept ==
  ASSUME manager \in Managers, efds \subseteq {0, 3}, CurrentCounted, Step
  PROVE  manager' \in Managers
<1>1. manager.worker_count \in {0, NCpus} /\ manager.current \in 0 .. NCpus
  BY DEF Managers
<1>2. CASE worker_manager_init
  <2>1. /\ [NoManager EXCEPT !.worker_count = NCpus] \in Managers
        /\ [NoManager EXCEPT !.worker_count = NCpus, !.cpu_ids = TRUE] \in Managers
        /\ [NoManager EXCEPT !.worker_count = NCpus, !.cpu_ids = TRUE, !.workers = TRUE]
             \in Managers
    BY NoManagerTyped DEF Managers
  <2> QED
    BY <1>2, <2>1 DEF worker_manager_init
<1>3. CASE worker_manager_cleanup
  BY <1>3, NoManagerTyped DEF worker_manager_cleanup
<1>4. CASE fork_parent
  <2>1. NextFd \in {-1, 0, 3}
    BY DEF NextFd
  <2>2. [manager EXCEPT !.eventfd[manager.current] = NextFd] \in Managers
    BY <2>1, ManagerUpdated
  <2> QED
    BY <1>4, <2>2 DEF fork_parent
<1>5. CASE eventfd_read
  <2>1. manager.current + 1 \in 0 .. NCpus
    BY <1>1, <1>5, InfrastructureAssumption DEF eventfd_read, CurrentCounted
  <2>2. manager' = [manager EXCEPT !.eventfd[manager.current] = -1,
                                   !.current = manager.current + 1]
    BY <1>5 DEF eventfd_read
  <2> QED
    BY <2>1, <2>2, ManagerUpdated
<1>6. CASE enter_worker
  <2>1. PICK efd \in efds : manager' = [manager EXCEPT !.eventfd[manager.current] = efd]
    BY <1>6 DEF enter_worker
  <2>2. efd \in {-1, 0, 3}
    BY <2>1
  <2> QED
    BY <2>1, <2>2, ManagerUpdated
<1>7. CASE worker_manager_signal_ready
  <2>1. -1 \in {-1, 0, 3}
    OBVIOUS
  <2>2. \/ manager' = manager
        \/ manager' = [manager EXCEPT !.eventfd[manager.current] = -1]
    BY <1>7 DEF worker_manager_signal_ready
  <2>3. [manager EXCEPT !.eventfd[manager.current] = -1] \in Managers
    BY <2>1, ManagerUpdated
  <2> QED
    BY <2>2, <2>3
<1>8. CASE fork_child
  <2>1. [manager EXCEPT !.type = "WORKER"] \in Managers
    BY ManagerUpdated
  <2> QED
    BY <1>8, <2>1 DEF fork_child
<1>9. CASE UNCHANGED manager
  BY <1>9
<1> QED
  BY <1>2, <1>3, <1>4, <1>5, <1>6, <1>7, <1>8, <1>9 DEF Step, system_init,
     system_get_cpu_info, server_infrastructure_create, signal_manager_init,
     signal_manager_init_fails, forked_all, fork_fails, eventfd_read_fails,
     affinity_fails, reactor_construct, reactor_construct_aborts, listen_fails,
     server_open, reactor_loop, supervise, signal_manager_cleanup, restore_handler,
     server_infrastructure_destroy

(* Every step leaves blocks in one of their three states.                   *)
LEMMA HeapKept ==
  ASSUME heap \in [Blocks -> {"unused", "live", "freed"}], Step
  PROVE  heap' \in [Blocks -> {"unused", "live", "freed"}]
<1>1. CASE system_get_cpu_info
  BY <1>1 DEF system_get_cpu_info, malloc
<1>2. CASE worker_manager_init
  BY <1>2 DEF worker_manager_init, malloc, free
<1>3. CASE worker_manager_cleanup
  BY <1>3 DEF worker_manager_cleanup, free
<1>4. CASE reactor_construct \/ server_open \/ reactor_loop
  BY <1>4 DEF reactor_construct, server_open, reactor_loop, malloc, free
<1>5. CASE UNCHANGED heap
  BY <1>5
<1> QED
  BY <1>1, <1>2, <1>3, <1>4, <1>5 DEF Step, system_init,
     server_infrastructure_create, signal_manager_init,
     signal_manager_init_fails, forked_all, fork_fails, fork_parent,
     eventfd_read, eventfd_read_fails, fork_child, affinity_fails,
     enter_worker, reactor_construct_aborts, listen_fails,
     worker_manager_signal_ready, supervise, signal_manager_cleanup,
     restore_handler, server_infrastructure_destroy

(* TypeOK without the manager and the heap.                                 *)
RestTyped ==
  /\ pc \in Places /\ k \in 1 .. Len(Handled)
  /\ efds \subseteq {0, 3} /\ stdin \in BOOLEAN
  /\ disposition \in [Signals -> {"default", "ignored", "handler", "reactor"}]
  /\ global \in BOOLEAN /\ shutdown \in BOOLEAN /\ active \in BOOLEAN /\ told \in BOOLEAN
  /\ failed \subseteq {"cpu_info", "malloc", "sigaction", "fork", "eventfd_read",
                       "affinity", "reactor", "listen", "eventfd_write"}
  /\ fault \subseteq {"free", "close", "pointer"}
  /\ signals \in 0 .. MaxSignals /\ unheard \subseteq {"killed", "swallowed"} \X Places

(* Every step keeps the types of the other variables.                       *)
LEMMA RestTypedKept ==
  ASSUME RestTyped, manager \in Managers, Step PROVE RestTyped'
<1> USE InfrastructureAssumption, HandledAre DEF RestTyped, Over, Coming,
      Going, Places
<1>1. CASE system_init
  BY <1>1 DEF system_init
<1>2. CASE server_infrastructure_create
  <2>1. /\ failed' = failed \/ failed' = failed \cup {"malloc"}
        /\ pc' = "install" /\ k' = 1 /\ global' = TRUE
        /\ UNCHANGED <<efds, stdin, disposition, shutdown, active, told, fault, signals,
                       unheard>>
    BY <1>2 DEF server_infrastructure_create, worker_manager_init, Fails
  <2>2. failed' \subseteq {"cpu_info", "malloc", "sigaction", "fork", "eventfd_read",
                           "affinity", "reactor", "listen", "eventfd_write"}
    BY <2>1
  <2>3. pc' \in Places /\ k' \in 1 .. Len(Handled) /\ global' \in BOOLEAN
    BY <2>1
  <2> QED
    BY <2>1, <2>2, <2>3
<1>3. CASE signal_manager_init
  BY <1>3 DEF signal_manager_init
<1>4. CASE signal_manager_init_fails
  <2>1. efds' \subseteq efds /\ fault' \subseteq {"free", "close", "pointer"}
    BY <1>4 DEF signal_manager_init_fails, worker_manager_cleanup, BadFree
  <2> QED
    BY <1>4, <2>1 DEF signal_manager_init_fails, Fails
<1>5. CASE system_get_cpu_info
  BY <1>5 DEF system_get_cpu_info, Fails, malloc
<1>6. CASE fork_fails
  BY <1>6 DEF fork_fails, Forking, Destroy, Fails
<1>7. CASE fork_parent
  BY <1>7 DEF fork_parent, Forking, Crash, NextFd
<1>8. CASE eventfd_read
  BY <1>8 DEF eventfd_read
<1>9. CASE eventfd_read_fails
  BY <1>9 DEF eventfd_read_fails, Destroy, Fails
<1>10. CASE fork_child
  BY <1>10 DEF fork_child, Forking, Destroy, Crash, Fails, NextFd
<1>11. CASE affinity_fails
  BY <1>11 DEF affinity_fails, Destroy, Fails
<1>12. CASE enter_worker
  BY <1>12 DEF enter_worker
<1>13. CASE worker_manager_signal_ready
  BY <1>13 DEF worker_manager_signal_ready, Fails
<1>14. CASE listen_fails
  BY <1>14 DEF listen_fails, Destroy, Fails
<1>15. CASE reactor_construct
  BY <1>15 DEF reactor_construct
<1>16. CASE reactor_loop
  BY <1>16 DEF reactor_loop, Destroy, BadFree
<1>17. CASE supervise
  BY <1>17 DEF supervise, Destroy
<1>18. CASE signal_manager_cleanup
  <2>1. pc' = "restore" /\ k' = 1 /\ global' = FALSE
        /\ UNCHANGED <<efds, stdin, disposition, shutdown, active, told, failed, fault,
                       signals, unheard>>
    BY <1>18 DEF signal_manager_cleanup
  <2>2. k' \in 1 .. Len(Handled)
    BY <2>1
  <2>3. pc' \in Places
    BY <2>1
  <2> QED
    BY <2>1, <2>2, <2>3
<1>19. CASE restore_handler
  BY <1>19 DEF restore_handler
<1>20. CASE server_infrastructure_destroy
  <2>1. efds' \subseteq efds /\ fault' \subseteq {"free", "close", "pointer"}
    BY <1>20 DEF server_infrastructure_destroy, worker_manager_cleanup, BadFree
  <2> QED
    BY <1>20, <2>1 DEF server_infrastructure_destroy
<1>21. CASE forked_all
  BY <1>21 DEF forked_all
<1>22. CASE reactor_construct_aborts \/ server_open
  BY <1>22 DEF reactor_construct_aborts, server_open, Crash, Fails
<1> QED
  BY <1>1, <1>2, <1>3, <1>4, <1>5, <1>6, <1>7, <1>8, <1>9, <1>10,
     <1>11, <1>12, <1>13, <1>14, <1>15, <1>16, <1>17, <1>18, <1>19, <1>20,
     <1>21, <1>22 DEF Step

(* Together: every step keeps TypeOK.                                       *)
LEMMA TypeKept ==
  ASSUME TypeOK, CurrentCounted, Step PROVE TypeOK'
<1>1. manager \in Managers /\ RestTyped /\ heap \in [Blocks -> {"unused", "live", "freed"}]
  BY DEF TypeOK, RestTyped, Managers
<1>2. manager' \in Managers /\ RestTyped' /\ heap' \in [Blocks -> {"unused", "live", "freed"}]
  BY <1>1, ManagerKept, HeapKept, RestTypedKept DEF RestTyped
<1> QED
  BY <1>2 DEF TypeOK, RestTyped, Managers

(* What worker_manager_init leaves, with its memory or without.             *)
LEMMA CreatedOwned ==
  ASSUME heap \in [Blocks -> {"unused", "live", "freed"}], worker_manager_init,
         heap["cpu_ids"] = "unused", heap["workers"] = "unused", manager = NoManager,
         heap["config"] = "unused" => "cpu_info" \in failed
  PROVE  /\ heap'["config"] # "live"
         /\ heap'["cpu_ids"] = "live" => manager'.cpu_ids
         /\ heap'["workers"] = "live" => manager'.workers
         /\ "malloc" \in failed' \/ (manager'.cpu_ids => heap'["cpu_ids"] = "live")
         /\ "malloc" \in failed' \/ (manager'.workers => heap'["workers"] = "live")
         /\ "malloc" \in failed' \/ (manager'.worker_count # 0 => manager'.workers)
         /\ manager'.worker_count = 0 => "cpu_info" \in failed'
<1>1. Blocks = {"config", "cpu_ids", "workers", "server", "slots", "ring"}
  BY DEF Blocks, Reactor
<1>2. NoManager.worker_count = 0 /\ ~NoManager.cpu_ids /\ ~NoManager.workers
  BY DEF NoManager
<1>3. NoManager \in Managers
  BY NoManagerTyped
<1>4. CASE heap["config"] = "unused" /\ UNCHANGED <<manager, heap, failed>>
  BY <1>2, <1>4
<1>5. CASE heap["config"] = "live"
  <2>1. CASE manager' = [NoManager EXCEPT !.worker_count = NCpus]
             /\ heap' = free(heap, {"config"}) /\ Fails("malloc")
    BY <1>1, <1>2, <1>3, <2>1, InfrastructureAssumption DEF free, Fails, Managers
  <2>2. CASE /\ manager' = [[NoManager EXCEPT !.worker_count = NCpus] EXCEPT !.cpu_ids = TRUE]
             /\ heap' = free(malloc(free(heap, {"config"}), "cpu_ids"), {"cpu_ids"})
             /\ Fails("malloc")
    BY <1>1, <1>2, <1>3, <2>2, InfrastructureAssumption DEF malloc, free, Fails, Managers
  <2>3. CASE /\ manager' = [[NoManager EXCEPT !.worker_count = NCpus]
                             EXCEPT !.cpu_ids = TRUE, !.workers = TRUE]
             /\ heap' = malloc(malloc(free(heap, {"config"}), "cpu_ids"), "workers")
    <3>1. manager'.cpu_ids /\ manager'.workers /\ manager'.worker_count = NCpus
      BY <1>3, <2>3 DEF Managers
    <3>2. heap'["config"] = "freed" /\ heap'["cpu_ids"] = "live" /\ heap'["workers"] = "live"
      BY <1>1, <2>3 DEF malloc, free
    <3> QED
      BY <3>1, <3>2, InfrastructureAssumption
  <2> QED
    BY <1>5, <2>1, <2>2, <2>3 DEF worker_manager_init
<1> QED
  BY <1>4, <1>5 DEF worker_manager_init

(* A block comes with the pointer to it and goes with the manager that held *)
(* it; out of memory leaves less than the manager says, and is remembered.  *)
LEMMA MemoryKept ==
  ASSUME InfrastructureInv, Step PROVE MemoryOwned'
<1> USE InfrastructureAssumption DEF InfrastructureInv, TypeOK, CurrentCounted,
      MemoryOwned, Starting, Ending, Owning, NoManager, Ids, Blocks, Reactor
<1>1. CASE system_get_cpu_info
  BY <1>1 DEF system_get_cpu_info, Fails, malloc
<1>2. CASE server_infrastructure_create
  <2>1. heap \in [Blocks -> {"unused", "live", "freed"}]
    OBVIOUS
  <2>2. pc' = "install" /\ pc = "create"
    BY <1>2 DEF server_infrastructure_create
  <2>3. worker_manager_init
    BY <1>2 DEF server_infrastructure_create
  <2>4. heap["cpu_ids"] = "unused" /\ heap["workers"] = "unused" /\ manager = NoManager
    BY <2>2
  <2>5. heap["config"] = "unused" => "cpu_info" \in failed
    BY <2>2
  <2> QED
    BY <2>1, <2>2, <2>3, <2>4, <2>5, CreatedOwned
<1>3. CASE signal_manager_init_fails
  <2>1. pc' = "exited"
    BY <1>3 DEF signal_manager_init_fails
  <2> QED
    BY <2>1
<1>4. CASE fork_parent
  <2>1. /\ pc = "fork" /\ pc' \in {"read", "crashed"} /\ UNCHANGED <<heap, failed>>
    BY <1>4 DEF fork_parent, Forking, Crash
  <2>2. \/ manager' = manager
        \/ manager' = [manager EXCEPT !.eventfd[manager.current] = NextFd]
    BY <1>4 DEF fork_parent
  <2>3. /\ manager'.cpu_ids = manager.cpu_ids /\ manager'.workers = manager.workers
        /\ manager'.worker_count = manager.worker_count
    BY <2>2
  <2> QED
    BY <2>1, <2>3
<1>5. CASE eventfd_read
  BY <1>5 DEF eventfd_read
<1>6. CASE fork_child
  BY <1>6 DEF fork_child, Forking, Destroy, Crash, Fails, NextFd
<1>7. CASE enter_worker
  BY <1>7 DEF enter_worker
<1>8. CASE worker_manager_signal_ready
  <2>1. /\ pc = "ready" /\ pc' = "loop" /\ UNCHANGED heap
        /\ failed' = failed \/ failed' = failed \cup {"eventfd_write"}
    BY <1>8 DEF worker_manager_signal_ready, Fails
  <2>2. \/ manager' = manager
        \/ manager' = [manager EXCEPT !.eventfd[manager.current] = -1]
    BY <1>8 DEF worker_manager_signal_ready
  <2>3. /\ manager'.cpu_ids = manager.cpu_ids /\ manager'.workers = manager.workers
        /\ manager'.worker_count = manager.worker_count
    BY <2>2
  <2> QED
    BY <2>1, <2>3
<1>9. CASE server_infrastructure_destroy
  <2>1. pc' = "exited"
    BY <1>9 DEF server_infrastructure_destroy
  <2> QED
    BY <2>1
<1>10. CASE system_init \/ signal_manager_init \/ forked_all \/ fork_fails
         \/ eventfd_read_fails \/ affinity_fails \/ reactor_construct_aborts
         \/ listen_fails \/ supervise \/ signal_manager_cleanup
         \/ restore_handler
  BY <1>10 DEF system_init, signal_manager_init, forked_all, fork_fails,
      Forking, Destroy, Crash, Fails, eventfd_read_fails, affinity_fails,
      reactor_construct_aborts, listen_fails, supervise,
      signal_manager_cleanup, restore_handler
<1>11. CASE reactor_construct \/ server_open \/ reactor_loop
  <2> DEFINE same == \A b \in {"config", "cpu_ids", "workers"} : heap'[b] = heap[b]
  <2>1. CASE reactor_construct
    <3>1. same
      BY <2>1 DEF reactor_construct, malloc
    <3> QED
      BY <3>1, <2>1 DEF reactor_construct
  <2>2. CASE server_open
    <3>1. same
      BY <2>2 DEF server_open, malloc
    <3> QED
      BY <3>1, <2>2 DEF server_open
  <2>3. CASE reactor_loop
    <3>1. same
      BY <2>3 DEF reactor_loop, free, Reactor
    <3> QED
      BY <3>1, <2>3 DEF reactor_loop, Destroy
  <2> QED
    BY <1>11, <2>1, <2>2, <2>3
<1> QED
  BY <1>1, <1>2, <1>3, <1>4, <1>5, <1>6, <1>7, <1>8, <1>9, <1>10, <1>11 DEF Step

(* The reactor and the server come and go with the steps named after them.  *)
LEMMA ReactorKept ==
  ASSUME InfrastructureInv, Step PROVE ReactorOwned'
<1> USE DEF InfrastructureInv, TypeOK, ReactorOwned, Starting, Ending, Owning,
Blocks, Reactor
<1>1. CASE system_get_cpu_info
  BY <1>1 DEF system_get_cpu_info, malloc, Fails
<1>2. CASE server_infrastructure_create
  <2>1. \A b \in {"slots", "ring", "server"} : heap'[b] = heap[b]
    BY <1>2 DEF server_infrastructure_create, worker_manager_init, malloc, free
  <2>2. pc = "create" /\ pc' = "install" /\ ("listen" \notin failed' => "listen" \notin failed)
    BY <1>2 DEF server_infrastructure_create, worker_manager_init, Fails
  <2> QED
    BY <2>1, <2>2
<1>3. CASE signal_manager_init_fails \/ server_infrastructure_destroy
  <2>1. pc' = "exited"
    BY <1>3 DEF signal_manager_init_fails, server_infrastructure_destroy
  <2> QED
    BY <2>1
<1>4. CASE reactor_construct
  BY <1>4 DEF reactor_construct, malloc
<1>5. CASE reactor_construct_aborts
  BY <1>5 DEF reactor_construct_aborts, Crash
<1>6. CASE listen_fails
  BY <1>6 DEF listen_fails, Destroy, Fails
<1>7. CASE server_open
  BY <1>7 DEF server_open, malloc
<1>8. CASE worker_manager_signal_ready
  BY <1>8 DEF worker_manager_signal_ready
<1>9. CASE reactor_loop
  BY <1>9 DEF reactor_loop, Destroy, free
<1>10. CASE system_init \/ signal_manager_init \/ forked_all \/ fork_fails
         \/ fork_parent \/ eventfd_read \/ eventfd_read_fails \/ fork_child
         \/ affinity_fails \/ enter_worker \/ supervise
         \/ signal_manager_cleanup \/ restore_handler
  <2>1. heap' = heap /\ ("listen" \notin failed' => "listen" \notin failed)
    BY <1>10 DEF system_init, signal_manager_init, forked_all, fork_fails, Fails,
       fork_parent, eventfd_read, eventfd_read_fails, fork_child, affinity_fails,
       enter_worker, supervise, signal_manager_cleanup, restore_handler
  <2>2. /\ pc \in (Starting \cup Owning) \ {"listen", "ready", "loop"}
        /\ pc' \notin {"listen", "ready", "loop"}
    BY <1>10 DEF system_init, signal_manager_init, forked_all, fork_fails, Forking,
       Destroy, fork_parent, Crash, eventfd_read, eventfd_read_fails, fork_child,
       affinity_fails, enter_worker, supervise, signal_manager_cleanup, restore_handler
  <2> QED
    BY <2>1, <2>2
<1> QED
  BY <1>1, <1>2, <1>3, <1>4, <1>5, <1>6, <1>7, <1>8, <1>9, <1>10 DEF Step

(* The workers are created without eventfds.                                *)
LEMMA CreatedWithout ==
  ASSUME worker_manager_init, manager = NoManager
  PROVE  \A i \in Ids : manager'.eventfd[i] = 0
<1> DEFINE none == [i \in Ids |-> 0]
<1>1. \A i \in Ids : none[i] = 0
  OBVIOUS
<1>2. NoManager = [worker_count |-> 0, cpu_ids |-> FALSE, workers |-> FALSE,
                   eventfd |-> none, type |-> "PARENT", current |-> 0]
  BY DEF NoManager
<1> HIDE DEF none
<1>3. manager'.eventfd = none
  <2>1. CASE UNCHANGED manager
    BY <1>2, <2>1
  <2>2. CASE manager' = [NoManager EXCEPT !.worker_count = NCpus]
    BY <1>2, <2>2
  <2>3. CASE manager' = [NoManager EXCEPT !.worker_count = NCpus, !.cpu_ids = TRUE]
    BY <1>2, <2>3
  <2>4. CASE manager' = [NoManager EXCEPT !.worker_count = NCpus, !.cpu_ids = TRUE,
                                          !.workers = TRUE]
    BY <1>2, <2>4
  <2> QED
    BY <2>1, <2>2, <2>3, <2>4 DEF worker_manager_init
<1> QED
  BY <1>1, <1>3

(* One eventfd is taken before each fork, and each way on closes it, or     *)
(* hands it to the manager of the process that goes on with it.             *)
LEMMA EventfdsKept ==
  ASSUME InfrastructureInv, Step PROVE EventfdsOwned'
<1> USE InfrastructureAssumption DEF InfrastructureInv, TypeOK, CurrentCounted,
      MemoryOwned, Starting, Ending, Owning, NoManager, Ids, Blocks,
      EventfdsOwned
<1>1. CASE system_init
  BY <1>1 DEF system_init
<1>2. CASE system_get_cpu_info
  BY <1>2 DEF system_get_cpu_info, Fails, malloc
<1>3. CASE server_infrastructure_create
  <2>1. efds' = efds /\ pc' = "install" /\ pc = "create"
    BY <1>3 DEF server_infrastructure_create
  <2>2. \A i \in Ids : manager'.eventfd[i] = 0
    BY <1>3, CreatedWithout DEF server_infrastructure_create
  <2> QED
    BY <2>1, <2>2
<1>4. CASE signal_manager_init
  BY <1>4 DEF signal_manager_init
<1>5. CASE forked_all
  BY <1>5 DEF forked_all
<1>6. CASE fork_fails
  BY <1>6 DEF fork_fails, Forking, Destroy, Fails
<1>7. CASE reactor_construct
  BY <1>7 DEF reactor_construct
<1>8. CASE listen_fails
  BY <1>8 DEF listen_fails, Destroy, Fails
<1>9. CASE reactor_loop
  BY <1>9 DEF reactor_loop, Destroy, free
<1>10. CASE supervise
  BY <1>10 DEF supervise, Destroy
<1>11. CASE signal_manager_cleanup
  BY <1>11 DEF signal_manager_cleanup
<1>12. CASE signal_manager_init_fails
  BY <1>12, SMTT(40) DEF signal_manager_init_fails, Fails, worker_manager_cleanup, free,
      BadFree
<1>13. CASE fork_parent
  <2>1. CASE ~manager.workers
    BY <1>13, <2>1 DEF fork_parent, Crash
  <2>2. CASE manager.workers
    <3>1. /\ pc = "fork" /\ pc' = "read" /\ efds' = {NextFd} /\ UNCHANGED failed
          /\ manager' = [manager EXCEPT !.eventfd[manager.current] = NextFd]
          /\ manager.current < manager.worker_count
      BY <1>13, <2>2 DEF fork_parent, Forking
    <3>2. NextFd \in {0, 3} /\ manager.current \in Ids
      BY <3>1 DEF NextFd
    <3>3. \A i \in Ids : manager'.eventfd[i] = IF i = manager.current THEN NextFd
                                               ELSE manager.eventfd[i]
      BY <3>1, <3>2
    <3>4. manager'.current = manager.current /\ manager'.worker_count = manager.worker_count
          /\ manager'.workers
      BY <2>2, <3>1
    <3> QED
      BY <3>1, <3>2, <3>3, <3>4
  <2> QED
    BY <2>1, <2>2
<1>14. CASE eventfd_read
  BY <1>14, SMTT(40) DEF eventfd_read
<1>15. CASE eventfd_read_fails
  BY <1>15 DEF eventfd_read_fails, Destroy, Fails
<1>16. CASE fork_child
  BY <1>16, SMTT(40) DEF fork_child, Forking, Destroy, Crash, Fails, NextFd
<1>17. CASE affinity_fails
  BY <1>17 DEF affinity_fails, Destroy, Fails
<1>18. CASE enter_worker
  BY <1>18, SMTT(40) DEF enter_worker
<1>19. CASE worker_manager_signal_ready
  BY <1>19, SMTT(40) DEF worker_manager_signal_ready, Fails
<1>20. CASE server_infrastructure_destroy
  BY <1>20, SMTT(40) DEF server_infrastructure_destroy, worker_manager_cleanup, free,
      BadFree
<1>21. CASE restore_handler
  BY <1>21 DEF restore_handler
<1>22. CASE reactor_construct_aborts
  BY <1>22 DEF reactor_construct_aborts, Crash
<1>23. CASE server_open
  BY <1>23 DEF server_open
<1> QED
  BY <1>1, <1>2, <1>3, <1>4, <1>5, <1>6, <1>7, <1>8, <1>9, <1>10,
     <1>11, <1>12, <1>13, <1>14, <1>15, <1>16, <1>17, <1>18, <1>19, <1>20,
     <1>21, <1>22, <1>23 DEF Step

(* Handlers are installed after the manager, changed by the reactor, and    *)
(* taken away one by one.                                                   *)
LEMMA HandlersKept ==
  ASSUME InfrastructureInv, Step PROVE HandlersSet'
<1> USE HandledAre DEF InfrastructureInv, TypeOK, HandlersSet, Starting,
      Ending, Owning
<1>1. CASE server_infrastructure_create
  BY <1>1 DEF server_infrastructure_create, worker_manager_init, malloc, free
<1>2. CASE signal_manager_init
  BY <1>2 DEF signal_manager_init
<1>3. CASE reactor_construct
  BY <1>3 DEF reactor_construct
<1>4. CASE restore_handler
  BY <1>4 DEF restore_handler
<1>5. CASE system_init \/ system_get_cpu_info \/ signal_manager_init_fails
         \/ forked_all \/ fork_fails \/ fork_parent \/ eventfd_read
         \/ eventfd_read_fails \/ fork_child \/ affinity_fails \/ enter_worker
         \/ reactor_construct_aborts \/ listen_fails \/ server_open \/
         worker_manager_signal_ready \/ reactor_loop
         \/ supervise \/ signal_manager_cleanup
         \/ server_infrastructure_destroy
  BY <1>5 DEF system_init, system_get_cpu_info, Fails, malloc,
      signal_manager_init_fails, worker_manager_cleanup, free, BadFree,
      forked_all, fork_fails, Forking, Destroy, fork_parent, Crash, NextFd,
      eventfd_read, eventfd_read_fails, fork_child, affinity_fails,
      enter_worker, reactor_construct_aborts, listen_fails, server_open,
      worker_manager_signal_ready, reactor_loop,
      supervise, signal_manager_cleanup, server_infrastructure_destroy
<1> QED
  BY <1>1, <1>2, <1>3, <1>4, <1>5 DEF Step

(* A worker is started only among those counted, and only with contexts.    *)
LEMMA CurrentKept ==
  ASSUME InfrastructureInv, Step PROVE CurrentCounted'
<1> USE InfrastructureAssumption DEF InfrastructureInv, TypeOK, CurrentCounted,
      MemoryOwned, Owning, Ending
<1>1. CASE fork_parent
  BY <1>1 DEF fork_parent, Forking, Crash, NextFd
<1>2. CASE eventfd_read
  BY <1>2 DEF eventfd_read
<1>3. CASE fork_child
  BY <1>3 DEF fork_child, Forking, Destroy, Crash, Fails, NextFd
<1>4. CASE enter_worker
  BY <1>4 DEF enter_worker
<1>5. CASE system_init \/ system_get_cpu_info \/ server_infrastructure_create
         \/ signal_manager_init \/ signal_manager_init_fails \/ forked_all
         \/ fork_fails \/ eventfd_read_fails \/ affinity_fails
         \/ reactor_construct \/ reactor_construct_aborts \/ listen_fails \/
         server_open \/ worker_manager_signal_ready
         \/ reactor_loop \/ supervise \/ signal_manager_cleanup
         \/ restore_handler \/ server_infrastructure_destroy
  BY <1>5 DEF system_init, system_get_cpu_info, Fails, malloc,
      server_infrastructure_create, worker_manager_init, free,
      signal_manager_init, signal_manager_init_fails, worker_manager_cleanup,
      BadFree, forked_all, fork_fails, Forking, Destroy, eventfd_read_fails,
      affinity_fails, reactor_construct, reactor_construct_aborts, listen_fails,
      server_open,
      worker_manager_signal_ready, reactor_loop, supervise,
      signal_manager_cleanup, restore_handler, server_infrastructure_destroy
<1> QED
  BY <1>1, <1>2, <1>3, <1>4, <1>5 DEF Step

(* What the program must not do comes from its releases and its forks.      *)
LEMMA NoFaultKept ==
  ASSUME InfrastructureInv, Step PROVE NoFault'
<1> USE InfrastructureAssumption DEF InfrastructureInv, TypeOK, CurrentCounted,
      MemoryOwned, EventfdsOwned, NoFault, Starting, Ending, Owning, Ids,
      Blocks, Reactor
<1>1. CASE signal_manager_init_fails
  BY <1>1 DEF signal_manager_init_fails, Fails, worker_manager_cleanup, free,
      BadFree
<1>2. CASE fork_parent
  BY <1>2 DEF fork_parent, Forking, Crash, NextFd
<1>3. CASE fork_child
  BY <1>3 DEF fork_child, Forking, Destroy, Crash, Fails, NextFd
<1>4. CASE server_infrastructure_destroy
  BY <1>4 DEF server_infrastructure_destroy, worker_manager_cleanup, free,
      BadFree
<1>5. CASE reactor_loop
  <2>1. BadFree(heap, {"server"} \cup Reactor) = {}
    BY <1>5 DEF reactor_loop, ReactorOwned, BadFree
  <2> QED
    BY <1>5, <2>1 DEF reactor_loop
<1>6. CASE system_init \/ system_get_cpu_info \/ server_infrastructure_create
         \/ signal_manager_init \/ forked_all \/ fork_fails \/ eventfd_read
         \/ eventfd_read_fails \/ affinity_fails \/ enter_worker
         \/ reactor_construct \/ reactor_construct_aborts \/ listen_fails
         \/ server_open \/ worker_manager_signal_ready \/ supervise
         \/ signal_manager_cleanup \/ restore_handler
  <2>1. UNCHANGED fault /\ failed \subseteq failed'
    BY <1>6 DEF system_init, system_get_cpu_info, Fails, malloc,
      server_infrastructure_create, worker_manager_init, signal_manager_init,
      forked_all, fork_fails, Forking, Destroy, eventfd_read, eventfd_read_fails,
      affinity_fails, enter_worker, reactor_construct, reactor_construct_aborts,
      Crash, listen_fails, server_open, worker_manager_signal_ready, supervise,
      signal_manager_cleanup, restore_handler
  <2> QED
    BY <2>1
<1> QED
  BY <1>1, <1>2, <1>3, <1>4, <1>5, <1>6 DEF Step

(* main returns by two ways only.                                           *)
LEMMA ReturnedKept ==
  ASSUME InfrastructureInv, Step PROVE EverythingReturned'
<1> USE HandledAre DEF InfrastructureInv, TypeOK, CurrentCounted, MemoryOwned,
      ReactorOwned, EventfdsOwned, HandlersSet, EverythingReturned, Starting,
      Ending, Owning, Ids, Blocks, Reactor
<1>1. CASE signal_manager_init_fails
  BY <1>1 DEF signal_manager_init_fails, Fails, worker_manager_cleanup, free,
      BadFree
<1>2. CASE server_infrastructure_destroy
  BY <1>2 DEF server_infrastructure_destroy, worker_manager_cleanup, free,
      BadFree
<1>3. CASE system_init \/ system_get_cpu_info \/ server_infrastructure_create
         \/ signal_manager_init \/ forked_all \/ fork_fails \/ fork_parent
         \/ eventfd_read \/ eventfd_read_fails \/ fork_child \/ affinity_fails
         \/ enter_worker \/ reactor_construct \/ reactor_construct_aborts \/
         listen_fails \/ server_open
         \/ worker_manager_signal_ready \/ reactor_loop \/ supervise
         \/ signal_manager_cleanup \/ restore_handler
  BY <1>3 DEF system_init, system_get_cpu_info, Fails, malloc,
      server_infrastructure_create, worker_manager_init, free,
      signal_manager_init, forked_all, fork_fails, Forking, Destroy,
      fork_parent, Crash, NextFd, eventfd_read, eventfd_read_fails, fork_child,
      affinity_fails, enter_worker, reactor_construct, reactor_construct_aborts,
      listen_fails, server_open,
      worker_manager_signal_ready, reactor_loop, supervise,
      signal_manager_cleanup, restore_handler
<1> QED
  BY <1>1, <1>2, <1>3 DEF Step

(* The steps of the program change nothing that was heard.                  *)
LEMMA HeardKept ==
  ASSUME SignalsHeard, Step PROVE SignalsHeard'
<1>1. UNCHANGED unheard
  BY DEF Step, system_init, system_get_cpu_info,
     server_infrastructure_create, signal_manager_init,
     signal_manager_init_fails, forked_all, fork_fails, Destroy, fork_parent,
     Crash, eventfd_read, eventfd_read_fails, fork_child, affinity_fails,
     enter_worker, reactor_construct, reactor_construct_aborts, listen_fails,
     server_open,
     worker_manager_signal_ready, reactor_loop, supervise,
     signal_manager_cleanup, restore_handler, server_infrastructure_destroy
<1> QED
  BY <1>1 DEF SignalsHeard

(* Supervising begins after the last fork.                                  *)
LEMMA SupervisesKept ==
  ASSUME InfrastructureInv, Step PROVE SupervisesAll'
<1> USE DEF InfrastructureInv, MemoryOwned, SupervisesAll, Owning
<1>1. CASE forked_all
  BY <1>1 DEF forked_all
<1>2. CASE system_init \/ system_get_cpu_info \/ server_infrastructure_create
         \/ signal_manager_init \/ signal_manager_init_fails \/ fork_fails
         \/ fork_parent \/ eventfd_read \/ eventfd_read_fails \/ fork_child
         \/ affinity_fails \/ enter_worker \/ reactor_construct \/
         reactor_construct_aborts \/ listen_fails \/ server_open
         \/ worker_manager_signal_ready \/ reactor_loop \/ supervise
         \/ signal_manager_cleanup \/ restore_handler
         \/ server_infrastructure_destroy
  BY <1>2 DEF system_init, system_get_cpu_info, Fails, malloc,
      server_infrastructure_create, worker_manager_init, free,
      signal_manager_init, signal_manager_init_fails, worker_manager_cleanup,
      BadFree, fork_fails, Forking, Destroy, fork_parent, Crash, NextFd,
      eventfd_read, eventfd_read_fails, fork_child, affinity_fails,
      enter_worker, reactor_construct, reactor_construct_aborts, listen_fails,
      server_open,
      worker_manager_signal_ready, reactor_loop, supervise,
      signal_manager_cleanup, restore_handler, server_infrastructure_destroy
<1> QED
  BY <1>1, <1>2 DEF Step

(* Serving begins with the word to the parent.                              *)
LEMMA ServesKept ==
  ASSUME InfrastructureInv, Step PROVE ServesAndTold'
<1> USE DEF InfrastructureInv, TypeOK, EventfdsOwned, ServesAndTold
<1>1. CASE worker_manager_signal_ready
  BY <1>1 DEF worker_manager_signal_ready, Fails
<1>2. CASE system_init \/ system_get_cpu_info \/ server_infrastructure_create
         \/ signal_manager_init \/ signal_manager_init_fails \/ forked_all
         \/ fork_fails \/ fork_parent \/ eventfd_read \/ eventfd_read_fails
         \/ fork_child \/ affinity_fails \/ enter_worker \/ reactor_construct
         \/ reactor_construct_aborts \/ listen_fails \/ server_open \/ reactor_loop
         \/ supervise \/ signal_manager_cleanup
         \/ restore_handler \/ server_infrastructure_destroy
  BY <1>2 DEF system_init, system_get_cpu_info, Fails, malloc,
      server_infrastructure_create, worker_manager_init, free,
      signal_manager_init, signal_manager_init_fails, worker_manager_cleanup,
      BadFree, forked_all, fork_fails, Forking, Destroy, fork_parent, Crash,
      NextFd, eventfd_read, eventfd_read_fails, fork_child, affinity_fails,
      enter_worker, reactor_construct, reactor_construct_aborts, listen_fails,
      server_open, reactor_loop, supervise,
      signal_manager_cleanup, restore_handler, server_infrastructure_destroy
<1> QED
  BY <1>1, <1>2 DEF Step

(* A signal changes the flags, or ends the process.                         *)
LEMMA SignalKept ==
  ASSUME InfrastructureInv, NEW s \in Signals, signal(s) PROVE InfrastructureInv'
<1> USE HandledAre DEF InfrastructureInv
<1>1. /\ signals < MaxSignals /\ signals' = signals + 1 /\ pc \notin Over
      /\ UNCHANGED <<k, manager, heap, efds, stdin, disposition, global, told, failed, fault>>
  BY DEF signal
<1>2. CASE disposition[s] = "default" /\ Kill
  <2>1. pc' = "killed" /\ unheard' = unheard \cup {<<"killed", pc>>}
        /\ UNCHANGED <<shutdown, active>>
    BY <1>2 DEF Kill
  <2>2. TypeOK'
    BY <1>1, <2>1, InfrastructureAssumption DEF TypeOK, Places, Coming, Going, Over
  <2>3. SignalsHeard'
    BY <1>1, <1>2, <2>1 DEF SignalsHeard, HandlersSet, TypeOK, Places, Owning, Ending,
       Coming, Going, Over
  <2> QED
    BY <1>1, <2>1, <2>2, <2>3
    DEF CurrentCounted, MemoryOwned, ReactorOwned, EventfdsOwned, HandlersSet, NoFault,
        EverythingReturned, SupervisesAll, ServesAndTold, Starting, Owning, Ending
<1>3. CASE pc' = pc
  <2>1. SignalsHeard' /\ TypeOK'
    <3>1. CASE disposition[s] \in {"ignored", "reactor"}
      <4>1. unheard' = unheard /\ shutdown' = shutdown /\ active' \in BOOLEAN
        BY <1>1, <1>3, <3>1 DEF signal, reactor_signal, TypeOK, Kill, Over
      <4> QED
        BY <1>1, <1>3, <4>1, InfrastructureAssumption DEF SignalsHeard, TypeOK
    <3>2. CASE disposition[s] = "handler"
      BY <1>1, <1>3, <3>2, InfrastructureAssumption
      DEF signal, signal_handler, SignalsHeard, TypeOK, HandlersSet, Places, Starting,
          Owning, Ending, Coming, Going, Over
    <3> QED
      BY <1>3, <3>1, <3>2 DEF signal, TypeOK, Kill, Over
  <2> QED
    BY <1>1, <1>3, <2>1
    DEF CurrentCounted, MemoryOwned, ReactorOwned, EventfdsOwned, HandlersSet, NoFault,
        EverythingReturned, SupervisesAll, ServesAndTold
<1> QED
  BY <1>2, <1>3 DEF signal, signal_handler, reactor_signal

(* main starts with nothing.                                                *)
LEMMA InitInv == Init => InfrastructureInv
<1> SUFFICES ASSUME Init PROVE InfrastructureInv
  OBVIOUS
<1>1. TypeOK
  <2>1. manager \in Managers /\ heap \in [Blocks -> {"unused", "live", "freed"}]
    BY NoManagerTyped DEF Init
  <2>2. disposition \in [Signals -> {"default", "ignored", "handler", "reactor"}]
    BY DEF Init
  <2>3. /\ signals \in 0 .. MaxSignals /\ k \in 1 .. Len(Handled) /\ pc \in Places
        /\ unheard \subseteq {"killed", "swallowed"} \X Places
    BY InfrastructureAssumption, HandledAre DEF Init, Places
  <2> QED
    BY <2>1, <2>2, <2>3 DEF Init, TypeOK, Managers
<1>2. pc = "init" /\ "init" \notin Owning /\ manager = NoManager /\ efds = {} /\ fault = {}
  BY DEF Init, Owning, Ending
<1>3. \A b \in Blocks : heap[b] = "unused"
  BY DEF Init
<1>4. MemoryOwned /\ CurrentCounted
  BY <1>2, <1>3 DEF MemoryOwned, CurrentCounted, Starting
<1>5. ReactorOwned
  BY <1>2, <1>3 DEF ReactorOwned, Blocks, Reactor
<1>6. EventfdsOwned
  BY <1>2 DEF EventfdsOwned
<1>7. HandlersSet
  BY <1>2 DEF Init, HandlersSet
<1>8. NoFault /\ EverythingReturned /\ SupervisesAll /\ ServesAndTold /\ SignalsHeard
  BY <1>2 DEF Init, NoFault, EverythingReturned, SupervisesAll, ServesAndTold, SignalsHeard
<1> QED
  BY <1>1, <1>4, <1>5, <1>6, <1>7, <1>8 DEF InfrastructureInv

(* Whatever fails and whenever signals arrive, the invariant holds.         *)
THEOREM InfrastructureInvHolds == Spec => []InfrastructureInv
<1>1. InfrastructureInv /\ [Next]_vars => InfrastructureInv'
  <2> SUFFICES ASSUME InfrastructureInv, [Next]_vars PROVE InfrastructureInv'
    OBVIOUS
  <2>1. CASE Step
    BY <2>1, TypeKept, CurrentKept, MemoryKept, ReactorKept, EventfdsKept,
       HandlersKept, NoFaultKept, ReturnedKept, HeardKept, SupervisesKept, ServesKept DEF InfrastructureInv
  <2>2. CASE \E s \in Signals : signal(s)
    BY <2>2, SignalKept
  <2>3. CASE UNCHANGED vars
    BY <2>3
    DEF vars, InfrastructureInv, TypeOK, CurrentCounted, MemoryOwned, ReactorOwned,
        EventfdsOwned, HandlersSet, NoFault, EverythingReturned, SignalsHeard,
        SupervisesAll, ServesAndTold
  <2> QED
    BY <2>1, <2>2, <2>3 DEF Next
<1> QED
  BY InitInv, <1>1, PTL DEF Spec

(* The state of a process keeps its types, for any number of processors.    *)
THEOREM TypeCorrect == Spec => []TypeOK
<1>1. InfrastructureInv => TypeOK
  BY DEF InfrastructureInv
<1> QED
  BY <1>1, InfrastructureInvHolds, PTL

(* On every path through create, start and destroy, in parent and worker:   *)
(* no double free or close, but after the two failures that NoFault names.  *)
THEOREM NoFaultHolds == Spec => []NoFault
<1>1. InfrastructureInv => NoFault
  BY DEF InfrastructureInv
<1> QED
  BY <1>1, InfrastructureInvHolds, PTL

(* A process that returns from main has given back what it took.            *)
THEOREM EverythingReturnedHolds == Spec => []EverythingReturned
<1>1. InfrastructureInv => EverythingReturned
  BY DEF InfrastructureInv
<1> QED
  BY <1>1, InfrastructureInvHolds, PTL

(* Signals in whatever number find their manager, from the first handler on.*)
THEOREM SignalsHeardHolds == Spec => []SignalsHeard
<1>1. InfrastructureInv => SignalsHeard
  BY DEF InfrastructureInv
<1> QED
  BY <1>1, InfrastructureInvHolds, PTL

(* A parent supervises only what it has forked in full.                     *)
THEOREM SupervisesAllHolds == Spec => []SupervisesAll
<1>1. InfrastructureInv => SupervisesAll
  BY DEF InfrastructureInv
<1> QED
  BY <1>1, InfrastructureInvHolds, PTL

(* A worker that serves has told its parent so.                             *)
THEOREM ServesAndToldHolds == Spec => []ServesAndTold
<1>1. InfrastructureInv => ServesAndTold
  BY DEF InfrastructureInv
<1> QED
  BY <1>1, InfrastructureInvHolds, PTL
=============================================================================
