-------------------------- MODULE SupervisorProofs --------------------------
(****************************************************************************)
(* Theorems about Supervisor, for any number of workers.                    *)
(*                                                                          *)
(* SupervisorInv is inductive.  StartedInTurn is part of it; BinaryJoinsAll *)
(* follows because a worker above "forked" never ran, and one up to "joined"*)
(* has exited for good.                                                     *)
(****************************************************************************)
EXTENDS Supervisor, TLAPS

(* A process that goes to one of its own places stays in its places.        *)
LEMMA GotoPlaces ==
  ASSUME PlacesOK, NEW p \in Processes, NEW s, Goto(p, s),
         p = Parent => s \in ParentPlaces \cup Ended,
         p \in Workers => s \in Starting \cup Serving \cup Ended
  PROVE  PlacesOK'
  BY SupervisorAssumption DEF PlacesOK, Goto, Processes, Workers

(* The initial states satisfy the invariant.                                *)
LEMMA InitInv == Init => SupervisorInv
<1> SUFFICES ASSUME Init PROVE SupervisorInv
  OBVIOUS
<1> USE SupervisorAssumption
<1>1. /\ pc = [p \in Processes |-> IF p = Parent THEN "fork" ELSE "none"]
      /\ server \in Servers /\ forked = 0 /\ joined = 0
      /\ eventfd = [w \in Workers |-> 0] /\ active = [w \in Workers |-> FALSE]
      /\ shutdown_requested = [p \in Processes |-> FALSE]
      /\ signalled = {} /\ pending = {}
  BY DEF Init
<1>2. /\ Parent \in Processes /\ Workers \subseteq Processes
      /\ \A w \in Workers : w # Parent /\ w \in Nat /\ w > 0
  BY DEF Processes, Workers
<1>3. pc[Parent] = "fork" /\ \A w \in Workers : pc[w] = "none"
  BY <1>1, <1>2
<1>4. pc \in [Processes -> {"fork", "none"}]
  BY <1>1
<1>5. PlacesOK
  BY <1>3, <1>4 DEF PlacesOK, ParentPlaces
<1>6. TypeOK
  BY <1>1, <1>5 DEF TypeOK
<1>7. StartedInTurn /\ UnforkedIdle /\ ReadyHasStarted /\ ReadsOfForked /\ JoinedHaveExited
  BY <1>1, <1>2, <1>3 DEF StartedInTurn, UnforkedIdle, ReadyHasStarted, ReadsOfForked, JoinedHaveExited
<1> QED
  BY <1>6, <1>7 DEF SupervisorInv

(* Forking a worker keeps it: all workers forked before have come through   *)
(* their start-up.                                                          *)
LEMMA ForkKeepsInv == SupervisorInv /\ fork => SupervisorInv'
<1> SUFFICES ASSUME SupervisorInv, fork PROVE SupervisorInv'
  OBVIOUS
<1> DEFINE place == IF server = "http" THEN "eventfd_read" ELSE "fork"
<1> USE SupervisorAssumption
<1>1. TypeOK /\ PlacesOK
  BY DEF SupervisorInv, TypeOK
<1>2. /\ forked \in Nat /\ forked + 1 \in Workers /\ forked + 1 # Parent
      /\ joined \in 0 .. forked /\ Parent \in Processes /\ Parent \notin Workers
      /\ Workers \subseteq Processes /\ Workers \subseteq Nat
  BY <1>1 DEF fork, TypeOK, Workers, Processes
<1>3. /\ forked' = forked + 1 /\ pc[Parent] = "fork"
      /\ pc' = [pc EXCEPT ![forked + 1] = "affinity", ![Parent] = place]
      /\ UNCHANGED <<server, joined, eventfd, active, signalled, pending>>
  BY DEF fork
<1>4. /\ pc'[Parent] = place
      /\ \A w \in Workers : pc'[w] = IF w = forked + 1 THEN "affinity" ELSE pc[w]
  BY <1>1, <1>2, <1>3 DEF PlacesOK
<1>5. PlacesOK'
  <2>1. pc' \in [Processes -> {"none"} \cup ParentPlaces \cup Starting \cup Serving \cup Ended]
    BY <1>1, <1>2, <1>3 DEF PlacesOK, ParentPlaces, Starting
  <2> QED
    BY <1>1, <1>4, <2>1 DEF PlacesOK, ParentPlaces, Starting
<1>6. TypeOK'
  <2>1. shutdown_requested' \in [Processes -> BOOLEAN]
    BY <1>1, <1>2 DEF fork, TypeOK
  <2>2. forked' \in 0 .. N /\ joined' \in 0 .. forked'
    BY <1>1, <1>2, <1>3 DEF Workers, TypeOK
  <2> QED
    BY <1>1, <1>3, <1>5, <2>1, <2>2 DEF TypeOK
<1>7. StartedInTurn'
  <2> SUFFICES ASSUME server = "http", NEW w \in Workers,
                      w < forked + 1 \/ (w = forked + 1 /\ place # "eventfd_read")
               PROVE  pc'[w] \in Serving \cup {"exited"}
    BY <1>3, <1>4 DEF StartedInTurn
  <2>1. w # forked + 1 /\ (w < forked \/ w = forked)
    BY <1>2
  <2> QED
    BY <1>3, <1>4, <2>1 DEF SupervisorInv, StartedInTurn
<1>8. UnforkedIdle'
  <2> SUFFICES ASSUME NEW w \in Workers, w > forked + 1 PROVE pc'[w] = "none"
    BY <1>3 DEF UnforkedIdle
  <2>1. w # forked + 1 /\ w > forked
    BY <1>2
  <2> QED
    BY <1>4, <2>1 DEF SupervisorInv, UnforkedIdle
<1>9. ReadyHasStarted' /\ ReadsOfForked'
  <2>1. pc[forked + 1] = "none" /\ eventfd[forked + 1] = 0
    BY <1>1, <1>2 DEF SupervisorInv, UnforkedIdle, ReadyHasStarted, TypeOK, Serving
  <2> QED
    BY <1>2, <1>3, <1>4, <2>1 DEF SupervisorInv, ReadyHasStarted, ReadsOfForked
<1>10. JoinedHaveExited'
  <2>1. \A w \in Workers : w <= joined => w # forked + 1
    BY <1>2
  <2> QED
    BY <1>3, <1>4, <2>1 DEF SupervisorInv, JoinedHaveExited
<1> QED
  BY <1>6, <1>7, <1>8, <1>9, <1>10 DEF SupervisorInv

(* Every step of the parent keeps it.                                       *)
LEMMA ParentKeepsInv == SupervisorInv /\ ParentStep => SupervisorInv'
<1> SUFFICES ASSUME SupervisorInv, ParentStep PROVE SupervisorInv'
  OBVIOUS
<1> USE SupervisorAssumption DEF SupervisorInv, TypeOK, PlacesOK, StartedInTurn, UnforkedIdle,
      ReadyHasStarted, ReadsOfForked, JoinedHaveExited, Processes, Workers,
      ParentPlaces, Starting, Serving, Ended, Goto
<1>1. CASE fork
  BY <1>1, ForkKeepsInv
<1>2. CASE fork_fails
  BY <1>2 DEF fork_fails
<1>3. CASE forked_all
  BY <1>3 DEF forked_all
<1>4. CASE eventfd_read
  BY <1>4 DEF eventfd_read
<1>5. CASE check_shutdown
  BY <1>5 DEF check_shutdown
<1>6. CASE wait
  <2>1. CASE server = "http" /\ Goto(Parent, "log_exit") /\ joined' = joined
    BY <1>6, <2>1 DEF wait
  <2>2. CASE server = "binary" /\ joined < forked /\ pc[joined + 1] = "exited"
             /\ joined' = joined + 1 /\ pc' = pc
    <3>1. \A w \in Workers : w <= joined + 1 => w <= joined \/ w = joined + 1
      OBVIOUS
    <3> QED
      BY <1>6, <2>2, <3>1 DEF wait
  <2>3. CASE server = "binary" /\ joined = forked /\ Goto(Parent, "exited")
             /\ joined' = joined
    BY <1>6, <2>3 DEF wait
  <2> QED
    BY <1>6, <2>1, <2>2, <2>3 DEF wait
<1>7. CASE logged(Parent)
  <2>1. PICK place \in {"fork", "check", "exited"} : Goto(Parent, place)
    BY <1>7 DEF logged
  <2>2. pc[Parent] \in {"log_running", "log_started", "log_exit"}
    BY <1>7 DEF logged
  <2>3. server # "binary"
    BY <2>2
  <2>4. /\ pc'[Parent] = place /\ pc[Parent] # "eventfd_read"
        /\ \A w \in Workers : pc'[w] = pc[w]
    BY <2>1, <2>2
  <2>5. UNCHANGED <<server, forked, joined, eventfd, active, shutdown_requested,
                    signalled, pending>>
    BY <1>7 DEF logged
  <2>6. PlacesOK'
    BY <2>1, GotoPlaces
  <2>7. TypeOK'
    BY <2>5, <2>6
  <2>8. StartedInTurn' /\ UnforkedIdle' /\ ReadyHasStarted'
    BY <2>4, <2>5
  <2>9. ReadsOfForked' /\ JoinedHaveExited'
    BY <2>1, <2>3, <2>4, <2>5
  <2> QED
    BY <2>7, <2>8, <2>9
<1> QED
  BY <1>1, <1>2, <1>3, <1>4, <1>5, <1>6, <1>7 DEF ParentStep

(* A worker that goes from one place of its start-up or its service to      *)
(* another, but never back into its start-up, keeps it.                     *)
LEMMA WorkerMoves ==
  ASSUME SupervisorInv, NEW w \in Workers, NEW place,
         pc[w] \in Starting \cup Serving, place \in Starting \cup Serving \cup {"exited"},
         place \in Starting => pc[w] \in Starting, Goto(w, place),
         UNCHANGED <<server, forked, joined, eventfd, active, shutdown_requested,
                     signalled, pending>>
  PROVE  SupervisorInv'
<1>1. /\ w \in Processes /\ w # Parent /\ w \in Nat
      /\ pc[w] # "none" /\ pc[w] # "exited"
      /\ pc[w] \in Serving => place \in Serving \cup {"exited"}
  BY SupervisorAssumption DEF Processes, Workers, Starting, Serving
<1>2. /\ pc'[w] = place /\ pc'[Parent] = pc[Parent]
      /\ \A p \in Workers : p # w => pc'[p] = pc[p]
  BY <1>1 DEF SupervisorInv, TypeOK, PlacesOK, Goto, Processes
<1>3. TypeOK'
  <2>1. PlacesOK'
    BY <1>1, GotoPlaces DEF SupervisorInv, TypeOK, Ended
  <2> QED
    BY <2>1 DEF SupervisorInv, TypeOK
<1>4. StartedInTurn'
  BY <1>1, <1>2 DEF SupervisorInv, StartedInTurn
<1>5. UnforkedIdle'
  BY <1>1, <1>2 DEF SupervisorInv, UnforkedIdle
<1>6. ReadyHasStarted'
  BY <1>1, <1>2 DEF SupervisorInv, ReadyHasStarted
<1>7. ReadsOfForked'
  BY <1>2 DEF SupervisorInv, ReadsOfForked
<1>8. JoinedHaveExited'
  BY <1>1, <1>2 DEF SupervisorInv, JoinedHaveExited
<1> QED
  BY <1>3, <1>4, <1>5, <1>6, <1>7, <1>8 DEF SupervisorInv

(* Every step of a worker, and its end, keeps it.                           *)
LEMMA WorkerKeepsInv ==
  ASSUME SupervisorInv, NEW w \in Workers,
         WorkerStep(w) \/ timer_tick(w) \/ traffic(w) \/ worker_fails(w)
  PROVE  SupervisorInv'
<1>1. CASE set_affinity(w)
  <2>1. pc[w] = "affinity" /\ Goto(w, "log_start")
    BY <1>1 DEF set_affinity
  <2> QED
    BY <1>1, <2>1, WorkerMoves DEF set_affinity, Starting
<1>2. CASE logged(w)
  <2>1. w # Parent
    BY SupervisorAssumption DEF Workers
  <2>2. pc[w] = "log_start" /\ Goto(w, "construct")
    BY <1>2, <2>1 DEF logged
  <2> QED
    BY <1>2, <2>2, WorkerMoves DEF logged, Starting
<1>3. CASE reactor_construct(w)
  BY <1>3, SupervisorAssumption DEF reactor_construct, SupervisorInv, TypeOK, PlacesOK,
    StartedInTurn, UnforkedIdle, ReadyHasStarted, ReadsOfForked, JoinedHaveExited,
    Processes, Workers, ParentPlaces, Starting, Serving, Ended, Goto
<1>4. CASE worker_ready(w)
  BY <1>4, SupervisorAssumption DEF worker_ready, SupervisorInv, TypeOK, PlacesOK,
    StartedInTurn, UnforkedIdle, ReadyHasStarted, ReadsOfForked, JoinedHaveExited,
    Processes, Workers, ParentPlaces, Starting, Serving, Ended, Goto
<1>5. CASE reactor_loop(w)
  <2>1. pc[w] \in Serving
    BY <1>5 DEF reactor_loop, Serving
  <2>2. PICK place \in Serving \cup {"exited"} : Goto(w, place)
    BY <1>5 DEF reactor_loop, Serving
  <2>3. place \notin Starting
    BY <2>2 DEF Starting, Serving
  <2> QED
    BY <1>5, <2>1, <2>2, <2>3, WorkerMoves DEF reactor_loop
<1>6. CASE timer_tick(w) \/ traffic(w)
  <2>1. wake(w)
    BY <1>6 DEF timer_tick, traffic
  <2>2. pc[w] \in Serving /\ "loop" \in Serving /\ "loop" \notin Starting
    BY <2>1 DEF wake, Starting, Serving
  <2> QED
    BY <2>1, <2>2, WorkerMoves DEF wake
<1>7. CASE worker_fails(w)
  <2>1. "exited" \notin Starting
    BY DEF Starting
  <2> QED
    BY <1>7, <2>1, WorkerMoves DEF worker_fails
<1> QED
  BY <1>1, <1>2, <1>3, <1>4, <1>5, <1>6, <1>7 DEF WorkerStep

(* Every signal keeps it, at whatever place it finds its process.           *)
LEMMA SignalKeepsInv ==
  ASSUME SupervisorInv, NEW p \in Processes, kill(p) \/ deliver(p)
  PROVE  SupervisorInv'
<1> USE SupervisorAssumption DEF SupervisorInv, TypeOK, PlacesOK, StartedInTurn, UnforkedIdle,
      ReadyHasStarted, ReadsOfForked, JoinedHaveExited, Processes, Workers,
      ParentPlaces, Starting, Serving, Ended, Goto
<1>1. CASE kill(p)
  BY <1>1 DEF kill
<1>2. CASE deliver(p) /\ Constructed(p) /\ reactor_signal(p)
  BY <1>2 DEF deliver, Constructed, reactor_signal
<1>3. CASE deliver(p) /\ ~Constructed(p) /\ signal_handler(p)
  BY <1>3 DEF deliver, Constructed, signal_handler, Logging
<1>4. CASE deliver(p) /\ ~Constructed(p) /\ on_signal
  BY <1>4 DEF deliver, Constructed, on_signal
<1> QED
  BY <1>1, <1>2, <1>3, <1>4 DEF deliver

(* The inductive invariant holds for any number of workers.                 *)
THEOREM SupervisorInvHolds == Spec => []SupervisorInv
<1>1. SupervisorInv /\ [Next]_vars => SupervisorInv'
  <2> SUFFICES ASSUME SupervisorInv, [Next]_vars PROVE SupervisorInv'
    OBVIOUS
  <2>1. CASE UNCHANGED vars
    BY <2>1 DEF vars, SupervisorInv, TypeOK, PlacesOK, StartedInTurn, UnforkedIdle,
      ReadyHasStarted, ReadsOfForked, JoinedHaveExited
  <2>2. CASE Next
    BY <2>2, ParentKeepsInv, WorkerKeepsInv, SignalKeepsInv DEF Next
  <2> QED
    BY <2>1, <2>2
<1> QED
  BY InitInv, <1>1, PTL DEF Spec

(* Every variable keeps its type.                                           *)
THEOREM TypeCorrect == Spec => []TypeOK
<1>1. SupervisorInv => TypeOK
  BY DEF SupervisorInv
<1> QED
  BY SupervisorInvHolds, <1>1, PTL

(* The HTTP workers come up one at a time and the parent supervises only    *)
(* listening workers, whatever signals arrive and whichever workers die.    *)
THEOREM StartedInTurnHolds == Spec => []StartedInTurn
<1>1. SupervisorInv => StartedInTurn
  BY DEF SupervisorInv
<1> QED
  BY SupervisorInvHolds, <1>1, PTL

(* The binary server's parent never ends before the workers it forked.      *)
THEOREM BinaryJoinsAllHolds == Spec => []BinaryJoinsAll
<1>1. SupervisorInv => BinaryJoinsAll
  BY SupervisorAssumption DEF SupervisorInv, TypeOK, UnforkedIdle, JoinedHaveExited,
    BinaryJoinsAll, Workers
<1> QED
  BY SupervisorInvHolds, <1>1, PTL
=============================================================================
