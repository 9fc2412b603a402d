------------------------------- MODULE Reactor -------------------------------
(****************************************************************************)
(* The event loop of a worker: third_party/libreactor/src/reactor/core.c    *)
(* (slot pool, fd table, submission of one-shot polls, completion loop) and *)
(* descriptor.c (dispatch of a completion, re-arm, open, mask, close), over *)
(* an io_uring instance of the kernel.                                      *)
(*                                                                          *)
(* The program is one thread: it is inside its set-up code, inside          *)
(* reactor_loop_once waiting for the kernel or reaping completions, or      *)
(* inside a callback of a consumer, which may open, re-mask and close any   *)
(* descriptor.  The kernel and the peers of the files run beside it.        *)
(*                                                                          *)
(* A descriptor object is opened at most once in its life, as the servers   *)
(* do (one object per connection, listener or timer), so a descriptor also  *)
(* names the kernel file it was opened on.  Its number in the fd table is   *)
(* reused freely.                                                           *)
(****************************************************************************)
EXTENDS Integers, Sequences, Bags, FiniteSets, Functions

CONSTANTS
  Descs,        \* descriptor objects, each with the file it is opened on
  Fds,          \* file descriptor numbers
  Tabled,       \* those the fd table has a place for (below REACTOR_MAX_FDS)
  NSlots,       \* reactor_core.slot_count (REACTOR_RING_ENTRIES)
  SqSize,       \* entries of the submission queue (REACTOR_RING_ENTRIES)
  Batch,        \* REACTOR_CQE_BATCH
  Masks,        \* the interest masks the consumers use
  OpenMasks,    \* those they open a descriptor with
  Remasked,     \* descriptors whose mask is changed after they are opened
  ForeignMask,  \* also by others than the descriptor's own callback
  PeerBits,     \* the readiness the peers of the files may raise
  Failing,      \* whether io_uring_submit may fail or take less than all
  NULL

Slots == 0 .. NSlots - 1

(* The bits of a poll mask that descriptor_callback tells apart.  "OTHER"   *)
(* stands for POLLERR, POLLHUP and POLLRDHUP, which every poll asks for.    *)
Bits == {"POLLIN", "POLLOUT", "OTHER"}
Interests == SUBSET {"POLLIN", "POLLOUT"}

ASSUME ReactorAssumption ==
  /\ NSlots \in Nat \ {0} /\ SqSize \in Nat \ {0} /\ Batch \in Nat \ {0}
  /\ Masks \subseteq Interests /\ OpenMasks \subseteq Masks /\ Remasked \subseteq Descs
  /\ Tabled \subseteq Fds
  /\ ForeignMask \in BOOLEAN /\ PeerBits \subseteq Bits /\ Failing \in BOOLEAN
  /\ NULL \notin Descs /\ NULL \notin Fds /\ NULL \notin Int

(* A negative cqe->res, read as a uint32_t mask by descriptor_callback: the *)
(* bits of -ECANCELED (0xffffff83) and of -EBADF (0xfffffff7).              *)
ECANCELED == {"POLLIN", "OTHER"}
EBADF     == {"POLLIN", "POLLOUT", "OTHER"}

VARIABLES
  slots,           \* the pool: [handler, events, in_flight] per slot
  fds,             \* fd -> slot, NULL if free
  next_free_slot,  \* where reactor_slot_acquire starts
  descriptors,     \* reactor_core.descriptors
  desc,            \* [fd, mask] of each descriptor object
  unopened,        \* descriptor objects not opened yet
  sq,              \* the submission queue
  flush,           \* entries of sq handed over by the system call under way
  armed,           \* kernel: the bag of polls waiting for readiness
  ready,           \* kernel: readiness of each file
  cq,              \* the completion queue
  pc,              \* where the program is
  cur,             \* the callback under way: its descriptor and the events left
  count,           \* completions reaped in this iteration, up to Batch
  lost,            \* descriptors whose last poll found no place in sq
  found            \* the polls each slot still had when it was last acquired

core    == <<slots, fds, next_free_slot, descriptors>>
kernel  == <<armed, ready, cq>>
loop    == <<pc, cur, count>>
history == <<lost, found>>     \* no guard reads it, the properties do
vars    == <<core, desc, unopened, sq, flush, kernel, loop, history>>

(* A queue entry or poll remembers, beside what the kernel is given, the    *)
(* descriptor it was submitted for ("owner"): no guard reads it, the        *)
(* properties do.                                                           *)
AddEntry(s, d, fd, events) ==
  [op |-> "add", slot |-> s, owner |-> d, fd |-> fd, events |-> events]
RemoveEntry(s) ==
  [op |-> "remove", slot |-> s, owner |-> NULL, fd |-> NULL, events |-> {}]
Completion(s, d, res) == [slot |-> s, owner |-> d, res |-> res]

Entries ==
       [op : {"add"}, slot : Slots, owner : Descs, fd : Fds, events : Interests]
  \cup [op : {"remove"}, slot : Slots, owner : {NULL}, fd : {NULL}, events : {{}}]
Polls == [slot : Slots, owner : Descs, file : Descs, events : Interests]
Completions ==
       [slot : Slots, owner : Descs, res : SUBSET Bits]
  \cup [slot : {NULL}, owner : {NULL}, res : {{}}]

PollSlots == [handler : Descs \cup {NULL}, events : Interests, in_flight : Nat]

Idle == [desc |-> NULL, owner |-> NULL, evs |-> <<>>]
Events == {"READ", "WRITE", "CLOSE"}

IsOpen(d) == desc[d].fd # NULL

Init ==
  /\ slots = [s \in Slots |-> [handler |-> NULL, events |-> {}, in_flight |-> 0]]
  /\ fds = [fd \in Fds |-> NULL]
  /\ next_free_slot = 0
  /\ descriptors = 0
  /\ desc = [d \in Descs |-> [fd |-> NULL, mask |-> {}]]
  /\ unopened = Descs
  /\ sq = <<>> /\ flush = 0
  /\ armed = EmptyBag
  /\ ready = [d \in Descs |-> {}]
  /\ cq = <<>>
  /\ pc = "setup" /\ cur = Idle /\ count = 0
  /\ lost = {} /\ found = [s \in Slots |-> 0]

----------------------------------------------------------------------------
(* core.c: the slot pool and the queueing of polls                          *)

InUse(s) == slots[s].handler # NULL

(* Mutant of reactor_slot_acquire: the hint is taken without a look.        *)
AcquireHint(s) == s = next_free_slot % NSlots

(* The slot reactor_slot_acquire returns: the first free one from the hint  *)
(* on, or else the first free one from 0.                                   *)
reactor_slot_acquire(s) ==
  /\ ~InUse(s)
  /\ \/ s >= next_free_slot /\ \A t \in next_free_slot .. s - 1 : InUse(t)
     \/ /\ s < next_free_slot
        /\ \A t \in 0 .. s - 1 : InUse(t)
        /\ \A t \in next_free_slot .. NSlots - 1 : InUse(t)

(* The polls with the user data of slot s, of any owner; the copies of a    *)
(* waiting poll are numbered to be counted.                                 *)
Outstanding(s) ==
  LET queued   == {i \in 1 .. Len(sq) : sq[i].op = "add" /\ sq[i].slot = s}
      answered == {i \in 1 .. Len(cq) : cq[i].slot = s}
      waiting  == {p \in BagToSet(armed) : p.slot = s}
      copies   == UNION {{p} \X (1 .. armed[p]) : p \in waiting}
  IN Cardinality(queued) + Cardinality(answered) + Cardinality(copies)

(* What one system call may take of n queued entries, at least of which.    *)
Taken(least, n) == IF Failing THEN least .. n ELSE {n}

Full == Len(sq) = SqSize

(* Mutant of reactor_poll_submit_fd: a lost poll is counted as well.        *)
SubmitCountsLost(s, slot, d, fd, submits) ==
  LET gone == Failing /\ Full IN
  /\ slots' = [slots EXCEPT ![s] = [slot EXCEPT !.in_flight = @ + 1]]
  /\ \/ /\ sq' = Append(sq, AddEntry(s, d, fd, slot.events))
        /\ flush' = IF submits THEN Len(sq) + 1 ELSE IF Full THEN SqSize ELSE 0
        /\ lost' = lost \ {d}
     \/ gone /\ flush' = 0 /\ lost' = lost \cup {d} /\ UNCHANGED sq

(* A poll is queued and counted in the slot, whose new contents are "slot"; *)
(* a full queue is flushed first.  If nothing of it is taken there is still *)
(* no entry, and the poll is lost.  "submits": whether the caller, or the   *)
(* loop it returns to, goes on to submit what is queued.                    *)
reactor_poll_submit_fd(s, slot, d, fd, submits) ==
  \/ /\ sq' = Append(sq, AddEntry(s, d, fd, slot.events))
     /\ slots' = [slots EXCEPT ![s] = [slot EXCEPT !.in_flight = @ + 1]]
     /\ flush' \in CASE submits         -> Taken(IF Full THEN 1 ELSE 0, Len(sq) + 1)
                     [] ~submits /\ Full -> Taken(1, SqSize)
                     [] OTHER           -> {0}
     /\ lost' = lost \ {d}
  \/ /\ Failing /\ Full
     /\ slots' = [slots EXCEPT ![s] = slot]
     /\ flush' \in IF submits THEN 0 .. Len(sq) ELSE {0}
     /\ lost' = lost \cup {d}
     /\ UNCHANGED sq

reactor_add(d, fd, events) ==
  \/ /\ fd \notin Tabled \/ \A s \in Slots : InUse(s)
     /\ UNCHANGED <<core, sq, flush, history>>
  \/ \E s \in Slots :
       /\ fd \in Tabled /\ reactor_slot_acquire(s)
       /\ next_free_slot' = s + 1
       /\ fds' = [fds EXCEPT ![fd] = s]
       /\ descriptors' = descriptors + 1
       /\ found' = [found EXCEPT ![s] = Outstanding(s)]
       /\ reactor_poll_submit_fd(s, [handler |-> d, events |-> events, in_flight |-> 0],
                                 d, fd, TRUE)

reactor_modify(d, fd, events) ==
  LET s == fds[fd] IN
  \/ s = NULL /\ reactor_add(d, fd, events)
  \/ /\ s # NULL /\ slots[s].events = events
     /\ UNCHANGED <<core, sq, flush, history>>
  \/ /\ s # NULL /\ slots[s].events # events /\ slots[s].in_flight > 0
     /\ slots' = [slots EXCEPT ![s].events = events]
     /\ UNCHANGED <<fds, next_free_slot, descriptors, sq, flush, history>>
  \/ /\ s # NULL /\ slots[s].events # events /\ slots[s].in_flight = 0
     /\ reactor_poll_submit_fd(s, [slots[s] EXCEPT !.events = events], d, fd, FALSE)
     /\ UNCHANGED <<fds, next_free_slot, descriptors, found>>

(* Mutants of reactor_delete: it gives up when the submission queue is full *)
(* and leaves the slot taken; it cancels nothing.                           *)
DeleteGivesUp(fd) ==
  LET s == fds[fd]
      done == s # NULL /\ Len(sq) < SqSize
  IN /\ fds' = [fds EXCEPT ![fd] = NULL]
     /\ sq' = IF done THEN Append(sq, RemoveEntry(s)) ELSE sq
     /\ slots' = IF done THEN [slots EXCEPT ![s].handler = NULL] ELSE slots
     /\ descriptors' = IF done THEN descriptors - 1 ELSE descriptors
     /\ UNCHANGED next_free_slot
DeleteWithoutCancel(fd) ==
  LET s == fds[fd]
  IN /\ fds' = [fds EXCEPT ![fd] = NULL]
     /\ slots' = IF s # NULL THEN [slots EXCEPT ![s].handler = NULL] ELSE slots
     /\ descriptors' = IF s # NULL THEN descriptors - 1 ELSE descriptors
     /\ UNCHANGED <<next_free_slot, sq>>

(* The cancellation is dropped when the submission queue is full.           *)
reactor_delete(fd) ==
  \/ fds[fd] = NULL /\ UNCHANGED <<core, sq>>
  \/ /\ fds[fd] # NULL
     /\ fds' = [fds EXCEPT ![fd] = NULL]
     /\ sq' = IF Len(sq) < SqSize THEN Append(sq, RemoveEntry(fds[fd])) ELSE sq
     /\ slots' = [slots EXCEPT ![fds[fd]].handler = NULL]
     /\ descriptors' = IF descriptors > 0 THEN descriptors - 1 ELSE 0
     /\ UNCHANGED next_free_slot

----------------------------------------------------------------------------
(* descriptor.c: what set-up code and callbacks call                        *)

InConsumer ==
  /\ flush = 0
  /\ \/ pc = "setup"
     \/ pc = "callback" /\ cur.evs # <<>>

FreeFd(fd) == \A d \in Descs : desc[d].fd # fd

descriptor_open(d, fd, mask) ==
  /\ InConsumer
  /\ d \in unopened /\ FreeFd(fd)
  /\ unopened' = unopened \ {d}
  /\ desc' = [desc EXCEPT ![d] = [fd |-> fd, mask |-> mask]]
  /\ reactor_add(d, fd, mask)
  /\ UNCHANGED <<kernel, loop>>

descriptor_mask(d, mask) ==
  /\ InConsumer
  /\ d \in Remasked /\ IsOpen(d) /\ desc[d].mask # mask
  /\ ForeignMask \/ d = cur.desc
  /\ desc' = [desc EXCEPT ![d].mask = mask]
  /\ reactor_modify(d, desc[d].fd, mask)
  /\ UNCHANGED <<unopened, kernel, loop>>

descriptor_close(d) ==
  /\ InConsumer
  /\ IsOpen(d)
  /\ reactor_delete(desc[d].fd)
  /\ desc' = [desc EXCEPT ![d] = [fd |-> NULL, mask |-> {}]]
  /\ ready' = [ready EXCEPT ![d] = {}]
  /\ lost' = lost \ {d}
  /\ UNCHANGED <<unopened, flush, armed, cq, loop, found>>

(* The consumer reads its file empty, or fills its send buffer.             *)
consume(b) ==
  /\ InConsumer /\ pc = "callback" /\ IsOpen(cur.desc)
  /\ b \in ready[cur.desc] \ {"OTHER"}
  /\ ready' = [ready EXCEPT ![cur.desc] = @ \ {b}]
  /\ UNCHANGED <<core, desc, unopened, sq, flush, armed, cq, loop, history>>

----------------------------------------------------------------------------
(* The loop                                                                 *)

enter_loop ==
  /\ pc = "setup" /\ flush = 0
  /\ pc' = "wait" /\ flush' \in Taken(0, Len(sq))
  /\ UNCHANGED <<core, desc, unopened, sq, kernel, cur, count, history>>

(* io_uring_submit_and_wait returns with a completion, or without one when  *)
(* it fails.                                                                *)
wake ==
  /\ pc = "wait" /\ flush = 0
  /\ cq # <<>> \/ Failing
  /\ pc' = "reap"
  /\ UNCHANGED <<core, desc, unopened, sq, flush, kernel, cur, count, history>>

(* It fails, reactor_loop_once returns at once and the loop calls it again. *)
wait_again ==
  /\ Failing /\ pc = "wait" /\ flush = 0
  /\ flush' \in 1 .. Len(sq)
  /\ UNCHANGED <<core, desc, unopened, sq, kernel, loop, history>>

Counted == IF count < Batch THEN count + 1 ELSE Batch

(* Mutants of Decode: one event per completion.                             *)
DecodeReadOnly(res) ==
  CASE "POLLIN" \in res -> <<"READ">>
    [] "POLLOUT" \in res -> <<"WRITE">>
    [] OTHER -> <<"CLOSE">>
DecodeWriteOnly(res) ==
  CASE "POLLOUT" \in res -> <<"WRITE">>
    [] "POLLIN" \in res -> <<"READ">>
    [] OTHER -> <<"CLOSE">>

(* The events descriptor_callback dispatches for a mask, in its order.      *)
Decode(res) ==
     (IF "POLLIN"  \in res THEN <<"READ">>  ELSE <<>>)
  \o (IF "POLLOUT" \in res THEN <<"WRITE">> ELSE <<>>)
  \o (IF "OTHER"   \in res THEN <<"CLOSE">> ELSE <<>>)

(* Mutants of InFlightLess: no guard, reset.                                *)
InFlightUnguarded(s) == [slots EXCEPT ![s].in_flight = @ - 1]
InFlightReset(s) == [slots EXCEPT ![s].in_flight = 0]

InFlightLess(s) ==
  [slots EXCEPT ![s].in_flight = IF @ > 0 THEN @ - 1 ELSE 0]

(* A completion without user data is skipped, one of a slot without handler *)
(* is dropped: neither looks at the batch bound.                            *)
reap_drop ==
  /\ pc = "reap" /\ flush = 0 /\ cq # <<>>
  /\ \/ Head(cq).slot = NULL /\ UNCHANGED slots
     \/ /\ Head(cq).slot # NULL /\ ~InUse(Head(cq).slot)
        /\ slots' = InFlightLess(Head(cq).slot)
  /\ cq' = Tail(cq) /\ count' = Counted
  /\ UNCHANGED <<fds, next_free_slot, descriptors, desc, unopened, sq, flush,
                 armed, ready, pc, cur, history>>

reap_dispatch ==
  /\ pc = "reap" /\ flush = 0 /\ cq # <<>>
  /\ Head(cq).slot # NULL /\ InUse(Head(cq).slot)
  /\ slots' = InFlightLess(Head(cq).slot)
  /\ cur' = [desc |-> slots[Head(cq).slot].handler,
             owner |-> Head(cq).owner,
             evs |-> Decode(Head(cq).res)]
  /\ pc' = "callback"
  /\ cq' = Tail(cq) /\ count' = Counted
  /\ UNCHANGED <<fds, next_free_slot, descriptors, desc, unopened, sq, flush,
                 armed, ready, history>>

reap_done ==
  /\ pc = "reap" /\ flush = 0 /\ cq = <<>>
  /\ pc' = "wait" /\ flush' \in Taken(0, Len(sq)) /\ count' = 0
  /\ UNCHANGED <<core, desc, unopened, sq, kernel, cur, history>>

(* Mutant of handler_return: no re-arm after the last event.                *)
ReturnWithoutRearm ==
  /\ InConsumer /\ pc = "callback"
  /\ cur' = IF Len(cur.evs) = 1 THEN Idle ELSE [cur EXCEPT !.evs = Tail(@)]
  /\ pc' = IF Len(cur.evs) = 1 THEN "reap" ELSE pc
  /\ UNCHANGED <<core, desc, unopened, sq, flush, kernel, count, history>>

(* The consumer's handler returns; descriptor_callback goes on to the next  *)
(* event whatever the handler did to the descriptor.                        *)
handler_return ==
  /\ InConsumer /\ pc = "callback"
  /\ cur' = [cur EXCEPT !.evs = Tail(@)]
  /\ UNCHANGED <<core, desc, unopened, sq, flush, kernel, pc, count, history>>

(* descriptor_callback re-arms an open descriptor through the fd table, and *)
(* the loop goes on, or waits again once the batch is full.                 *)
rearm ==
  /\ pc = "callback" /\ flush = 0 /\ cur.evs = <<>>
  /\ LET fd  == desc[cur.desc].fd
         s   == fds[fd]
         set == fd # NULL /\ s # NULL
     IN \/ /\ ~set
           /\ flush' \in IF count = Batch THEN Taken(0, Len(sq)) ELSE {0}
           /\ UNCHANGED <<slots, sq, lost>>
        \/ set /\ reactor_poll_submit_fd(s, slots[s], cur.desc, fd, count = Batch)
  /\ pc' = IF count = Batch THEN "wait" ELSE "reap"
  /\ count' = IF count = Batch THEN 0 ELSE count
  /\ cur' = Idle
  /\ UNCHANGED <<fds, next_free_slot, descriptors, desc, unopened, kernel, found>>

----------------------------------------------------------------------------
(* The kernel.  What a closed file had ready is forgotten at its close: a   *)
(* poll left on it completes when file_ready makes it ready again.          *)

FileOf(fd) == {d \in Descs : desc[d].fd = fd}
Wanted(events) == events \cup {"OTHER"}

(* A queued poll is issued on the file its fd names now: it fails, completes*)
(* at once, or waits.                                                       *)
issue_add ==
  /\ flush > 0 /\ Head(sq).op = "add"
  /\ LET e == Head(sq) IN
     \/ /\ FileOf(e.fd) = {}
        /\ cq' = Append(cq, Completion(e.slot, e.owner, EBADF))
        /\ UNCHANGED armed
     \/ \E f \in FileOf(e.fd) :
          LET res == ready[f] \cap Wanted(e.events) IN
          \/ /\ res # {}
             /\ cq' = Append(cq, Completion(e.slot, e.owner, res))
             /\ UNCHANGED armed
          \/ /\ res = {}
             /\ armed' = armed (+) SetToBag({[slot |-> e.slot, owner |-> e.owner,
                                              file |-> f, events |-> e.events]})
             /\ UNCHANGED cq
  /\ sq' = Tail(sq) /\ flush' = flush - 1
  /\ UNCHANGED <<core, desc, unopened, ready, loop, history>>

(* A cancellation takes one waiting poll with its user data, if any.        *)
issue_remove ==
  /\ flush > 0 /\ Head(sq).op = "remove"
  /\ LET hits == {p \in BagToSet(armed) : p.slot = Head(sq).slot}
         done == Completion(NULL, NULL, {})
     IN \/ /\ hits = {}
           /\ cq' = Append(cq, done)
           /\ UNCHANGED armed
        \/ \E p \in hits :
             /\ armed' = armed (-) SetToBag({p})
             /\ cq' = cq \o <<Completion(p.slot, p.owner, ECANCELED), done>>
  /\ sq' = Tail(sq) /\ flush' = flush - 1
  /\ UNCHANGED <<core, desc, unopened, ready, loop, history>>

poll_complete(f) ==
  /\ \E p \in BagToSet(armed) :
       /\ p.file = f
       /\ ready[f] \cap Wanted(p.events) # {}
       /\ armed' = armed (-) SetToBag({p})
       /\ cq' = Append(cq, Completion(p.slot, p.owner, ready[f] \cap Wanted(p.events)))
  /\ UNCHANGED <<core, desc, unopened, sq, flush, ready, loop, history>>

(* The peer sends, makes room, or goes away; a closed file is still alive   *)
(* while a poll refers to it.                                               *)
file_ready(d, b) ==
  /\ IsOpen(d) \/ \E p \in BagToSet(armed) : p.file = d
  /\ b \notin ready[d]
  /\ ready' = [ready EXCEPT ![d] = @ \cup {b}]
  /\ UNCHANGED <<core, desc, unopened, sq, flush, armed, cq, loop, history>>

----------------------------------------------------------------------------
Consumer ==
  \/ \E d \in Descs, fd \in Fds, m \in OpenMasks : descriptor_open(d, fd, m)
  \/ \E d \in Descs, m \in Masks : descriptor_mask(d, m)
  \/ \E d \in Descs : descriptor_close(d)
  \/ \E b \in Bits : consume(b)

Loop == enter_loop \/ wake \/ wait_again \/ reap_drop \/ reap_dispatch \/ reap_done
          \/ handler_return \/ rearm

Kernel == issue_add \/ issue_remove \/ \E f \in Descs : poll_complete(f)

Next ==
  \/ Consumer
  \/ Loop
  \/ Kernel
  \/ \E d \in Descs, b \in PeerBits : file_ready(d, b)

Spec == Init /\ [][Next]_vars

(* The thread runs, a callback returns, the kernel does what it was asked   *)
(* and completes a poll whose file stays ready.  Consumers and peers may    *)
(* stop at any time.                                                        *)
Fairness ==
  /\ WF_vars(Loop)
  /\ WF_vars(issue_add \/ issue_remove)
  /\ \A f \in Descs : WF_vars(poll_complete(f))

FairSpec == Spec /\ Fairness
----------------------------------------------------------------------------
(* Properties                                                               *)

StateTypeOK ==
  /\ slots \in [Slots -> PollSlots]
  /\ fds \in [Fds -> Slots \cup {NULL}]
  /\ next_free_slot \in 0 .. NSlots
  /\ descriptors \in Nat
  /\ desc \in [Descs -> [fd : Fds \cup {NULL}, mask : Interests]]
  /\ unopened \subseteq Descs
  /\ sq \in Seq(Entries) /\ flush \in 0 .. Len(sq)
  /\ IsABag(armed) /\ BagToSet(armed) \subseteq Polls
  /\ ready \in [Descs -> SUBSET Bits]
  /\ cq \in Seq(Completions)
  /\ pc \in {"setup", "wait", "reap", "callback"}
  /\ cur \in [desc : Descs \cup {NULL}, owner : Descs \cup {NULL}, evs : Seq(Events)]
  /\ pc = "callback" => cur.desc \in Descs
  /\ count \in 0 .. Batch
  /\ lost \subseteq Descs
TypeOK == StateTypeOK /\ found \in [Slots -> Nat]

Registered == {d \in Descs : IsOpen(d) /\ fds[desc[d].fd] # NULL}
SlotOf(d) == fds[desc[d].fd]

(* The slot pool and the fd table describe the same set of descriptors: each*)
(* registered descriptor owns the slot its fd maps to, each slot in use is  *)
(* reached from the fd of its open owner, and reactor_get_descriptor_count  *)
(* counts them.  So no slot leaks and no two descriptors share one, through *)
(* any sequence of opens, mask changes and closes.                          *)
SlotOwnership ==
  /\ \A d \in Registered : slots[SlotOf(d)].handler = d
  /\ \A s \in Slots : InUse(s) => /\ slots[s].handler \in Registered
                                 /\ SlotOf(slots[s].handler) = s
  /\ descriptors = Cardinality({s \in Slots : InUse(s)})

(* A queued, waiting or completed poll of descriptor d on slot s.           *)
Queued(d, s) ==
  \E e \in Range(sq) : e.op = "add" /\ e.owner = d /\ e.slot = s
Waiting(d, s) ==
  \E p \in BagToSet(armed) : p.owner = d /\ p.slot = s /\ p.file = d
Answered(d, s) == \E c \in Range(cq) : c.owner = d /\ c.slot = s

(* One-shot polls never run out: outside its own callback every registered  *)
(* descriptor has a poll of its own queued, waiting in the kernel or        *)
(* answered, whatever closes, slot reuses, cancellations and full queues    *)
(* happen around it; except when its last poll was lost because the queue   *)
(* was full and the kernel took nothing of it.                              *)
Watched ==
  \A d \in Registered \ lost :
    \/ pc = "callback" /\ cur.desc = d
    \/ Queued(d, SlotOf(d)) \/ Waiting(d, SlotOf(d)) \/ Answered(d, SlotOf(d))

(* What Watched and SlotOwnership need to be inductive: fd numbers are not  *)
(* shared, the fd table points only at the slots of open descriptors, an    *)
(* unopened descriptor has no poll, and a queued poll of an open descriptor *)
(* carries the number the descriptor is open on.                            *)
FdsDistinct ==
  /\ \A d \in Descs, e \in Descs : IsOpen(d) /\ desc[d].fd = desc[e].fd => d = e
  /\ \A d \in unopened : ~IsOpen(d)
FdTable ==
  \A fd \in Fds : fds[fd] # NULL =>
    /\ InUse(fds[fd]) /\ desc[slots[fds[fd]].handler].fd = fd
PollsOpened ==
  /\ \A e \in Range(sq) : e.op = "add" =>
       /\ e.owner \notin unopened
       /\ IsOpen(e.owner) => e.fd = desc[e.owner].fd
  /\ \A p \in BagToSet(armed) : p.owner \notin unopened
  /\ \A c \in Range(cq) : c.owner \notin unopened
  /\ cur.desc \notin unopened
ReactorInv ==
  TypeOK /\ SlotOwnership /\ Watched /\ FdsDistinct /\ FdTable /\ PollsOpened

(* reactor_modify queues no poll when in_flight is positive: the count must *)
(* never promise a poll that does not exist, even after the slot changed    *)
(* hands with completions of its old owner still to come.                   *)
InFlightIsBacked == \A s \in Slots : InUse(s) => slots[s].in_flight <= Outstanding(s)

(* A mask change in a descriptor's own callback queues a poll and the re-arm*)
(* queues another, and the completions of a former owner of the slot are    *)
(* re-armed too; yet a registration never has more than two polls beyond    *)
(* those its slot already had.                                              *)
AtMostTwoPolls == \A s \in Slots : InUse(s) => Outstanding(s) <= found[s] + 2

(* The pool turns a descriptor away only when all its slots are taken: with *)
(* fewer registered descriptors than slots, opening one on a number the     *)
(* table has a place for registers it, whatever was opened and closed       *)
(* before; and it stays registered until it is closed.                      *)
TurnedAwayIfFull ==
  \A d \in Descs : IsOpen(d)' /\ d \notin Registered' =>
    /\ d \notin Registered
    /\ \/ IsOpen(d) \/ desc'[d].fd \notin Tabled
       \/ Cardinality(Registered) >= NSlots
OpenIsRegistered == [][TurnedAwayIfFull]_vars

(* The completion handler drops the completions of a deleted registration:  *)
(* what is dispatched to a descriptor comes from a poll made for it.        *)
NoStaleDispatch == pc = "callback" => cur.owner = cur.desc

Due(d, b) == IsOpen(d) /\ b \in desc[d].mask /\ b \in ready[d]
Dispatching(d, e) ==
  pc = "callback" /\ cur.desc = d /\ cur.evs # <<>> /\ Head(cur.evs) = e

(* The level-triggered contract that the re-arm in descriptor_callback is to*)
(* keep up: while an open descriptor is interested in reading (in writing)  *)
(* and its file stays readable (writable), the event is dispatched sooner or*)
(* later.                                                                   *)
ReadsServed ==
  \A d \in Descs :
    Due(d, "POLLIN") ~> (Dispatching(d, "READ") \/ ~Due(d, "POLLIN"))
WritesServed ==
  \A d \in Descs :
    Due(d, "POLLOUT") ~> (Dispatching(d, "WRITE") \/ ~Due(d, "POLLOUT"))

(* A closed file is not kept alive by a forgotten poll: once a descriptor is*)
(* closed its polls leave the kernel, without any further act of the peer,  *)
(* so that the peer gets to see the connection closed.  Only for descriptors*)
(* whose mask never changed: a mask change queues a second poll, and        *)
(* reactor_delete cancels one.                                              *)
ClosedIsReleased ==
  \A d \in Descs \ Remasked :
    (d \notin unopened /\ ~IsOpen(d))
       ~> (\A p \in BagToSet(armed) : p.file # d)
=============================================================================
