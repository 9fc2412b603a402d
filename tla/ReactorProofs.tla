---------------------------- MODULE ReactorProofs ----------------------------
(* Proofs about the event loop, for any number of descriptors, fd numbers,  *)
(* slots, queue entries and any batch bound, with submissions that fail:    *)
(* slot pool and fd table agree, a registered descriptor is watched unless  *)
(* its poll was lost, a descriptor is turned away only by a full pool; then *)
(* what needs counting: in_flight never promises a poll that does not       *)
(* exist, and polls do not accumulate.                                      *)
EXTENDS Reactor, SequenceTheorems, FiniteSetTheorems, TLAPS

----------------------------------------------------------------------------
(* Lemmas on queues and bags                                                *)

(* What a queue holds after an append.                                      *)
LEMMA RangeAppend ==
  ASSUME NEW S, NEW q \in Seq(S), NEW x \in S
  PROVE  /\ Range(Append(q, x)) = Range(q) \cup {x}
         /\ Append(q, x) \in Seq(S)
         /\ Len(Append(q, x)) = Len(q) + 1
<1>1. /\ Append(q, x) \in Seq(S)
      /\ Len(Append(q, x)) = Len(q) + 1
      /\ \A i \in 1 .. Len(q) : Append(q, x)[i] = q[i]
      /\ Append(q, x)[Len(q) + 1] = x
  BY AppendProperties
<1>2. /\ Range(q) = {q[i] : i \in 1 .. Len(q)}
      /\ Range(Append(q, x)) = {Append(q, x)[i] : i \in 1 .. Len(q) + 1}
  BY <1>1, RangeEquality
<1>3. Len(q) \in Nat
  BY LenProperties
<1> QED
  BY <1>1, <1>2, <1>3

(* What a non-empty queue loses with its head.                              *)
LEMMA RangeTail ==
  ASSUME NEW S, NEW q \in Seq(S), q # <<>>
  PROVE  /\ Range(q) = {Head(q)} \cup Range(Tail(q))
         /\ Head(q) \in S
         /\ Tail(q) \in Seq(S)
         /\ Len(Tail(q)) = Len(q) - 1
<1>1. /\ Tail(q) \in Seq(S) /\ Head(q) \in S
      /\ Len(Tail(q)) = Len(q) - 1
      /\ \A i \in 1 .. Len(Tail(q)) : Tail(q)[i] = q[i + 1]
      /\ Head(q) = q[1]
  BY HeadTailProperties
<1>2. /\ Range(q) = {q[i] : i \in 1 .. Len(q)}
      /\ Range(Tail(q)) = {Tail(q)[i] : i \in 1 .. Len(Tail(q))}
  <2>1. ASSUME NEW r \in Seq(S) PROVE Range(r) = {r[i] : i \in 1 .. Len(r)}
    BY RangeEquality
  <2> QED
    BY <1>1, <2>1
<1>3. Len(q) \in Nat \ {0}
  BY EmptySeq, LenProperties
<1>4. ASSUME NEW i \in 1 .. Len(q), i # 1
      PROVE  i - 1 \in 1 .. Len(Tail(q)) /\ q[i] = Tail(q)[i - 1]
  BY <1>1, <1>3, <1>4
<1>5. ASSUME NEW j \in 1 .. Len(Tail(q))
      PROVE  j + 1 \in 1 .. Len(q) /\ Tail(q)[j] = q[j + 1]
  BY <1>1, <1>3, <1>5
<1>6. 1 \in 1 .. Len(q)
  BY <1>3
<1>7. Range(q) \subseteq {Head(q)} \cup Range(Tail(q))
  <2>1. PICK h, r : h = Head(q) /\ r = Range(Tail(q))
    OBVIOUS
  <2>2. ASSUME NEW i \in 1 .. Len(q) PROVE q[i] = h \/ q[i] \in r
    <3>1. CASE i = 1
      BY <1>1, <2>1, <3>1
    <3>2. CASE i # 1
      <4>1. i - 1 \in 1 .. Len(Tail(q)) /\ q[i] = Tail(q)[i - 1]
        BY <1>4, <3>2
      <4> QED
        BY <1>2, <2>1, <4>1
    <3> QED
      BY <3>1, <3>2
  <2> QED
    BY <1>2, <2>1, <2>2
<1>8. {Head(q)} \cup Range(Tail(q)) \subseteq Range(q)
  BY <1>1, <1>2, <1>5, <1>6
<1> QED
  BY <1>1, <1>7, <1>8

(* What a bag holds after one more copy is put in.                          *)
LEMMA BagPut ==
  ASSUME NEW B, IsABag(B), NEW x
  PROVE  /\ IsABag(B (+) SetToBag({x}))
         /\ BagToSet(B (+) SetToBag({x})) = BagToSet(B) \cup {x}
BY DEF IsABag, SetToBag, BagToSet, (+)

(* What a bag holds after one copy is taken out: nothing new, and everything*)
(* but, perhaps, the element taken.                                         *)
LEMMA BagTake ==
  ASSUME NEW B, IsABag(B), NEW x
  PROVE  /\ IsABag(B (-) SetToBag({x}))
         /\ BagToSet(B (-) SetToBag({x})) \subseteq BagToSet(B)
         /\ BagToSet(B) \ {x} \subseteq BagToSet(B (-) SetToBag({x}))
BY DEF IsABag, SetToBag, BagToSet, (-)

----------------------------------------------------------------------------
(* Type correctness                                                         *)

(* The entries the core queues have the types of queue entries.             *)
LEMMA EntryTypes ==
  ASSUME NEW s \in Slots
  PROVE  /\ RemoveEntry(s) \in Entries
         /\ \A d \in Descs, fd \in Fds, m \in Interests : AddEntry(s, d, fd, m) \in Entries
         /\ \A d \in Descs, r \in SUBSET Bits : Completion(s, d, r) \in Completions
         /\ Completion(NULL, NULL, {}) \in Completions
BY DEF RemoveEntry, AddEntry, Completion, Entries, Completions

(* Counting polls in flight keeps the type of the slots.                    *)
LEMMA InFlightType ==
  ASSUME slots \in [Slots -> PollSlots], NEW s \in Slots
  PROVE  /\ InFlightLess(s) \in [Slots -> PollSlots]
         /\ [slots EXCEPT ![s].in_flight = @ + 1] \in [Slots -> PollSlots]
<1> DEFINE less == IF slots[s].in_flight > 0 THEN slots[s].in_flight - 1 ELSE 0
<1>1. less \in Nat /\ slots[s].in_flight + 1 \in Nat
  BY DEF PollSlots
<1>2. [slots EXCEPT ![s].in_flight = less] \in [Slots -> PollSlots]
  <2> HIDE DEF less
  <2> QED
    BY <1>1 DEF PollSlots
<1>3. ASSUME NEW n \in Nat
      PROVE  [slots EXCEPT ![s].in_flight = n] \in [Slots -> PollSlots]
  BY <1>3 DEF PollSlots
<1> QED
  BY <1>1, <1>2, <1>3 DEF InFlightLess

(* So does changing the fields of one slot.                                 *)
LEMMA SlotFields ==
  ASSUME NEW slot \in PollSlots, NEW m \in Interests
  PROVE  /\ [slot EXCEPT !.events = m] \in PollSlots
         /\ [slot EXCEPT !.in_flight = @ + 1] \in PollSlots
BY DEF PollSlots

(* The part of StateTypeOK about what core.c keeps.                              *)
CoreTypeOK ==
  /\ slots \in [Slots -> PollSlots]
  /\ fds \in [Fds -> Slots \cup {NULL}]
  /\ next_free_slot \in 0 .. NSlots
  /\ descriptors \in Nat
  /\ sq \in Seq(Entries) /\ flush \in 0 .. Len(sq)
  /\ lost \subseteq Descs

(* What queueing a poll does to the queue and the slot: it is there, or it  *)
(* is lost.                                                                 *)
Submitted(s, slot, d, fd) ==
  /\ sq' = Append(sq, AddEntry(s, d, fd, slot.events))
  /\ slots' = [slots EXCEPT ![s] = [slot EXCEPT !.in_flight = @ + 1]]
  /\ lost' = lost \ {d}
NotSubmitted(s, slot, d) ==
  /\ UNCHANGED sq
  /\ slots' = [slots EXCEPT ![s] = slot]
  /\ lost' = lost \cup {d}

LEMMA SubmitSplit ==
  ASSUME NEW s, NEW slot, NEW d, NEW fd, NEW b \in BOOLEAN,
         reactor_poll_submit_fd(s, slot, d, fd, b)
  PROVE  Submitted(s, slot, d, fd) \/ NotSubmitted(s, slot, d)
BY DEF reactor_poll_submit_fd, Submitted, NotSubmitted

(* A system call takes some of what is queued.                              *)
LEMMA TakenType ==
  ASSUME NEW n \in Nat, NEW k \in Nat, k <= n
  PROVE  Taken(k, n) \subseteq 0 .. n
BY ReactorAssumption DEF Taken

(* Queueing a poll keeps the types.                                         *)
LEMMA SubmitTypes ==
  ASSUME StateTypeOK, NEW s \in Slots, NEW slot \in PollSlots, NEW d \in Descs,
         NEW fd \in Fds, NEW b \in BOOLEAN,
         reactor_poll_submit_fd(s, slot, d, fd, b)
  PROVE  /\ slots' \in [Slots -> PollSlots]
         /\ sq' \in Seq(Entries) /\ flush' \in 0 .. Len(sq')
         /\ lost' \subseteq Descs
<1>1. AddEntry(s, d, fd, slot.events) \in Entries /\ sq \in Seq(Entries) /\ Len(sq) \in Nat
  BY EntryTypes, LenProperties DEF StateTypeOK, PollSlots
<1>2. slots \in [Slots -> PollSlots] /\ lost \subseteq Descs
  BY DEF StateTypeOK
<1>3. SqSize \in Nat \ {0}
  BY ReactorAssumption
<1>4. CASE /\ Submitted(s, slot, d, fd)
           /\ flush' \in CASE b          -> Taken(IF Full THEN 1 ELSE 0, Len(sq) + 1)
                           [] ~b /\ Full -> Taken(1, SqSize)
                           [] OTHER      -> {0}
  <2>1. sq' \in Seq(Entries) /\ Len(sq') = Len(sq) + 1
    BY <1>1, <1>4, RangeAppend DEF Submitted
  <2>2. flush' \in 0 .. Len(sq')
    <3>1. CASE b
      <4>1. (IF Full THEN 1 ELSE 0) \in Nat /\ (IF Full THEN 1 ELSE 0) <= Len(sq) + 1
        BY <1>1
      <4>2. Taken(IF Full THEN 1 ELSE 0, Len(sq) + 1) \subseteq 0 .. Len(sq) + 1
        BY <1>1, <4>1, TakenType
      <4> QED
        BY <1>4, <2>1, <3>1, <4>2
    <3>2. CASE ~b /\ Full
      <4>1. Taken(1, SqSize) \subseteq 0 .. SqSize
        BY <1>3, TakenType
      <4> QED
        BY <1>1, <1>4, <2>1, <3>2, <4>1 DEF Full
    <3> QED
      BY <1>1, <1>4, <2>1, <3>1, <3>2
  <2>3. [slot EXCEPT !.in_flight = @ + 1] \in PollSlots
    BY SlotFields, {} \in Interests DEF Interests
  <2> QED
    BY <1>2, <1>4, <2>1, <2>2, <2>3 DEF Submitted
<1>5. CASE NotSubmitted(s, slot, d) /\ flush' \in IF b THEN 0 .. Len(sq) ELSE {0}
  BY <1>1, <1>2, <1>5 DEF NotSubmitted
<1> QED
  BY <1>4, <1>5 DEF reactor_poll_submit_fd, Submitted, NotSubmitted

(* It changes one slot, and of that no more than the caller and the count.  *)
LEMMA SubmitSlots ==
  ASSUME StateTypeOK, NEW s \in Slots, NEW slot \in PollSlots, NEW d, NEW fd,
         NEW b \in BOOLEAN, reactor_poll_submit_fd(s, slot, d, fd, b)
  PROVE  /\ slots'[s].handler = slot.handler /\ slots'[s].events = slot.events
         /\ \A t \in Slots \ {s} : slots'[t] = slots[t]
<1>1. slots \in [Slots -> PollSlots]
  BY DEF StateTypeOK
<1>2. CASE slots' = [slots EXCEPT ![s] = [slot EXCEPT !.in_flight = @ + 1]]
  BY <1>1, <1>2 DEF PollSlots
<1>3. CASE slots' = [slots EXCEPT ![s] = slot]
  BY <1>1, <1>3 DEF PollSlots
<1> QED
  BY <1>2, <1>3 DEF reactor_poll_submit_fd

(* Registering a descriptor keeps the types of what it assigns.             *)
LEMMA AddTypes ==
  ASSUME StateTypeOK, NEW d \in Descs, NEW fd \in Fds, NEW m \in Interests,
         reactor_add(d, fd, m)
  PROVE  CoreTypeOK'
<1>1. CASE UNCHANGED <<core, sq, flush, history>>
  BY <1>1 DEF StateTypeOK, CoreTypeOK, core, history
<1>2. ASSUME NEW s \in Slots,
             next_free_slot' = s + 1,
             fds' = [fds EXCEPT ![fd] = s],
             descriptors' = descriptors + 1,
             reactor_poll_submit_fd(s, [handler |-> d, events |-> m, in_flight |-> 0],
                                    d, fd, TRUE)
      PROVE  CoreTypeOK'
  <2>1. [handler |-> d, events |-> m, in_flight |-> 0] \in PollSlots
    BY DEF PollSlots
  <2>2. /\ slots' \in [Slots -> PollSlots]
        /\ sq' \in Seq(Entries) /\ flush' \in 0 .. Len(sq')
        /\ lost' \subseteq Descs
    BY <1>2, <2>1, SubmitTypes
  <2>3. next_free_slot' \in 0 .. NSlots
    BY <1>2, ReactorAssumption DEF Slots
  <2>4. fds' \in [Fds -> Slots \cup {NULL}] /\ descriptors' \in Nat
    BY <1>2 DEF StateTypeOK
  <2> QED
    BY <2>2, <2>3, <2>4 DEF CoreTypeOK
<1> QED
  BY <1>1, <1>2 DEF reactor_add

(* Changing the interest of a descriptor does.                              *)
LEMMA ModifyTypes ==
  ASSUME StateTypeOK, NEW d \in Descs, NEW fd \in Fds, NEW m \in Interests,
         reactor_modify(d, fd, m)
  PROVE  CoreTypeOK'
<1>1. CASE reactor_add(d, fd, m)
  BY <1>1, AddTypes
<1>2. CASE UNCHANGED <<core, sq, flush, history>>
  BY <1>2 DEF StateTypeOK, CoreTypeOK, core, history
<1>3. CASE /\ fds[fd] # NULL
           /\ slots' = [slots EXCEPT ![fds[fd]].events = m]
           /\ UNCHANGED <<fds, next_free_slot, descriptors, sq, flush, history>>
  BY <1>3 DEF StateTypeOK, CoreTypeOK, PollSlots, history
<1>4. CASE /\ fds[fd] # NULL
           /\ reactor_poll_submit_fd(fds[fd], [slots[fds[fd]] EXCEPT !.events = m],
                                     d, fd, FALSE)
           /\ UNCHANGED <<fds, next_free_slot, descriptors, found>>
  <2>1. fds[fd] \in Slots
    BY <1>4 DEF StateTypeOK
  <2>2. [slots[fds[fd]] EXCEPT !.events = m] \in PollSlots
    <3>1. slots[fds[fd]] \in PollSlots
      BY <2>1 DEF StateTypeOK
    <3> QED
      BY <3>1, SlotFields
  <2>3. /\ slots' \in [Slots -> PollSlots]
        /\ sq' \in Seq(Entries) /\ flush' \in 0 .. Len(sq')
        /\ lost' \subseteq Descs
    BY <1>4, <2>1, <2>2, SubmitTypes
  <2> QED
    BY <1>4, <2>3 DEF StateTypeOK, CoreTypeOK
<1> QED
  BY <1>1, <1>2, <1>3, <1>4 DEF reactor_modify

(* Dropping a registration does.                                            *)
LEMMA DeleteTypes ==
  ASSUME StateTypeOK, NEW fd \in Fds, reactor_delete(fd), flush = 0, flush' = flush,
         lost' \subseteq lost
  PROVE  CoreTypeOK'
<1>1. CASE UNCHANGED <<core, sq>>
  BY <1>1 DEF StateTypeOK, CoreTypeOK, core
<1>2. CASE fds[fd] # NULL
  <2>1. fds[fd] \in Slots /\ sq \in Seq(Entries)
    BY <1>2 DEF StateTypeOK
  <2>2. Append(sq, RemoveEntry(fds[fd])) \in Seq(Entries)
    BY <2>1, EntryTypes, RangeAppend
  <2>3. sq' \in Seq(Entries) /\ Len(sq') \in Nat
    BY <1>2, <2>1, <2>2, LenProperties DEF reactor_delete
  <2> QED
    <3>0. /\ slots' = [slots EXCEPT ![fds[fd]].handler = NULL]
          /\ fds' = [fds EXCEPT ![fd] = NULL]
          /\ descriptors' = IF descriptors > 0 THEN descriptors - 1 ELSE 0
      BY <1>2 DEF reactor_delete
    <3>1. slots' \in [Slots -> PollSlots]
      BY <2>1, <3>0 DEF StateTypeOK, PollSlots
    <3>2. fds' \in [Fds -> Slots \cup {NULL}] /\ descriptors' \in Nat
      BY <3>0 DEF StateTypeOK
    <3> QED
      BY <1>2, <2>3, <3>1, <3>2 DEF reactor_delete, StateTypeOK, CoreTypeOK
<1> QED
  BY <1>1, <1>2 DEF reactor_delete

(* A mask decodes to a sequence of descriptor events.                       *)
LEMMA DecodeType == ASSUME NEW r \in SUBSET Bits PROVE Decode(r) \in Seq(Events)
<1> DEFINE in == IF "POLLIN" \in r THEN <<"READ">> ELSE <<>>
           out == IF "POLLOUT" \in r THEN <<"WRITE">> ELSE <<>>
           other == IF "OTHER" \in r THEN <<"CLOSE">> ELSE <<>>
<1>0. /\ <<>> \in Seq(Events)
      /\ <<"READ">> \in Seq(Events)
      /\ <<"WRITE">> \in Seq(Events)
      /\ <<"CLOSE">> \in Seq(Events)
  BY DEF Events
<1>1. in \in Seq(Events) /\ out \in Seq(Events) /\ other \in Seq(Events)
  BY <1>0
<1> HIDE DEF in, out, other
<1>2. in \o out \in Seq(Events)
  BY <1>1, ConcatProperties
<1>3. (in \o out) \o other \in Seq(Events)
  BY <1>1, <1>2, ConcatProperties
<1> QED
  BY <1>3 DEF Decode, in, out, other

(* Every step keeps StateTypeOK.                                                 *)
LEMMA TypeStep == StateTypeOK /\ [Next]_vars => StateTypeOK'
<1> SUFFICES ASSUME StateTypeOK, [Next]_vars PROVE StateTypeOK'
  OBVIOUS
<1> USE ReactorAssumption
<1>1. ASSUME NEW d \in Descs, NEW fd \in Fds, NEW m \in OpenMasks, descriptor_open(d, fd, m)
      PROVE  StateTypeOK'
  <2>1. CoreTypeOK'
    BY <1>1, AddTypes DEF descriptor_open
  <2> QED
    BY <1>1, <2>1 DEF descriptor_open, StateTypeOK, CoreTypeOK, kernel, loop
<1>2. ASSUME NEW d \in Descs, NEW m \in Masks, descriptor_mask(d, m)
      PROVE  StateTypeOK'
  <2>1. desc[d].fd \in Fds
    BY <1>2 DEF descriptor_mask, IsOpen, StateTypeOK
  <2>2. CoreTypeOK'
    BY <1>2, <2>1, ModifyTypes DEF descriptor_mask
  <2> QED
    <3>1. desc' \in [Descs -> [fd : Fds \cup {NULL}, mask : Interests]]
      BY <1>2 DEF descriptor_mask, StateTypeOK
    <3>2. UNCHANGED <<unopened, kernel, loop>>
      BY <1>2 DEF descriptor_mask
    <3> QED
      BY <2>2, <3>1, <3>2 DEF StateTypeOK, CoreTypeOK, kernel, loop
<1>3. ASSUME NEW d \in Descs, descriptor_close(d)
      PROVE  StateTypeOK'
  <2>1. desc[d].fd \in Fds
    BY <1>3 DEF descriptor_close, IsOpen, StateTypeOK
  <2>2. CoreTypeOK'
    BY <1>3, <2>1, DeleteTypes DEF descriptor_close, InConsumer
  <2> QED
    BY <1>3, <2>2 DEF descriptor_close, StateTypeOK, CoreTypeOK, Interests, loop
<1>4. ASSUME NEW b \in Bits, consume(b)
      PROVE  StateTypeOK'
  BY <1>4 DEF consume, StateTypeOK, core, loop, history
<1>0. Len(sq) \in Nat /\ Taken(0, Len(sq)) \subseteq 0 .. Len(sq)
  BY TakenType, LenProperties DEF StateTypeOK
<1>5. CASE enter_loop
  BY <1>0, <1>5 DEF enter_loop, StateTypeOK, core, kernel, history
<1>6. CASE wake
  BY <1>6 DEF wake, StateTypeOK, core, kernel, history
<1>17. CASE wait_again
  BY <1>0, <1>17 DEF wait_again, StateTypeOK, core, kernel, loop, history
<1>7. CASE reap_drop
  <2>1. Tail(cq) \in Seq(Completions) /\ Head(cq) \in Completions
    BY <1>7, RangeTail DEF reap_drop, StateTypeOK
  <2>2. slots' \in [Slots -> PollSlots]
    <3>1. CASE UNCHANGED slots
      BY <3>1 DEF StateTypeOK
    <3>2. CASE Head(cq).slot # NULL /\ slots' = InFlightLess(Head(cq).slot)
      <4>1. Head(cq).slot \in Slots
        BY <2>1, <3>2 DEF Completions
      <4> QED
        BY <3>2, <4>1, InFlightType DEF StateTypeOK
    <3> QED
      BY <1>7, <3>1, <3>2 DEF reap_drop
  <2> QED
    BY <1>7, <2>1, <2>2 DEF reap_drop, StateTypeOK, Counted, history
<1>8. CASE reap_dispatch
  <2>1. Tail(cq) \in Seq(Completions) /\ Head(cq) \in Completions
    BY <1>8, RangeTail DEF reap_dispatch, StateTypeOK
  <2>2. /\ Head(cq).slot \in Slots /\ Head(cq).owner \in Descs
        /\ Head(cq).res \in SUBSET Bits
    BY <1>8, <2>1 DEF reap_dispatch, Completions
  <2>3. slots' \in [Slots -> PollSlots]
    BY <1>8, <2>2, InFlightType DEF reap_dispatch, StateTypeOK
  <2>4. /\ cur' \in [desc : Descs \cup {NULL}, owner : Descs \cup {NULL}, evs : Seq(Events)]
        /\ cur'.desc \in Descs
    BY <1>8, <2>2, DecodeType DEF reap_dispatch, StateTypeOK, InUse, PollSlots
  <2> QED
    BY <1>8, <2>1, <2>3, <2>4 DEF reap_dispatch, StateTypeOK, Counted, history
<1>9. CASE reap_done
  BY <1>0, <1>9 DEF reap_done, StateTypeOK, core, kernel, history
<1>10. CASE handler_return
  <2>1. Tail(cur.evs) \in Seq(Events)
    BY <1>10, RangeTail DEF handler_return, InConsumer, StateTypeOK
  <2> QED
    BY <1>10, <2>1 DEF handler_return, StateTypeOK, core, kernel, history
<1>11. CASE rearm
  <2>1. CASE /\ UNCHANGED <<slots, sq, lost>>
             /\ flush' \in IF count = Batch THEN Taken(0, Len(sq)) ELSE {0}
    <3>1. flush' \in 0 .. Len(sq')
      BY <1>0, <2>1
    <3>2. Idle \in [desc : Descs \cup {NULL}, owner : Descs \cup {NULL}, evs : Seq(Events)]
      BY DEF Idle
    <3> QED
      BY <1>11, <2>1, <3>1, <3>2 DEF rearm, StateTypeOK, kernel
  <2>2. ASSUME NEW fd, NEW s, fd = desc[cur.desc].fd, s = fds[fd], fd # NULL, s # NULL,
               reactor_poll_submit_fd(s, slots[s], cur.desc, fd, count = Batch)
        PROVE  StateTypeOK'
    <3>1. cur.desc \in Descs /\ fd \in Fds /\ s \in Slots
      BY <1>11, <2>2 DEF rearm, StateTypeOK
    <3>2. slots[s] \in PollSlots /\ (count = Batch) \in BOOLEAN
      BY <3>1 DEF StateTypeOK
    <3>3. /\ slots' \in [Slots -> PollSlots]
          /\ sq' \in Seq(Entries) /\ flush' \in 0 .. Len(sq')
          /\ lost' \subseteq Descs
      BY <2>2, <3>1, <3>2, SubmitTypes
    <3>6. Idle \in [desc : Descs \cup {NULL}, owner : Descs \cup {NULL}, evs : Seq(Events)]
      BY DEF Idle
    <3> QED
      <4>1. /\ pc' \in {"setup", "wait", "reap", "callback"} /\ pc' # "callback"
            /\ count' \in 0 .. Batch
        BY <1>11 DEF rearm, StateTypeOK
      <4>2. /\ cur' = Idle
            /\ UNCHANGED <<fds, next_free_slot, descriptors, desc, unopened, kernel>>
        BY <1>11 DEF rearm
      <4> QED
        BY <3>3, <3>6, <4>1, <4>2 DEF StateTypeOK, kernel
  <2> QED
    BY <1>11, <2>1, <2>2 DEF rearm
<1>12. CASE issue_add
  <2>1. PICK e : e = Head(sq)
    OBVIOUS
  <2>2. /\ e \in Entries /\ e.op = "add"
        /\ Tail(sq) \in Seq(Entries) /\ flush - 1 \in 0 .. Len(Tail(sq))
    <3>1. sq # <<>> /\ flush \in 1 .. Len(sq)
      BY <1>12 DEF issue_add, StateTypeOK
    <3> QED
      BY <1>12, <2>1, <3>1, RangeTail DEF issue_add, StateTypeOK
  <2>3. e.slot \in Slots /\ e.owner \in Descs /\ e.events \in Interests
    BY <2>2 DEF Entries
  <2>4. ASSUME NEW r \in SUBSET Bits
        PROVE  Append(cq, Completion(e.slot, e.owner, r)) \in Seq(Completions)
    BY <2>3, EntryTypes, RangeAppend DEF StateTypeOK
  <2>5. CASE cq' = Append(cq, Completion(e.slot, e.owner, EBADF)) /\ UNCHANGED armed
    BY <1>12, <2>2, <2>4, <2>5 DEF issue_add, EBADF, Bits, StateTypeOK, core, loop, history
  <2>6. ASSUME NEW f \in FileOf(e.fd),
               cq' = Append(cq, Completion(e.slot, e.owner, ready[f] \cap Wanted(e.events))),
               UNCHANGED armed
        PROVE  StateTypeOK'
    <3>1. ready[f] \cap Wanted(e.events) \in SUBSET Bits
      BY <2>6 DEF FileOf, StateTypeOK
    <3> QED
      BY <1>12, <2>2, <2>4, <2>6, <3>1 DEF issue_add, StateTypeOK, core, loop, history
  <2>7. ASSUME NEW f \in FileOf(e.fd),
               armed' = armed (+) SetToBag({[slot |-> e.slot, owner |-> e.owner,
                                             file |-> f, events |-> e.events]}),
               UNCHANGED cq
        PROVE  StateTypeOK'
    <3>0. PICK p : p = [slot |-> e.slot, owner |-> e.owner, file |-> f, events |-> e.events]
      OBVIOUS
    <3>1. p \in Polls
      BY <2>3, <3>0 DEF FileOf, Polls
    <3>2. armed' = armed (+) SetToBag({p})
      BY <2>7, <3>0
    <3>3. IsABag(armed') /\ BagToSet(armed') \subseteq Polls
      <4>1. IsABag(armed) /\ BagToSet(armed) \subseteq Polls
        BY DEF StateTypeOK
      <4>2. IsABag(armed') /\ BagToSet(armed') = BagToSet(armed) \cup {p}
        BY <3>2, <4>1, BagPut
      <4> QED
        BY <3>1, <4>1, <4>2
    <3> QED
      BY <1>12, <2>2, <2>7, <3>3 DEF issue_add, StateTypeOK, core, loop, history
  <2> QED
    BY <1>12, <2>1, <2>5, <2>6, <2>7 DEF issue_add
<1>13. CASE issue_remove
  <2>1. Tail(sq) \in Seq(Entries) /\ flush - 1 \in 0 .. Len(Tail(sq))
    <3>1. sq # <<>> /\ flush \in 1 .. Len(sq)
      BY <1>13 DEF issue_remove, StateTypeOK
    <3> QED
      BY <1>13, <3>1, RangeTail DEF issue_remove, StateTypeOK
  <2>2. CASE cq' = Append(cq, Completion(NULL, NULL, {})) /\ UNCHANGED armed
    <3>1. cq' \in Seq(Completions)
      BY <2>2, EntryTypes, RangeAppend, ReactorAssumption DEF StateTypeOK, Slots, Completions, Completion
    <3> QED
      BY <1>13, <2>1, <2>2, <3>1 DEF issue_remove, StateTypeOK, core, loop, history
  <2>3. ASSUME NEW p \in BagToSet(armed),
               armed' = armed (-) SetToBag({p}),
               cq' = cq \o <<Completion(p.slot, p.owner, ECANCELED),
                             Completion(NULL, NULL, {})>>
        PROVE  StateTypeOK'
    <3>1. p \in Polls
      BY <2>3 DEF StateTypeOK
    <3>2. /\ Completion(p.slot, p.owner, ECANCELED) \in Completions
          /\ Completion(NULL, NULL, {}) \in Completions
      BY <3>1 DEF Polls, Completion, Completions, ECANCELED, Bits
    <3>3. <<Completion(p.slot, p.owner, ECANCELED), Completion(NULL, NULL, {})>>
            \in Seq(Completions)
      BY <3>2
    <3>4. cq' \in Seq(Completions)
      BY <2>3, <3>3, ConcatProperties DEF StateTypeOK
    <3>5. IsABag(armed') /\ BagToSet(armed') \subseteq Polls
      BY <2>3, BagTake DEF StateTypeOK
    <3> QED
      BY <1>13, <2>1, <3>4, <3>5 DEF issue_remove, StateTypeOK, core, loop, history
  <2> QED
    BY <1>13, <2>2, <2>3 DEF issue_remove
<1>14. ASSUME NEW f \in Descs, poll_complete(f)
       PROVE  StateTypeOK'
  <2>1. PICK p \in BagToSet(armed) :
          /\ p.file = f
          /\ armed' = armed (-) SetToBag({p})
          /\ cq' = Append(cq, Completion(p.slot, p.owner, ready[f] \cap Wanted(p.events)))
    BY <1>14 DEF poll_complete
  <2>2. p \in Polls /\ ready[f] \cap Wanted(p.events) \in SUBSET Bits
    BY <2>1 DEF StateTypeOK
  <2>3. Completion(p.slot, p.owner, ready[f] \cap Wanted(p.events)) \in Completions
    BY <2>2 DEF Polls, Completion, Completions
  <2>4. cq' \in Seq(Completions)
    BY <2>1, <2>3, RangeAppend DEF StateTypeOK
  <2>5. IsABag(armed') /\ BagToSet(armed') \subseteq Polls
    BY <2>1, BagTake DEF StateTypeOK
  <2> QED
    BY <1>14, <2>4, <2>5 DEF poll_complete, StateTypeOK, core, loop, history
<1>15. ASSUME NEW d \in Descs, NEW b \in PeerBits, file_ready(d, b)
       PROVE  StateTypeOK'
  BY <1>15 DEF file_ready, StateTypeOK, core, loop, history
<1>16. CASE UNCHANGED vars
  BY <1>16 DEF vars, core, kernel, loop, history, StateTypeOK
<1> QED
  BY <1>1, <1>2, <1>3, <1>4, <1>5, <1>6, <1>7, <1>8, <1>9, <1>10, <1>11, <1>12,
     <1>13, <1>14, <1>15, <1>16, <1>17
  DEF Next, Consumer, Loop, Kernel

(* It holds in every reachable state.                                       *)
LEMMA StateTyped == Spec => []StateTypeOK
<1>1. Init => StateTypeOK
  <2> SUFFICES ASSUME Init PROVE StateTypeOK
    OBVIOUS
  <2>1. IsABag(armed) /\ BagToSet(armed) \subseteq Polls
    BY DEF Init, EmptyBag, SetToBag, IsABag, BagToSet
  <2>2. slots \in [Slots -> PollSlots] /\ next_free_slot \in 0 .. NSlots
    BY ReactorAssumption DEF Init, PollSlots, Interests
  <2>3. /\ sq \in Seq(Entries) /\ flush \in 0 .. Len(sq) /\ cq \in Seq(Completions)
        /\ cur \in [desc : Descs \cup {NULL}, owner : Descs \cup {NULL}, evs : Seq(Events)]
    BY DEF Init, Idle
  <2>4. /\ desc \in [Descs -> [fd : Fds \cup {NULL}, mask : Interests]]
        /\ ready \in [Descs -> SUBSET Bits]
    BY DEF Init, Interests
  <2>5. /\ fds \in [Fds -> Slots \cup {NULL}] /\ descriptors \in Nat
        /\ unopened \subseteq Descs /\ count \in 0 .. Batch /\ lost \subseteq Descs
        /\ pc \in {"setup", "wait", "reap", "callback"} /\ pc # "callback"
    BY ReactorAssumption DEF Init
  <2> QED
    BY <2>1, <2>2, <2>3, <2>4, <2>5 DEF StateTypeOK
<1> QED
  BY <1>1, TypeStep, PTL DEF Spec

----------------------------------------------------------------------------
(* Slot pool and fd table                                                   *)

(* The inductive part of ReactorInv about slots and fds.  It implies        *)
(* SlotOwnership with StateTypeOK (lemma TableOwnership).                   *)
OwnersOpen ==
  \A s \in Slots : InUse(s) =>
    IsOpen(slots[s].handler) /\ fds[desc[slots[s].handler].fd] = s
SlotsCounted == descriptors = Cardinality({s \in Slots : InUse(s)})
TableInv == FdsDistinct /\ FdTable /\ OwnersOpen /\ SlotsCounted

(* The table invariant gives the agreement of slot pool and fd table.       *)
LEMMA TableOwnership == StateTypeOK /\ TableInv => SlotOwnership
<1> SUFFICES ASSUME StateTypeOK, TableInv PROVE SlotOwnership
  OBVIOUS
<1>1. ASSUME NEW d \in Registered
      PROVE  slots[SlotOf(d)].handler = d
  <2>1. desc[d].fd \in Fds /\ SlotOf(d) \in Slots /\ d \in Descs /\ IsOpen(d)
    BY <1>1 DEF Registered, SlotOf, IsOpen, StateTypeOK
  <2>2. /\ InUse(SlotOf(d)) /\ desc[slots[SlotOf(d)].handler].fd = desc[d].fd
    BY <1>1, <2>1 DEF TableInv, FdTable, SlotOf, Registered
  <2>3. slots[SlotOf(d)].handler \in Descs
    BY <2>1, <2>2 DEF StateTypeOK, PollSlots, InUse
  <2> QED
    BY <2>1, <2>2, <2>3 DEF TableInv, FdsDistinct
<1>2. ASSUME NEW s \in Slots, InUse(s)
      PROVE  slots[s].handler \in Registered /\ SlotOf(slots[s].handler) = s
  <2>1. slots[s].handler \in Descs
    BY <1>2 DEF StateTypeOK, PollSlots, InUse
  <2>2. s # NULL
    BY ReactorAssumption DEF Slots
  <2> QED
    BY <1>2, <2>1, <2>2 DEF TableInv, OwnersOpen, Registered, SlotOf
<1> QED
  BY <1>1, <1>2 DEF SlotOwnership, TableInv, SlotsCounted

(* There are finitely many slots, so that those in use can be counted.      *)
LEMMA SlotsFinite == IsFiniteSet({s \in Slots : InUse(s)}) /\ IsFiniteSet(Slots)
<1>1. IsFiniteSet(Slots)
  <2>1. NSlots - 1 \in Int /\ 0 \in Int
    BY ReactorAssumption
  <2> QED
    BY <2>1, FS_Interval DEF Slots
<1>2. {s \in Slots : InUse(s)} \in SUBSET Slots
  OBVIOUS
<1> QED
  BY <1>1, <1>2, FS_Subset

(* A step that moves no handler, fd mapping or fd number keeps TableInv.    *)
LEMMA TableSame ==
  ASSUME StateTypeOK, TableInv,
         UNCHANGED <<fds, descriptors, unopened>>,
         \A d \in Descs : desc'[d].fd = desc[d].fd,
         \A s \in Slots : slots'[s].handler = slots[s].handler
  PROVE  TableInv'
<1>1. \A s \in Slots : InUse(s)' <=> InUse(s)
  BY DEF InUse
<1>2. \A d \in Descs : IsOpen(d)' <=> IsOpen(d)
  BY DEF IsOpen
<1>3. \A s \in Slots : InUse(s) => slots[s].handler \in Descs
  BY DEF InUse, StateTypeOK, PollSlots
<1>4. FdsDistinct'
  BY <1>2 DEF TableInv, FdsDistinct, StateTypeOK
<1>5. FdTable'
  <2> SUFFICES ASSUME NEW fd \in Fds, fds[fd] # NULL
               PROVE  InUse(fds[fd])' /\ desc'[slots'[fds[fd]].handler].fd = fd
    BY DEF FdTable
  <2>1. fds[fd] \in Slots
    BY DEF StateTypeOK
  <2> QED
    BY <1>1, <1>3, <2>1 DEF TableInv, FdTable
<1>6. OwnersOpen'
  BY <1>1, <1>2, <1>3 DEF TableInv, OwnersOpen
<1>7. {s \in Slots : InUse(s)}' = {s \in Slots : InUse(s)}
  BY <1>1
<1> QED
  BY <1>4, <1>5, <1>6, <1>7 DEF TableInv, SlotsCounted

(* Registering an unregistered descriptor on a number no other descriptor   *)
(* has keeps TableInv, also when the pool is full or the table too short.   *)
LEMMA TableAdd ==
  ASSUME StateTypeOK, StateTypeOK', TableInv, NEW d \in Descs, NEW fd \in Fds,
         NEW m \in Interests, reactor_add(d, fd, m),
         fds[fd] = NULL, desc[d].fd \in {NULL, fd}, desc'[d].fd = fd,
         \A e \in Descs \ {d} : desc'[e].fd = desc[e].fd /\ desc[e].fd # fd,
         unopened' \subseteq unopened \ {d}
  PROVE  TableInv'
<1>0. fd # NULL /\ NULL \notin Slots
  BY ReactorAssumption DEF Slots
<1>1. FdsDistinct'
  <2>1. ASSUME NEW e \in Descs, NEW g \in Descs, desc'[e].fd # NULL, desc'[e].fd = desc'[g].fd
        PROVE  e = g
    <3>1. CASE e # d /\ g # d
      BY <2>1, <3>1 DEF TableInv, FdsDistinct, IsOpen
    <3>2. CASE e = d \/ g = d
      BY <2>1, <3>2
    <3> QED
      BY <3>1, <3>2
  <2>2. \A e \in unopened' : desc'[e].fd = NULL
    BY DEF TableInv, FdsDistinct, IsOpen, StateTypeOK
  <2> QED
    BY <2>1, <2>2 DEF FdsDistinct, IsOpen
<1>2. \A s \in Slots : InUse(s) => /\ slots[s].handler \in Descs
                                 /\ slots[s].handler # d
  <2> TAKE s \in Slots
  <2> HAVE InUse(s)
  <2>1. /\ slots[s].handler \in Descs /\ desc[slots[s].handler].fd # NULL
        /\ fds[desc[slots[s].handler].fd] = s
    BY DEF TableInv, OwnersOpen, IsOpen, StateTypeOK, PollSlots, InUse
  <2>2. slots[s].handler # d
    BY <1>0, <2>1
  <2> QED
    BY <2>1, <2>2
<1>3. CASE UNCHANGED <<core, sq, flush, history>>
  <2>1. UNCHANGED <<slots, fds, descriptors>>
    BY <1>3 DEF core
  <2>2. \A s \in Slots : InUse(s)' <=> InUse(s)
    BY <2>1 DEF InUse
  <2>3. FdTable'
    BY <1>2, <2>1, <2>2 DEF TableInv, FdTable, StateTypeOK
  <2>4. OwnersOpen'
    BY <1>2, <2>1, <2>2 DEF TableInv, OwnersOpen, IsOpen
  <2>5. {s \in Slots : InUse(s)}' = {s \in Slots : InUse(s)}
    BY <2>2
  <2> QED
    BY <1>1, <2>1, <2>3, <2>4, <2>5 DEF TableInv, SlotsCounted
<1>4. ASSUME NEW s \in Slots, ~InUse(s),
             reactor_poll_submit_fd(s, [handler |-> d, events |-> m, in_flight |-> 0],
                                    d, fd, TRUE),
             fds' = [fds EXCEPT ![fd] = s],
             descriptors' = descriptors + 1
      PROVE  TableInv'
  <2>0. [handler |-> d, events |-> m, in_flight |-> 0] \in PollSlots
    BY DEF PollSlots
  <2>2. slots'[s].handler = d /\ \A t \in Slots \ {s} : slots'[t] = slots[t]
    BY <1>4, <2>0, SubmitSlots
  <2>1. slots'[s].handler = d /\ fds'[fd] = s
    BY <1>4, <2>2 DEF StateTypeOK
  <2>3. \A x \in Fds \ {fd} : fds'[x] = fds[x]
    BY <1>4 DEF StateTypeOK
  <2>4. InUse(s)' /\ \A t \in Slots \ {s} : InUse(t)' <=> InUse(t)
    BY <2>1, <2>2, ReactorAssumption DEF InUse
  <2>5. FdTable'
    <3> SUFFICES ASSUME NEW x \in Fds, fds'[x] # NULL
                 PROVE  /\ slots'[fds'[x]].handler # NULL
                        /\ desc'[slots'[fds'[x]].handler].fd = x
      BY DEF FdTable, InUse
    <3>1. CASE x = fd
      BY <2>1, <2>4, <3>1 DEF InUse
    <3>2. CASE x # fd
      <4>1. /\ fds'[x] = fds[x] /\ fds[x] \in Slots
            /\ InUse(fds[x]) /\ desc[slots[fds[x]].handler].fd = x
        BY <2>3, <3>2 DEF TableInv, FdTable, StateTypeOK
      <4> QED
        BY <1>2, <1>4, <2>2, <2>4, <4>1 DEF InUse
    <3> QED
      BY <3>1, <3>2
  <2>6. OwnersOpen'
    <3> SUFFICES ASSUME NEW t \in Slots, InUse(t)'
                 PROVE  IsOpen(slots[t].handler)' /\ fds'[desc'[slots'[t].handler].fd] = t
      BY DEF OwnersOpen
    <3>1. CASE t = s
      BY <1>0, <2>1, <3>1 DEF IsOpen
    <3>2. CASE t # s
      <4>1. /\ slots'[t].handler = slots[t].handler
            /\ IsOpen(slots[t].handler) /\ fds[desc[slots[t].handler].fd] = t
            /\ slots[t].handler \in Descs \ {d}
        BY <1>2, <2>2, <2>4, <3>2 DEF TableInv, OwnersOpen
      <4>2. desc[slots[t].handler].fd \in Fds \ {fd}
        BY <4>1 DEF IsOpen, StateTypeOK
      <4> QED
        BY <2>3, <4>1, <4>2 DEF IsOpen
    <3> QED
      BY <3>1, <3>2
  <2>7. SlotsCounted'
    <3>1. {t \in Slots : InUse(t)}' = {t \in Slots : InUse(t)} \cup {s}
      BY <2>4
    <3>2. Cardinality({t \in Slots : InUse(t)} \cup {s})
            = Cardinality({t \in Slots : InUse(t)}) + 1
      BY <1>4, SlotsFinite, FS_AddElement
    <3> QED
      BY <1>4, <3>1, <3>2 DEF TableInv, SlotsCounted
  <2> QED
    BY <1>1, <2>5, <2>6, <2>7 DEF TableInv
<1> QED
  BY <1>3, <1>4 DEF reactor_add, reactor_slot_acquire

(* Closing a descriptor keeps TableInv.                                     *)
LEMMA TableDelete ==
  ASSUME StateTypeOK, TableInv, NEW d \in Descs, IsOpen(d),
         reactor_delete(desc[d].fd),
         desc' = [desc EXCEPT ![d] = [fd |-> NULL, mask |-> {}]],
         UNCHANGED unopened
  PROVE  TableInv'
<1>0. /\ desc[d].fd \in Fds /\ desc'[d].fd = NULL /\ NULL \notin Slots
      /\ \A e \in Descs \ {d} : desc'[e].fd = desc[e].fd /\ desc[e].fd # desc[d].fd
  BY ReactorAssumption DEF IsOpen, StateTypeOK, Slots, TableInv, FdsDistinct
<1>1. FdsDistinct'
  BY <1>0 DEF TableInv, FdsDistinct, IsOpen
<1>2. \A s \in Slots : InUse(s) => slots[s].handler \in Descs
  BY DEF StateTypeOK, PollSlots, InUse
<1>3. CASE fds[desc[d].fd] = NULL /\ UNCHANGED <<core, sq>>
  <2>1. UNCHANGED <<slots, fds, descriptors>>
    BY <1>3 DEF core
  <2>2. \A s \in Slots : InUse(s)' <=> InUse(s)
    BY <2>1 DEF InUse
  <2>3. \A s \in Slots : InUse(s) => slots[s].handler # d
    BY <1>0, <1>3 DEF TableInv, OwnersOpen
  <2>4. FdTable'
    BY <1>0, <1>2, <2>1, <2>2, <2>3 DEF TableInv, FdTable, StateTypeOK
  <2>5. OwnersOpen'
    BY <1>0, <1>2, <2>1, <2>2, <2>3 DEF TableInv, OwnersOpen, IsOpen
  <2>6. {s \in Slots : InUse(s)}' = {s \in Slots : InUse(s)}
    BY <2>2
  <2> QED
    BY <1>1, <2>1, <2>4, <2>5, <2>6 DEF TableInv, SlotsCounted
<1>4. ASSUME NEW s, s = fds[desc[d].fd], s # NULL,
             fds' = [fds EXCEPT ![desc[d].fd] = NULL],
             slots' = [slots EXCEPT ![s].handler = NULL],
             descriptors' = IF descriptors > 0 THEN descriptors - 1 ELSE 0
      PROVE  TableInv'
  <2>1. s \in Slots /\ fds'[desc[d].fd] = NULL /\ slots'[s].handler = NULL
    BY <1>0, <1>4 DEF StateTypeOK, PollSlots
  <2>2. \A t \in Slots \ {s} : slots'[t] = slots[t]
    BY <1>4 DEF StateTypeOK
  <2>3. \A x \in Fds \ {desc[d].fd} : fds'[x] = fds[x]
    BY <1>4 DEF StateTypeOK
  <2>4. ~InUse(s)' /\ \A t \in Slots \ {s} : InUse(t)' <=> InUse(t)
    BY <2>1, <2>2 DEF InUse
  <2>5. InUse(s) /\ slots[s].handler = d
    BY <1>0, <1>2, <1>4, <2>1 DEF TableInv, FdTable
  <2>6. \A t \in Slots \ {s} : InUse(t) => slots[t].handler # d
    BY <1>4 DEF TableInv, OwnersOpen
  <2>7. FdTable'
    <3> SUFFICES ASSUME NEW x \in Fds, fds'[x] # NULL
                 PROVE  /\ slots'[fds'[x]].handler # NULL
                        /\ desc'[slots'[fds'[x]].handler].fd = x
      BY DEF FdTable, InUse
    <3>1. x # desc[d].fd /\ fds'[x] = fds[x] /\ fds[x] \in Slots
      BY <2>1, <2>3 DEF StateTypeOK
    <3>2. InUse(fds[x]) /\ desc[slots[fds[x]].handler].fd = x
      BY <3>1 DEF TableInv, FdTable
    <3>3. fds[x] # s
      BY <2>5, <3>1, <3>2
    <3> QED
      BY <1>0, <1>2, <2>2, <2>4, <2>6, <3>1, <3>2, <3>3 DEF InUse
  <2>8. OwnersOpen'
    <3> SUFFICES ASSUME NEW t \in Slots, InUse(t)'
                 PROVE  IsOpen(slots[t].handler)' /\ fds'[desc'[slots'[t].handler].fd] = t
      BY DEF OwnersOpen
    <3>1. /\ t # s /\ slots'[t].handler = slots[t].handler
          /\ IsOpen(slots[t].handler) /\ fds[desc[slots[t].handler].fd] = t
          /\ slots[t].handler \in Descs \ {d}
      BY <1>2, <2>2, <2>4, <2>6 DEF TableInv, OwnersOpen
    <3>2. desc[slots[t].handler].fd \in Fds \ {desc[d].fd}
      BY <1>0, <3>1 DEF IsOpen, StateTypeOK
    <3> QED
      BY <1>0, <2>3, <3>1, <3>2 DEF IsOpen
  <2>9. SlotsCounted'
    <3>1. {t \in Slots : InUse(t)}' = {t \in Slots : InUse(t)} \ {s}
      BY <2>4
    <3>2. /\ Cardinality({t \in Slots : InUse(t)} \ {s})
               = Cardinality({t \in Slots : InUse(t)}) - 1
          /\ Cardinality({t \in Slots : InUse(t)} \ {s}) \in Nat
          /\ Cardinality({t \in Slots : InUse(t)}) \in Nat
      BY <2>1, <2>5, SlotsFinite, FS_RemoveElement, FS_CardinalityType
    <3>3. descriptors = Cardinality({t \in Slots : InUse(t)})
      BY DEF TableInv, SlotsCounted
    <3>4. descriptors' = Cardinality({t \in Slots : InUse(t)} \ {s})
      <4> DEFINE n == Cardinality({t \in Slots : InUse(t)})
                 k == Cardinality({t \in Slots : InUse(t)} \ {s})
      <4>1. k = n - 1 /\ k \in Nat /\ n \in Nat /\ descriptors = n
        BY <3>2, <3>3
      <4> HIDE DEF n, k
      <4>2. descriptors' = k
        BY <1>4, <4>1
      <4> QED
        BY <4>2 DEF k
    <3> QED
      BY <3>1, <3>4 DEF SlotsCounted
  <2> QED
    BY <1>1, <2>7, <2>8, <2>9 DEF TableInv
<1> QED
  BY <1>3, <1>4 DEF reactor_delete

(* Every step keeps TableInv.                                               *)
LEMMA TableStep == StateTypeOK /\ TableInv /\ [Next]_vars => TableInv'
<1> SUFFICES ASSUME StateTypeOK, TableInv, [Next]_vars PROVE TableInv'
  OBVIOUS
<1>0. StateTypeOK'
  BY TypeStep
<1>1. ASSUME NEW d \in Descs, NEW fd \in Fds, NEW m \in OpenMasks, descriptor_open(d, fd, m)
      PROVE  TableInv'
  <2>0. m \in Interests
    BY ReactorAssumption
  <2>1. /\ d \in unopened /\ FreeFd(fd) /\ unopened' = unopened \ {d}
        /\ desc' = [desc EXCEPT ![d] = [fd |-> fd, mask |-> m]]
        /\ reactor_add(d, fd, m)
    BY <1>1 DEF descriptor_open
  <2>2. desc[d].fd = NULL
    BY <2>1 DEF TableInv, FdsDistinct, IsOpen
  <2>3. fds[fd] = NULL
    <3> SUFFICES ASSUME fds[fd] # NULL PROVE FALSE
      OBVIOUS
    <3>1. fds[fd] \in Slots /\ InUse(fds[fd]) /\ desc[slots[fds[fd]].handler].fd = fd
      BY DEF StateTypeOK, TableInv, FdTable
    <3>2. slots[fds[fd]].handler \in Descs
      BY <3>1 DEF InUse, StateTypeOK, PollSlots
    <3> QED
      BY <2>1, <3>1, <3>2 DEF FreeFd
  <2>4. desc'[d].fd = fd /\ \A e \in Descs \ {d} : desc'[e].fd = desc[e].fd /\ desc[e].fd # fd
    BY <2>1 DEF FreeFd, StateTypeOK
  <2> QED
    BY <1>0, <2>0, <2>1, <2>2, <2>3, <2>4, TableAdd
<1>2. ASSUME NEW d \in Descs, NEW m \in Masks, descriptor_mask(d, m)
      PROVE  TableInv'
  <2>0. m \in Interests
    BY ReactorAssumption
  <2>1. /\ IsOpen(d) /\ UNCHANGED unopened
        /\ desc' = [desc EXCEPT ![d].mask = m]
        /\ reactor_modify(d, desc[d].fd, m)
    BY <1>2 DEF descriptor_mask
  <2>2. /\ desc[d].fd \in Fds /\ \A e \in Descs : desc'[e].fd = desc[e].fd
    BY <2>1 DEF IsOpen, StateTypeOK
  <2>3. CASE fds[desc[d].fd] = NULL /\ reactor_add(d, desc[d].fd, m)
    <3>1. /\ \A e \in Descs \ {d} : desc[e].fd # desc[d].fd
          /\ unopened \subseteq unopened \ {d}
      BY <2>1 DEF TableInv, FdsDistinct
    <3> QED
      BY <1>0, <2>0, <2>1, <2>2, <2>3, <3>1, TableAdd
  <2>4. CASE UNCHANGED <<core, sq, flush, history>>
    BY <2>1, <2>2, <2>4, TableSame DEF core
  <2>5. ASSUME NEW t, t = fds[desc[d].fd], t # NULL,
               \/ slots' = [slots EXCEPT ![t].events = m]
               \/ reactor_poll_submit_fd(t, [slots[t] EXCEPT !.events = m],
                                         d, desc[d].fd, FALSE),
               UNCHANGED <<fds, next_free_slot, descriptors>>
        PROVE  TableInv'
    <3>1. \A s \in Slots : slots'[s].handler = slots[s].handler
      <4>1. t \in Slots
        BY <2>2, <2>5 DEF StateTypeOK
      <4>2. slots \in [Slots -> PollSlots]
        BY DEF StateTypeOK
      <4>3. CASE slots' = [slots EXCEPT ![t].events = m]
        BY <4>2, <4>3 DEF PollSlots
      <4>4. CASE reactor_poll_submit_fd(t, [slots[t] EXCEPT !.events = m],
                                        d, desc[d].fd, FALSE)
        <5>1. slots[t] \in PollSlots
          BY <4>1, <4>2
        <5>2. /\ [slots[t] EXCEPT !.events = m] \in PollSlots
              /\ [slots[t] EXCEPT !.events = m].handler = slots[t].handler
          BY <5>1, <2>0 DEF PollSlots
        <5> QED
          BY <4>1, <4>4, <5>2, SubmitSlots
      <4> QED
        BY <2>5, <4>3, <4>4
    <3> QED
      BY <2>1, <2>2, <2>5, <3>1, TableSame
  <2> QED
    BY <2>1, <2>3, <2>4, <2>5 DEF reactor_modify
<1>3. ASSUME NEW d \in Descs, descriptor_close(d)
      PROVE  TableInv'
  BY <1>3, TableDelete DEF descriptor_close
<1>4. ASSUME UNCHANGED <<fds, descriptors, desc, unopened>>,
             \/ UNCHANGED slots
             \/ \E s \in Slots : slots' = InFlightLess(s)
             \/ \A s \in Slots : slots'[s].handler = slots[s].handler
      PROVE  TableInv'
  <2>1. \A s \in Slots : slots'[s].handler = slots[s].handler
    <3>1. ASSUME NEW t \in Slots, NEW n, slots' = [slots EXCEPT ![t].in_flight = n]
          PROVE  \A s \in Slots : slots'[s].handler = slots[s].handler
      BY <3>1 DEF StateTypeOK, PollSlots
    <3> QED
      BY <1>4, <3>1 DEF InFlightLess
  <2> QED
    BY <1>4, <2>1, TableSame
<1>5. CASE reap_drop \/ reap_dispatch
  <2>1. cq # <<>> /\ cq \in Seq(Completions)
    BY <1>5 DEF reap_drop, reap_dispatch, StateTypeOK
  <2>2. Head(cq).slot # NULL => Head(cq).slot \in Slots
    BY <2>1, RangeTail DEF Completions
  <2> QED
    BY <1>4, <1>5, <2>2 DEF reap_drop, reap_dispatch
<1>6. CASE rearm
  <2>1. cur.desc \in Descs
    BY <1>6 DEF rearm, StateTypeOK
  <2>2. ASSUME desc[cur.desc].fd # NULL, fds[desc[cur.desc].fd] # NULL
        PROVE  fds[desc[cur.desc].fd] \in Slots
    BY <2>1, <2>2 DEF StateTypeOK
  <2>3. ASSUME NEW s \in Slots, NEW fd,
               reactor_poll_submit_fd(s, slots[s], cur.desc, fd, count = Batch)
        PROVE  \A t \in Slots : slots'[t].handler = slots[t].handler
    <3>1. slots[s] \in PollSlots /\ (count = Batch) \in BOOLEAN
      BY DEF StateTypeOK
    <3> QED
      BY <2>3, <3>1, SubmitSlots
  <2>4. UNCHANGED <<fds, descriptors, desc, unopened>>
    BY <1>6 DEF rearm
  <2>5. \/ UNCHANGED slots
        \/ \E s, fd : /\ fd = desc[cur.desc].fd /\ s = fds[fd]
                      /\ fd # NULL /\ s # NULL
                      /\ reactor_poll_submit_fd(s, slots[s], cur.desc, fd, count = Batch)
    BY <1>6 DEF rearm
  <2> QED
    BY <1>4, <2>2, <2>3, <2>4, <2>5
<1>7. CASE enter_loop \/ wake \/ wait_again \/ reap_done \/ handler_return
  BY <1>4, <1>7 DEF enter_loop, wake, wait_again, reap_done, handler_return, core
<1>8. CASE issue_add \/ issue_remove \/ \E f \in Descs : poll_complete(f)
  BY <1>4, <1>8 DEF issue_add, issue_remove, poll_complete, core
<1>9. ASSUME \/ \E b \in Bits : consume(b)
             \/ \E d \in Descs, b \in PeerBits : file_ready(d, b)
      PROVE  TableInv'
  BY <1>4, <1>9 DEF consume, file_ready, core
<1>10. CASE UNCHANGED vars
  BY <1>4, <1>10 DEF vars, core
<1> QED
  BY <1>1, <1>2, <1>3, <1>5, <1>6, <1>7, <1>8, <1>9, <1>10
  DEF Next, Consumer, Loop, Kernel

(* The empty table satisfies the table invariant.                           *)
LEMMA TableInit == Init => TableInv
<1> SUFFICES ASSUME Init PROVE TableInv
  OBVIOUS
<1>1. {s \in Slots : InUse(s)} = {}
  BY DEF Init, InUse
<1>2. SlotsCounted
  BY <1>1, FS_EmptySet DEF Init, SlotsCounted
<1> QED
  BY <1>1, <1>2 DEF Init, TableInv, FdsDistinct, FdTable, OwnersOpen, IsOpen, InUse

(* In every reachable state the slot pool and the fd table describe the same*)
(* open descriptors, and reactor_get_descriptor_count is their number: no   *)
(* slot leaks or is shared, whatever order descriptors are opened, re-masked*)
(* and closed in.                                                           *)
THEOREM SlotOwnershipHolds == Spec => []SlotOwnership
<1>1. Init => TableInv
  BY TableInit
<1>2. StateTypeOK /\ TableInv => SlotOwnership
  BY TableOwnership
<1> QED
  BY <1>1, <1>2, StateTyped, TableStep, PTL DEF Spec

----------------------------------------------------------------------------
(* Polls                                                                    *)

(* The facts about a step that PollsOpened needs: every poll in the next    *)
(* state was there before, with the same owner, or is queued now for an open*)
(* descriptor on its number.                                                *)
LEMMA OpenedStep ==
  ASSUME StateTypeOK, StateTypeOK', PollsOpened, unopened' \subseteq unopened,
         \A e \in Range(sq') : e.op = "add" =>
            \/ e \in Range(sq)
            \/ e.owner \notin unopened' /\ e.fd = desc'[e.owner].fd,
         \A e \in Range(sq) : e.op = "add" =>
            desc'[e.owner].fd \in {desc[e.owner].fd, NULL},
         \A p \in BagToSet(armed') :
            p \in BagToSet(armed) \/ p.owner \notin unopened',
         \A c \in Range(cq') : c \in Range(cq) \/ c.owner \notin unopened',
         cur'.desc = cur.desc \/ cur'.desc \notin unopened'
  PROVE  PollsOpened'
<1>1. \A e \in Range(sq') : e.op = "add" =>
         e.owner \notin unopened' /\ (desc'[e.owner].fd # NULL => e.fd = desc'[e.owner].fd)
  BY DEF PollsOpened, IsOpen
<1>2. \A p \in BagToSet(armed') : p.owner \notin unopened'
  BY DEF PollsOpened
<1>3. \A c \in Range(cq') : c.owner \notin unopened'
  BY DEF PollsOpened
<1>4. cur'.desc \notin unopened'
  BY DEF PollsOpened
<1> QED
  BY <1>1, <1>2, <1>3, <1>4 DEF PollsOpened, IsOpen

(* What queueing a poll means for Watched: no queued poll goes away, one of *)
(* the descriptor is there, or its poll is lost.                            *)
QueuedOrLost(s, d, fd) ==
  /\ Range(sq) \subseteq Range(sq')
  /\ \A e \in Range(sq') : e \in Range(sq) \/ (e.owner = d /\ e.fd = fd)
  /\ lost \subseteq lost' \cup {d}
  /\ \/ d \in lost'
     \/ \E e \in Range(sq') : e.op = "add" /\ e.owner = d /\ e.slot = s

LEMMA SubmitPolls ==
  ASSUME StateTypeOK, NEW s \in Slots, NEW slot \in PollSlots, NEW d \in Descs,
         NEW fd \in Fds, NEW b \in BOOLEAN, reactor_poll_submit_fd(s, slot, d, fd, b)
  PROVE  QueuedOrLost(s, d, fd)
<1>1. PICK a : a = AddEntry(s, d, fd, slot.events)
  OBVIOUS
<1>2. /\ a \in Entries /\ a.op = "add" /\ a.owner = d /\ a.slot = s /\ a.fd = fd
      /\ sq \in Seq(Entries)
  BY <1>1, EntryTypes DEF AddEntry, PollSlots, StateTypeOK
<1>3. CASE Submitted(s, slot, d, fd)
  <2>1. sq' = Append(sq, a) /\ lost' = lost \ {d}
    BY <1>1, <1>3 DEF Submitted
  <2>2. Range(sq') = Range(sq) \cup {a}
    BY <1>2, <2>1, RangeAppend
  <2>3. Range(sq) \subseteq Range(sq')
    BY <2>2
  <2>6. ASSUME NEW e \in Range(sq') PROVE e \in Range(sq) \/ (e.owner = d /\ e.fd = fd)
    BY <1>2, <2>2
  <2>4. lost \subseteq lost' \cup {d}
    BY <2>1
  <2>5. \E e \in Range(sq') : e.op = "add" /\ e.owner = d /\ e.slot = s
    BY <1>2, <2>2
  <2> QED
    BY <2>3, <2>4, <2>5, <2>6 DEF QueuedOrLost
<1>4. CASE NotSubmitted(s, slot, d)
  <2>1. sq' = sq /\ lost' = lost \cup {d}
    BY <1>4 DEF NotSubmitted
  <2>2. Range(sq') = Range(sq)
    BY <2>1
  <2>3. Range(sq) \subseteq Range(sq')
    BY <2>2
  <2>4. \A e \in Range(sq') : e \in Range(sq)
    BY <2>2
  <2>5. lost \subseteq lost' \cup {d} /\ d \in lost'
    BY <2>1
  <2> QED
    BY <2>3, <2>4, <2>5 DEF QueuedOrLost
<1> QED
  BY <1>3, <1>4, SubmitSplit

(* A step keeps Watched if it registers only descriptors it queues a poll   *)
(* for, moves no slot, takes no poll away and stays in the same callback.   *)
LEMMA WatchedStep ==
  ASSUME StateTypeOK, Watched,
         \A d \in Registered' \ lost' :
            \/ d \in Registered \ lost /\ fds'[desc'[d].fd] = SlotOf(d)
            \/ \E e \in Range(sq') :
                 e.op = "add" /\ e.owner = d /\ e.slot = fds'[desc'[d].fd],
         Range(sq) \subseteq Range(sq'),
         BagToSet(armed) \subseteq BagToSet(armed'),
         Range(cq) \subseteq Range(cq'),
         pc = "callback" => pc' = "callback" /\ cur'.desc = cur.desc
  PROVE  Watched'
<1> SUFFICES ASSUME NEW d \in Registered' \ lost'
             PROVE  \/ pc' = "callback" /\ cur'.desc = d
                    \/ \E e \in Range(sq') :
                         e.op = "add" /\ e.owner = d /\ e.slot = fds'[desc'[d].fd]
                    \/ \E p \in BagToSet(armed') :
                         p.owner = d /\ p.slot = fds'[desc'[d].fd] /\ p.file = d
                    \/ \E c \in Range(cq') : c.owner = d /\ c.slot = fds'[desc'[d].fd]
  BY DEF Watched, Queued, Waiting, Answered, SlotOf
<1>1. CASE d \in Registered \ lost /\ fds'[desc'[d].fd] = SlotOf(d)
  <2>1. \/ pc = "callback" /\ cur.desc = d
        \/ Queued(d, SlotOf(d)) \/ Waiting(d, SlotOf(d)) \/ Answered(d, SlotOf(d))
    BY <1>1 DEF Watched
  <2> QED
    BY <1>1, <2>1 DEF Queued, Waiting, Answered
<1>2. CASE \E e \in Range(sq') :
             e.op = "add" /\ e.owner = d /\ e.slot = fds'[desc'[d].fd]
  BY <1>2
<1> QED
  BY <1>1, <1>2

PollsInv == Watched /\ PollsOpened

(* The part of descriptor_open and descriptor_mask that registers.          *)
LEMMA PollsAdd ==
  ASSUME StateTypeOK, StateTypeOK', PollsInv, NEW d \in Descs, NEW fd \in Fds, NEW m \in Interests,
         reactor_add(d, fd, m),
         fds[fd] = NULL, desc'[d].fd = fd,
         \A e \in Descs \ {d} : desc'[e].fd = desc[e].fd /\ desc[e].fd # fd,
         desc[d].fd = fd \/ d \in unopened,
         unopened' \subseteq unopened, d \notin unopened',
         UNCHANGED <<kernel, loop>>
  PROVE  PollsInv'
<1>0. UNCHANGED <<armed, cq, pc, cur>> /\ fd # NULL /\ sq \in Seq(Entries)
  BY ReactorAssumption DEF kernel, loop, StateTypeOK
<1>1. \A e \in Range(sq) : e.op = "add" =>
        e.owner \in Descs /\ desc'[e.owner].fd \in {desc[e.owner].fd, NULL}
  <2> SUFFICES ASSUME NEW e \in Range(sq), e.op = "add"
               PROVE  e.owner \in Descs /\ desc'[e.owner].fd \in {desc[e.owner].fd, NULL}
    OBVIOUS
  <2>1. e \in Entries
    BY <1>0, RangeOfSeq
  <2>2. e.owner \in Descs /\ e.owner \notin unopened
    BY <2>1 DEF Entries, PollsInv, PollsOpened
  <2> QED
    BY <2>2
<1>2. CASE UNCHANGED <<core, sq, flush, history>>
  <2>1. UNCHANGED <<fds, sq, lost>>
    BY <1>2 DEF core, history
  <2>2. \A e \in Registered' : e \in Registered /\ fds'[desc'[e].fd] = SlotOf(e)
    BY <2>1 DEF Registered, IsOpen, SlotOf
  <2>3. Watched'
    BY <1>0, <2>1, <2>2, WatchedStep DEF PollsInv
  <2>4. PollsOpened'
    BY <1>0, <1>1, <2>1, OpenedStep DEF PollsInv
  <2> QED
    BY <2>3, <2>4 DEF PollsInv
<1>3. ASSUME NEW s \in Slots,
             fds' = [fds EXCEPT ![fd] = s],
             reactor_poll_submit_fd(s, [handler |-> d, events |-> m, in_flight |-> 0],
                                    d, fd, TRUE)
      PROVE  PollsInv'
  <2>2. [handler |-> d, events |-> m, in_flight |-> 0] \in PollSlots
    BY DEF PollSlots
  <2>1. QueuedOrLost(s, d, fd)
    BY <1>3, <2>2, SubmitPolls
  <2>3. /\ Range(sq) \subseteq Range(sq')
        /\ \A e \in Range(sq') : e \in Range(sq) \/ (e.owner = d /\ e.fd = fd)
        /\ lost \subseteq lost' \cup {d}
        /\ \/ d \in lost'
           \/ \E e \in Range(sq') : e.op = "add" /\ e.owner = d /\ e.slot = s
    BY <2>1 DEF QueuedOrLost
  <2>4. fds'[fd] = s /\ \A x \in Fds \ {fd} : fds'[x] = fds[x]
    BY <1>3 DEF StateTypeOK
  <2>5. \A e \in Registered' \ lost' :
           \/ e \in Registered \ lost /\ fds'[desc'[e].fd] = SlotOf(e)
           \/ \E b \in Range(sq') :
                b.op = "add" /\ b.owner = e /\ b.slot = fds'[desc'[e].fd]
    <3> SUFFICES ASSUME NEW e \in Registered', e # d
                 PROVE  e \in Registered /\ fds'[desc'[e].fd] = SlotOf(e)
      BY <2>3, <2>4
    <3>1. e \in Descs /\ desc'[e].fd # NULL /\ fds'[desc'[e].fd] # NULL
      BY DEF Registered, IsOpen
    <3>2. desc'[e].fd = desc[e].fd /\ desc[e].fd \in Fds \ {fd}
      BY <3>1 DEF StateTypeOK
    <3> QED
      BY <2>4, <3>1, <3>2 DEF Registered, IsOpen, SlotOf
  <2>6. Watched'
    BY <1>0, <2>3, <2>5, WatchedStep DEF PollsInv
  <2>7. PollsOpened'
    BY <1>0, <1>1, <2>3, OpenedStep DEF PollsInv
  <2> QED
    BY <2>6, <2>7 DEF PollsInv
<1> QED
  BY <1>2, <1>3 DEF reactor_add

(* A step that changes neither registrations nor fd numbers, and no queue   *)
(* but to add polls to it, keeps PollsInv.                                  *)
LEMMA PollsSame ==
  ASSUME StateTypeOK, StateTypeOK', PollsInv,
         UNCHANGED <<fds, unopened, armed, cq, cur>>,
         \A d \in Descs : desc'[d].fd = desc[d].fd,
         Range(sq) \subseteq Range(sq'),
         \A e \in Range(sq') : e.op = "add" =>
            \/ e \in Range(sq)
            \/ e.owner \notin unopened /\ e.fd = desc[e.owner].fd,
         \A d \in lost \ lost' :
            \E e \in Range(sq') : e.op = "add" /\ e.owner = d /\ e.slot = SlotOf(d),
         pc' # pc => pc # "callback"
  PROVE  PollsInv'
<1>1. \A d \in Registered' : d \in Registered /\ fds'[desc'[d].fd] = SlotOf(d)
  BY DEF Registered, IsOpen, SlotOf
<1>2. \A e \in Range(sq') : e.op = "add" => e.owner \in Descs
  BY RangeOfSeq DEF StateTypeOK, Entries
<1>3. Watched'
  BY <1>1, WatchedStep DEF PollsInv
<1>4. PollsOpened'
  BY <1>2, OpenedStep DEF PollsInv
<1> QED
  BY <1>3, <1>4 DEF PollsInv

(* descriptor_open gives the new descriptor a poll and takes none away.     *)
LEMMA PollsOpen ==
  ASSUME StateTypeOK, StateTypeOK', TableInv, PollsInv,
         NEW d \in Descs, NEW fd \in Fds, NEW m \in OpenMasks, descriptor_open(d, fd, m)
  PROVE  PollsInv'
<1>1. /\ d \in unopened /\ FreeFd(fd) /\ unopened' = unopened \ {d}
      /\ desc' = [desc EXCEPT ![d] = [fd |-> fd, mask |-> m]]
      /\ reactor_add(d, fd, m) /\ UNCHANGED <<kernel, loop>>
  BY DEF descriptor_open
<1>2. m \in Interests
  BY ReactorAssumption
<1>3. fds[fd] = NULL
  <2> SUFFICES ASSUME fds[fd] # NULL PROVE FALSE
    OBVIOUS
  <2>1. fds[fd] \in Slots /\ InUse(fds[fd]) /\ desc[slots[fds[fd]].handler].fd = fd
    BY DEF StateTypeOK, TableInv, FdTable
  <2>2. slots[fds[fd]].handler \in Descs
    BY <2>1 DEF InUse, StateTypeOK, PollSlots
  <2> QED
    BY <1>1, <2>1, <2>2 DEF FreeFd
<1>4. desc'[d].fd = fd /\ \A e \in Descs \ {d} : desc'[e].fd = desc[e].fd /\ desc[e].fd # fd
  BY <1>1 DEF FreeFd, StateTypeOK
<1> QED
  BY <1>1, <1>2, <1>3, <1>4, PollsAdd

(* descriptor_mask leaves every registered descriptor its poll.             *)
LEMMA PollsMask ==
  ASSUME StateTypeOK, StateTypeOK', TableInv, PollsInv,
         NEW d \in Descs, NEW m \in Masks, descriptor_mask(d, m)
  PROVE  PollsInv'
<1>1. /\ IsOpen(d) /\ UNCHANGED <<unopened, kernel, loop>>
      /\ desc' = [desc EXCEPT ![d].mask = m]
      /\ reactor_modify(d, desc[d].fd, m)
  BY DEF descriptor_mask
<1>2. /\ m \in Interests /\ desc[d].fd \in Fds /\ d \notin unopened
      /\ \A e \in Descs : desc'[e].fd = desc[e].fd
  BY <1>1, ReactorAssumption DEF IsOpen, StateTypeOK, TableInv, FdsDistinct
<1>3. CASE fds[desc[d].fd] = NULL /\ reactor_add(d, desc[d].fd, m)
  <2>1. \A e \in Descs \ {d} : desc[e].fd # desc[d].fd
    BY <1>1 DEF TableInv, FdsDistinct
  <2> QED
    BY <1>1, <1>2, <1>3, <2>1, PollsAdd
<1>4. CASE UNCHANGED <<fds, sq, lost>>
  BY <1>1, <1>2, <1>4, PollsSame DEF kernel, loop
<1>5. ASSUME NEW s, s = fds[desc[d].fd], s # NULL,
             reactor_poll_submit_fd(s, [slots[s] EXCEPT !.events = m],
                                    d, desc[d].fd, FALSE),
             UNCHANGED fds
      PROVE  PollsInv'
  <2>1. s \in Slots /\ SlotOf(d) = s
    BY <1>2, <1>5 DEF StateTypeOK, SlotOf
  <2>2. slots[s] \in PollSlots
    BY <2>1 DEF StateTypeOK
  <2>3. [slots[s] EXCEPT !.events = m] \in PollSlots
    BY <1>2, <2>2, SlotFields
  <2>4. QueuedOrLost(s, d, desc[d].fd)
    BY <1>2, <1>5, <2>1, <2>3, SubmitPolls
  <2> QED
    BY <1>1, <1>2, <1>5, <2>1, <2>4, PollsSame DEF QueuedOrLost, kernel, loop
<1> QED
  BY <1>1, <1>3, <1>4, <1>5 DEF reactor_modify, core, history

(* descriptor_close cancels no poll of another descriptor.                  *)
LEMMA PollsClose ==
  ASSUME StateTypeOK, StateTypeOK', TableInv, PollsInv, NEW d \in Descs, descriptor_close(d)
  PROVE  PollsInv'
<1>1. /\ IsOpen(d) /\ UNCHANGED <<unopened, armed, cq, pc, cur>>
      /\ lost' = lost \ {d}
      /\ desc' = [desc EXCEPT ![d] = [fd |-> NULL, mask |-> {}]]
      /\ reactor_delete(desc[d].fd)
  BY DEF descriptor_close, loop
<1>2. /\ desc'[d].fd = NULL /\ desc[d].fd \in Fds
      /\ \A e \in Descs \ {d} : desc'[e].fd = desc[e].fd
      /\ \A e \in Descs \ {d} : desc[e].fd # desc[d].fd
  BY <1>1 DEF IsOpen, StateTypeOK, TableInv, FdsDistinct
<1>3. \A x \in Fds \ {desc[d].fd} : fds'[x] = fds[x]
  BY <1>1, <1>2 DEF reactor_delete, core, StateTypeOK
<1>4. /\ Range(sq) \subseteq Range(sq')
      /\ \A e \in Range(sq') : e.op = "add" => e \in Range(sq)
  <2>1. CASE UNCHANGED sq
    BY <2>1
  <2>2. CASE fds[desc[d].fd] # NULL /\ sq' = Append(sq, RemoveEntry(fds[desc[d].fd]))
    <3>1. PICK r : r = RemoveEntry(fds[desc[d].fd])
      OBVIOUS
    <3>2. r \in Entries /\ r.op = "remove"
      BY <1>2, <2>2, <3>1, EntryTypes DEF StateTypeOK, RemoveEntry
    <3>3. Range(sq') = Range(sq) \cup {r}
      BY <2>2, <3>1, <3>2, RangeAppend DEF StateTypeOK
    <3> QED
      BY <3>2, <3>3
  <2> QED
    BY <1>1, <2>1, <2>2 DEF reactor_delete
<1>5. \A e \in Registered' :
         e \in Registered /\ fds'[desc'[e].fd] = SlotOf(e) /\ e # d
  <2> SUFFICES ASSUME NEW e \in Registered'
               PROVE  e \in Registered /\ fds'[desc'[e].fd] = SlotOf(e) /\ e # d
    OBVIOUS
  <2>1. e \in Descs \ {d} /\ desc'[e].fd # NULL /\ fds'[desc'[e].fd] # NULL
    BY <1>2 DEF Registered, IsOpen
  <2>2. desc'[e].fd = desc[e].fd /\ desc[e].fd \in Fds \ {desc[d].fd}
    BY <1>2, <2>1 DEF StateTypeOK
  <2> QED
    BY <1>3, <2>1, <2>2 DEF Registered, IsOpen, SlotOf
<1>6. Watched'
  BY <1>1, <1>4, <1>5, WatchedStep DEF PollsInv
<1>7. \A e \in Range(sq) : e.op = "add" => e.owner \in Descs
  BY RangeOfSeq DEF StateTypeOK, Entries
<1>8. PollsOpened'
  BY <1>1, <1>2, <1>4, <1>7, OpenedStep DEF PollsInv
<1> QED
  BY <1>6, <1>8 DEF PollsInv

(* What Watched says of one registered descriptor in the next state, when   *)
(* registrations and numbers stay.                                          *)
LEMMA WatchedNext ==
  ASSUME UNCHANGED <<fds, desc>>,
         \A d \in Registered \ lost' :
            \/ pc' = "callback" /\ cur'.desc = d
            \/ \E e \in Range(sq') : e.op = "add" /\ e.owner = d /\ e.slot = SlotOf(d)
            \/ \E p \in BagToSet(armed') : p.owner = d /\ p.slot = SlotOf(d) /\ p.file = d
            \/ \E c \in Range(cq') : c.owner = d /\ c.slot = SlotOf(d)
  PROVE  Watched'
<1>1. \A d \in Registered' : d \in Registered /\ fds'[desc'[d].fd] = SlotOf(d)
  BY DEF Registered, IsOpen, SlotOf
<1> QED
  BY <1>1 DEF Watched, Queued, Waiting, Answered, SlotOf

(* Reaping a completion puts its descriptor in its callback, or drops it.   *)
LEMMA PollsReap ==
  ASSUME StateTypeOK, StateTypeOK', TableInv, PollsInv, reap_drop \/ reap_dispatch
  PROVE  PollsInv'
<1>0. SlotOwnership
  BY TableOwnership
<1>1. /\ pc = "reap" /\ cq # <<>> /\ cq' = Tail(cq)
      /\ UNCHANGED <<fds, desc, unopened, sq, armed, lost>>
  BY DEF reap_drop, reap_dispatch, history
<1>2. /\ Range(cq) = {Head(cq)} \cup Range(cq')
      /\ Head(cq) \in Completions
  BY <1>1, RangeTail DEF StateTypeOK
<1>3. ASSUME NEW d \in Registered, Head(cq).owner = d, Head(cq).slot = SlotOf(d)
      PROVE  pc' = "callback" /\ cur'.desc = d
  <2>1. SlotOf(d) \in Slots /\ d \in Descs
    BY DEF Registered, SlotOf, IsOpen, StateTypeOK
  <2>2. slots[SlotOf(d)].handler = d
    BY <1>0 DEF SlotOwnership
  <2>3. SlotOf(d) # NULL /\ InUse(SlotOf(d))
    BY <2>1, <2>2, ReactorAssumption DEF InUse, Slots
  <2> QED
    BY <1>3, <2>2, <2>3 DEF reap_drop, reap_dispatch
<1>4. Watched'
  <2> SUFFICES ASSUME NEW d \in Registered \ lost
               PROVE  \/ pc' = "callback" /\ cur'.desc = d
                      \/ Queued(d, SlotOf(d)) \/ Waiting(d, SlotOf(d))
                      \/ \E c \in Range(cq') : c.owner = d /\ c.slot = SlotOf(d)
    BY <1>1, WatchedNext DEF Queued, Waiting
  <2>1. Queued(d, SlotOf(d)) \/ Waiting(d, SlotOf(d)) \/ Answered(d, SlotOf(d))
    BY <1>1 DEF PollsInv, Watched
  <2> QED
    BY <1>2, <1>3, <2>1 DEF Answered
<1>5. cur'.desc = cur.desc \/ cur'.desc \notin unopened
  <2>1. CASE reap_drop
    BY <2>1 DEF reap_drop
  <2>2. CASE reap_dispatch
    <3>1. Head(cq).slot \in Slots /\ InUse(Head(cq).slot)
      BY <1>2, <2>2 DEF reap_dispatch, Completions
    <3>2. IsOpen(slots[Head(cq).slot].handler)
      BY <3>1 DEF TableInv, OwnersOpen
    <3>3. slots[Head(cq).slot].handler \notin unopened
      BY <3>2 DEF TableInv, FdsDistinct
    <3> QED
      BY <2>2, <3>3 DEF reap_dispatch
  <2> QED
    BY <2>1, <2>2
<1>6. PollsOpened'
  BY <1>1, <1>2, <1>5, OpenedStep DEF PollsInv
<1> QED
  BY <1>4, <1>6 DEF PollsInv

(* The re-arm gives the descriptor a poll before its callback ends.         *)
LEMMA PollsRearm ==
  ASSUME StateTypeOK, StateTypeOK', TableInv, PollsInv, rearm
  PROVE  PollsInv'
<1>1. /\ pc = "callback" /\ cur.desc \in Descs /\ cur' = Idle
      /\ UNCHANGED <<fds, desc, unopened, armed, cq>>
  BY DEF rearm, StateTypeOK, kernel
<1>2. NULL \notin unopened' /\ cur'.desc = NULL
  BY <1>1, ReactorAssumption DEF Idle, StateTypeOK
<1>3. CASE /\ ~(desc[cur.desc].fd # NULL /\ fds[desc[cur.desc].fd] # NULL)
           /\ UNCHANGED <<sq, lost>>
  <2>1. cur.desc \notin Registered
    BY <1>3 DEF Registered, IsOpen
  <2>2. Watched'
    BY <1>1, <1>3, <2>1, WatchedNext DEF PollsInv, Watched, Queued, Waiting, Answered
  <2>3. PollsOpened'
    BY <1>1, <1>2, <1>3, OpenedStep DEF PollsInv
  <2> QED
    BY <2>2, <2>3 DEF PollsInv
<1>4. ASSUME NEW fd, NEW s, fd = desc[cur.desc].fd, s = fds[fd], fd # NULL, s # NULL,
             reactor_poll_submit_fd(s, slots[s], cur.desc, fd, count = Batch)
      PROVE  PollsInv'
  <2>1. fd \in Fds /\ s \in Slots
    BY <1>1, <1>4 DEF StateTypeOK
  <2>2. slots[s] \in PollSlots /\ (count = Batch) \in BOOLEAN
    BY <2>1 DEF StateTypeOK
  <2>3. QueuedOrLost(s, cur.desc, fd)
    BY <1>1, <1>4, <2>1, <2>2, SubmitPolls
  <2>4. /\ Range(sq) \subseteq Range(sq')
        /\ \A e \in Range(sq') : e \in Range(sq) \/ (e.owner = cur.desc /\ e.fd = fd)
        /\ lost \subseteq lost' \cup {cur.desc}
        /\ \/ cur.desc \in lost'
           \/ \E e \in Range(sq') : e.op = "add" /\ e.owner = cur.desc /\ e.slot = s
    BY <2>3 DEF QueuedOrLost
  <2>5. ASSUME NEW d \in Registered \ lost'
        PROVE  \/ \E e \in Range(sq') : e.op = "add" /\ e.owner = d /\ e.slot = SlotOf(d)
               \/ Waiting(d, SlotOf(d)) \/ Answered(d, SlotOf(d))
    <3>1. CASE d = cur.desc
      BY <1>4, <2>4, <3>1 DEF SlotOf
    <3>2. CASE d # cur.desc
      BY <2>4, <3>2 DEF PollsInv, Watched, Queued
    <3> QED
      BY <3>1, <3>2
  <2>6. Watched'
    BY <1>1, <2>5, WatchedNext DEF Waiting, Answered
  <2>7. cur.desc \notin unopened'
    BY <1>1, <1>4 DEF TableInv, FdsDistinct, IsOpen
  <2>8. PollsOpened'
    BY <1>1, <1>2, <1>4, <2>4, <2>7, OpenedStep DEF PollsInv
  <2> QED
    BY <2>6, <2>8 DEF PollsInv
<1> QED
  BY <1>3, <1>4 DEF rearm

(* The kernel turns a queued poll into a waiting or an answered one.        *)
LEMMA PollsIssueAdd ==
  ASSUME StateTypeOK, StateTypeOK', TableInv, PollsInv, issue_add
  PROVE  PollsInv'
<1>1. /\ sq # <<>> /\ sq' = Tail(sq) /\ Head(sq).op = "add"
      /\ UNCHANGED <<fds, desc, unopened, pc, cur, lost>>
  BY DEF issue_add, StateTypeOK, core, loop, history
<1>2. PICK e : e = Head(sq)
  OBVIOUS
<1>3. /\ Range(sq) = {e} \cup Range(sq') /\ e \in Entries
      /\ e.op = "add" /\ e.owner \in Descs /\ e.slot \in Slots /\ e.events \in Interests
      /\ e.owner \notin unopened
  <2>1. Range(sq) = {e} \cup Range(sq') /\ e \in Entries
    BY <1>1, <1>2, RangeTail DEF StateTypeOK
  <2> QED
    BY <1>1, <1>2, <2>1 DEF Entries, PollsInv, PollsOpened
<1>4. ASSUME NEW d \in Registered, e.owner = d
      PROVE  d \in FileOf(e.fd) /\ \A f \in FileOf(e.fd) : f = d
  <2>1. d \in Descs /\ IsOpen(d) /\ e.fd = desc[d].fd
    BY <1>3, <1>4 DEF Registered, PollsInv, PollsOpened
  <2> QED
    BY <2>1 DEF FileOf, TableInv, FdsDistinct
<1>5. ASSUME NEW c, c.owner = e.owner, c.slot = e.slot, c \in Completions,
             cq' = Append(cq, c), UNCHANGED armed
      PROVE  PollsInv'
  <2>1. Range(cq') = Range(cq) \cup {c}
    BY <1>5, RangeAppend DEF StateTypeOK
  <2>2. Watched'
    BY <1>1, <1>3, <1>5, <2>1, WatchedNext DEF PollsInv, Watched, Queued, Waiting, Answered
  <2>3. PollsOpened'
    BY <1>1, <1>3, <1>5, <2>1, OpenedStep DEF PollsInv
  <2> QED
    BY <2>2, <2>3 DEF PollsInv
<1>6. CASE /\ FileOf(e.fd) = {}
           /\ cq' = Append(cq, Completion(e.slot, e.owner, EBADF))
           /\ UNCHANGED armed
  <2>1. Completion(e.slot, e.owner, EBADF) \in Completions
    BY <1>3, EntryTypes DEF EBADF, Bits
  <2> QED
    BY <1>5, <1>6, <2>1 DEF Completion
<1>7. ASSUME NEW f \in FileOf(e.fd),
             cq' = Append(cq, Completion(e.slot, e.owner, ready[f] \cap Wanted(e.events))),
             UNCHANGED armed
      PROVE  PollsInv'
  <2>1. ready[f] \cap Wanted(e.events) \in SUBSET Bits
    BY DEF FileOf, StateTypeOK
  <2>2. Completion(e.slot, e.owner, ready[f] \cap Wanted(e.events)) \in Completions
    BY <1>3, <2>1, EntryTypes
  <2> QED
    BY <1>5, <1>7, <2>2 DEF Completion
<1>8. ASSUME NEW f \in FileOf(e.fd),
             armed' = armed (+) SetToBag({[slot |-> e.slot, owner |-> e.owner,
                                           file |-> f, events |-> e.events]}),
             UNCHANGED cq
      PROVE  PollsInv'
  <2>1. PICK p : p = [slot |-> e.slot, owner |-> e.owner, file |-> f, events |-> e.events]
    OBVIOUS
  <2>2. armed' = armed (+) SetToBag({p}) /\ IsABag(armed)
    BY <1>8, <2>1 DEF StateTypeOK
  <2>3. BagToSet(armed') = BagToSet(armed) \cup {p}
    BY <2>2, BagPut
  <2>4. ASSUME NEW d \in Registered, e.owner = d PROVE p.file = d
    BY <1>4, <1>8, <2>1, <2>4
  <2>5. Watched'
    BY <1>1, <1>3, <1>8, <2>1, <2>3, <2>4, WatchedNext
    DEF PollsInv, Watched, Queued, Waiting, Answered
  <2>6. PollsOpened'
    <3>1. \A q \in BagToSet(armed') : q \in BagToSet(armed) \/ q.owner \notin unopened'
      BY <1>1, <1>3, <2>1, <2>3
    <3>2. \A g \in Range(sq) : g.op = "add" => desc'[g.owner].fd = desc[g.owner].fd
      BY <1>1
    <3>3. Range(sq') \subseteq Range(sq) /\ Range(cq') = Range(cq)
      BY <1>3, <1>8
    <3> QED
      BY <1>1, <3>1, <3>2, <3>3, OpenedStep DEF PollsInv
  <2> QED
    BY <2>5, <2>6 DEF PollsInv
<1> QED
  BY <1>2, <1>6, <1>7, <1>8 DEF issue_add

(* Taking a waiting poll out of the kernel leaves an answer for its owner.  *)
LEMMA PollsAnswered ==
  ASSUME StateTypeOK, StateTypeOK', PollsInv,
         UNCHANGED <<fds, desc, unopened, pc, cur, lost>>,
         NEW p \in BagToSet(armed), armed' = armed (-) SetToBag({p}),
         Range(cq) \subseteq Range(cq'),
         \E c \in Range(cq') : c.owner = p.owner /\ c.slot = p.slot,
         \A c \in Range(cq') : c \in Range(cq) \/ c.owner \in {p.owner, NULL},
         Range(sq') \subseteq Range(sq),
         \A e \in Range(sq) : e.op = "add" => e \in Range(sq')
  PROVE  PollsInv'
<1>1. /\ BagToSet(armed') \subseteq BagToSet(armed)
      /\ BagToSet(armed) \ {p} \subseteq BagToSet(armed')
  BY BagTake DEF StateTypeOK
<1>2. p.owner \notin unopened /\ NULL \notin unopened
  BY ReactorAssumption DEF PollsInv, PollsOpened, StateTypeOK
<1>3. Watched'
  <2>1. ASSUME NEW d \in Registered, Waiting(d, SlotOf(d))
        PROVE  \/ \E q \in BagToSet(armed') :
                    q.owner = d /\ q.slot = SlotOf(d) /\ q.file = d
               \/ \E c \in Range(cq') : c.owner = d /\ c.slot = SlotOf(d)
    BY <1>1, <2>1 DEF Waiting
  <2> QED
    BY <2>1, WatchedNext DEF PollsInv, Watched, Queued, Answered
<1>4. PollsOpened'
  BY <1>1, <1>2, OpenedStep DEF PollsInv
<1> QED
  BY <1>3, <1>4 DEF PollsInv

(* A cancellation answers the poll it takes away.                           *)
LEMMA PollsIssueRemove ==
  ASSUME StateTypeOK, StateTypeOK', PollsInv, issue_remove
  PROVE  PollsInv'
<1>1. /\ sq # <<>> /\ sq' = Tail(sq) /\ Head(sq).op = "remove"
      /\ UNCHANGED <<fds, desc, unopened, pc, cur, lost>>
  BY DEF issue_remove, StateTypeOK, core, loop, history
<1>2. Range(sq) = {Head(sq)} \cup Range(sq')
  BY <1>1, RangeTail DEF StateTypeOK
<1>3. PICK done : done = Completion(NULL, NULL, {})
  OBVIOUS
<1>4. done \in Completions /\ done.owner = NULL
  BY <1>3, ReactorAssumption DEF Completion, Completions
<1>5. CASE cq' = Append(cq, done) /\ UNCHANGED armed
  <2>1. Range(cq') = Range(cq) \cup {done}
    BY <1>4, <1>5, RangeAppend DEF StateTypeOK
  <2>2. Watched'
    BY <1>1, <1>2, <1>5, <2>1, WatchedNext DEF PollsInv, Watched, Queued, Waiting, Answered
  <2>3. PollsOpened'
    BY <1>1, <1>2, <1>4, <1>5, <2>1, ReactorAssumption, OpenedStep DEF PollsInv, StateTypeOK
  <2> QED
    BY <2>2, <2>3 DEF PollsInv
<1>6. ASSUME NEW p \in BagToSet(armed),
             armed' = armed (-) SetToBag({p}),
             cq' = cq \o <<Completion(p.slot, p.owner, ECANCELED), done>>
      PROVE  PollsInv'
  <2>1. p \in Polls
    BY DEF StateTypeOK
  <2>2. PICK c : c = Completion(p.slot, p.owner, ECANCELED)
    OBVIOUS
  <2>3. c \in Completions /\ c.owner = p.owner /\ c.slot = p.slot
    BY <2>1, <2>2 DEF Polls, Completion, Completions, ECANCELED, Bits
  <2>4. <<c, done>> \in Seq(Completions) /\ Range(<<c, done>>) = {c, done}
    BY <1>4, <2>3 DEF Range
  <2>5. Range(cq') = Range(cq) \cup {c, done}
    <3>1. PICK two : two = <<c, done>>
      OBVIOUS
    <3>2. cq' = cq \o two /\ cq \in Seq(Completions) /\ two \in Seq(Completions)
      BY <1>6, <2>2, <2>4, <3>1 DEF StateTypeOK
    <3>3. Range(cq \o two) = Range(cq) \cup Range(two)
      BY <3>2, RangeConcatenation
    <3> QED
      BY <2>4, <3>1, <3>2, <3>3
  <2> QED
    BY <1>1, <1>2, <1>4, <1>6, <2>3, <2>5, PollsAnswered
<1> QED
  BY <1>3, <1>5, <1>6 DEF issue_remove

(* A waiting poll that completes is answered.                               *)
LEMMA PollsComplete ==
  ASSUME StateTypeOK, StateTypeOK', PollsInv, NEW f \in Descs, poll_complete(f)
  PROVE  PollsInv'
<1>1. PICK p \in BagToSet(armed) :
        /\ armed' = armed (-) SetToBag({p})
        /\ cq' = Append(cq, Completion(p.slot, p.owner, ready[f] \cap Wanted(p.events)))
  BY DEF poll_complete
<1>2. UNCHANGED <<fds, desc, unopened, sq, pc, cur, lost>>
  BY DEF poll_complete, core, loop, history
<1>3. PICK c : c = Completion(p.slot, p.owner, ready[f] \cap Wanted(p.events))
  OBVIOUS
<1>4. c \in Completions /\ c.owner = p.owner /\ c.slot = p.slot
  <2>1. p \in Polls /\ ready[f] \cap Wanted(p.events) \in SUBSET Bits
    BY <1>1 DEF StateTypeOK
  <2> QED
    BY <1>3, <2>1 DEF Polls, Completion, Completions
<1>5. Range(cq') = Range(cq) \cup {c}
  BY <1>1, <1>3, <1>4, RangeAppend DEF StateTypeOK
<1> QED
  BY <1>1, <1>2, <1>4, <1>5, PollsAnswered

(* Every step keeps PollsInv.                                               *)
LEMMA PollsStep == StateTypeOK /\ TableInv /\ PollsInv /\ [Next]_vars => PollsInv'
<1> SUFFICES ASSUME StateTypeOK, TableInv, PollsInv, [Next]_vars PROVE PollsInv'
  OBVIOUS
<1>0. StateTypeOK'
  BY TypeStep
<1>1. CASE \E d \in Descs, fd \in Fds, m \in OpenMasks : descriptor_open(d, fd, m)
  BY <1>0, <1>1, PollsOpen
<1>2. CASE \E d \in Descs, m \in Masks : descriptor_mask(d, m)
  BY <1>0, <1>2, PollsMask
<1>3. CASE \E d \in Descs : descriptor_close(d)
  BY <1>0, <1>3, PollsClose
<1>4. CASE enter_loop \/ wake \/ wait_again \/ reap_done
  BY <1>0, <1>4, PollsSame
  DEF enter_loop, wake, wait_again, reap_done, core, kernel, loop, history
<1>5. CASE handler_return
  <2>1. UNCHANGED <<fds, desc, unopened, sq, armed, cq, pc, lost>> /\ cur'.desc = cur.desc
    BY <1>5 DEF handler_return, core, kernel, StateTypeOK, history
  <2>2. Watched'
    BY <2>1, WatchedNext DEF PollsInv, Watched, Queued, Waiting, Answered
  <2>3. PollsOpened'
    BY <2>1 DEF PollsInv, PollsOpened, IsOpen
  <2> QED
    BY <2>2, <2>3 DEF PollsInv
<1>6. CASE reap_drop \/ reap_dispatch
  BY <1>0, <1>6, PollsReap
<1>7. CASE rearm
  BY <1>0, <1>7, PollsRearm
<1>8. CASE issue_add
  BY <1>0, <1>8, PollsIssueAdd
<1>9. CASE issue_remove
  BY <1>0, <1>9, PollsIssueRemove
<1>10. CASE \E f \in Descs : poll_complete(f)
  BY <1>0, <1>10, PollsComplete
<1>11. ASSUME \/ \E b \in Bits : consume(b)
              \/ \E d \in Descs, b \in PeerBits : file_ready(d, b)
       PROVE  PollsInv'
  BY <1>0, <1>11, PollsSame DEF consume, file_ready, core, loop, history
<1>12. CASE UNCHANGED vars
  BY <1>0, <1>12, PollsSame DEF vars, core, kernel, loop, history
<1> QED
  BY <1>1, <1>2, <1>3, <1>4, <1>5, <1>6, <1>7, <1>8, <1>9, <1>10, <1>11, <1>12
  DEF Next, Consumer, Loop, Kernel

(* Initially no descriptor is registered and there are no polls.            *)
LEMMA PollsInit == Init => PollsInv
<1> SUFFICES ASSUME Init PROVE PollsInv
  OBVIOUS
<1>1. Registered = {}
  BY DEF Init, Registered, IsOpen
<1>2. Range(sq) = {} /\ Range(cq) = {} /\ BagToSet(armed) = {}
  BY DEF Init, Range, EmptyBag, SetToBag, BagToSet
<1>3. cur.desc \notin unopened
  BY ReactorAssumption DEF Init, Idle
<1> QED
  BY <1>1, <1>2, <1>3 DEF PollsInv, Watched, PollsOpened

(* A registered descriptor is never forgotten: in every reachable state it  *)
(* is in its own callback, which re-arms it, or has a poll of its own on the*)
(* way, although polls are one-shot, slots and numbers are reused, system   *)
(* calls take part of the queue, and cancellations are lost or hit the wrong*)
(* poll.  The one way to forget it is a queue of which the kernel, asked to *)
(* make room for its poll, takes nothing.                                   *)
THEOREM WatchedHolds == Spec => []Watched
<1>1. PollsInv => Watched
  BY DEF PollsInv
<1>2. Spec => [](StateTypeOK /\ TableInv)
  BY TableInit, StateTyped, TableStep, PTL DEF Spec
<1> QED
  BY <1>1, <1>2, PollsInit, PollsStep, PTL DEF Spec

----------------------------------------------------------------------------
(* Who is turned away                                                       *)

(* The slots in use belong to different registered descriptors: when all are*)
(* in use there are as many of those as slots.                              *)
LEMMA PoolFull ==
  ASSUME StateTypeOK, TableInv, \A s \in Slots : InUse(s)
  PROVE  Cardinality(Registered) >= NSlots
<1>0. SlotOwnership /\ IsFiniteSet(Slots)
  BY TableOwnership, SlotsFinite
<1>1. NSlots \in Nat \ {0}
  BY ReactorAssumption
<1>2. Cardinality(Slots) = NSlots
  <2>1. Cardinality(0 .. NSlots - 1) = IF 0 > NSlots - 1 THEN 0 ELSE (NSlots - 1) - 0 + 1
    BY <1>1, FS_Interval
  <2> QED
    BY <1>1, <2>1 DEF Slots
<1>3. IsFiniteSet(Registered)
  <2> DEFINE slot == [d \in Registered |-> SlotOf(d)]
  <2>1. \A d \in Registered : SlotOf(d) \in Slots /\ slots[SlotOf(d)].handler = d
    BY <1>0 DEF SlotOwnership, SlotOf, Registered, IsOpen, StateTypeOK
  <2>2. slot \in [Registered -> Slots] /\ \A d, e \in Registered : slot[d] = slot[e] => d = e
    BY <2>1
  <2>3. slot \in Injection(Registered, Slots)
    BY <2>2 DEF Injection, IsInjective
  <2> QED
    BY <1>0, <2>3, FS_Injection
<1>4. Cardinality(Slots) <= Cardinality(Registered)
  <2> DEFINE owner == [s \in Slots |-> slots[s].handler]
  <2>1. \A s \in Slots : slots[s].handler \in Registered /\ SlotOf(slots[s].handler) = s
    BY <1>0 DEF SlotOwnership
  <2>2. owner \in [Slots -> Registered] /\ \A s, t \in Slots : owner[s] = owner[t] => s = t
    BY <2>1
  <2>3. owner \in Injection(Slots, Registered)
    BY <2>2 DEF Injection, IsInjective
  <2> QED
    BY <1>3, <2>3, FS_Injection
<1>5. Cardinality(Registered) \in Nat
  BY <1>3, FS_CardinalityType
<1> QED
  BY <1>1, <1>2, <1>4, <1>5

(* What TurnedAwayIfFull says of a step that takes no number out of the     *)
(* table and opens nothing.                                                 *)
LEMMA StaysRegistered ==
  ASSUME StateTypeOK, \A e \in Descs : desc'[e].fd \in {desc[e].fd, NULL},
         \A e \in Descs : desc'[e].fd # NULL /\ fds[desc[e].fd] # NULL
                            => fds'[desc[e].fd] # NULL
  PROVE  TurnedAwayIfFull
<1> SUFFICES ASSUME NEW e \in Descs, desc'[e].fd # NULL, ~(e \in Registered)'
             PROVE  e \notin Registered /\ IsOpen(e)
  BY DEF TurnedAwayIfFull, IsOpen
<1>1. desc'[e].fd = desc[e].fd /\ fds'[desc[e].fd] = NULL
  BY DEF Registered, IsOpen
<1> QED
  BY <1>1 DEF Registered, IsOpen

(* A descriptor that is open but not registered after a step was so before, *)
(* or is opened on a number without a place or while the pool is full.      *)
LEMMA RegisteredStep ==
  ASSUME StateTypeOK, TableInv, [Next]_vars
  PROVE  TurnedAwayIfFull
<1>3. ASSUME UNCHANGED fds, \A e \in Descs : desc'[e].fd = desc[e].fd
      PROVE  TurnedAwayIfFull
  BY <1>3, StaysRegistered
<1>4. ASSUME NEW d \in Descs, NEW fd \in Fds, NEW m \in OpenMasks, descriptor_open(d, fd, m)
      PROVE  TurnedAwayIfFull
  <2>1. /\ d \in unopened /\ FreeFd(fd) /\ reactor_add(d, fd, m)
        /\ desc' = [desc EXCEPT ![d] = [fd |-> fd, mask |-> m]]
    BY <1>4 DEF descriptor_open
  <2>2. /\ desc'[d].fd = fd /\ desc[d].fd = NULL /\ d \notin Registered
        /\ \A e \in Descs \ {d} : desc'[e].fd = desc[e].fd /\ desc[e].fd # fd
    BY <2>1 DEF FreeFd, StateTypeOK, TableInv, FdsDistinct, IsOpen, Registered
  <2>3. \/ fd \notin Tabled \/ \A s \in Slots : InUse(s)
        \/ \E s \in Slots : fds' = [fds EXCEPT ![fd] = s]
    BY <2>1 DEF reactor_add
  <2>4. \A g \in Fds \ {fd} : fds'[g] = fds[g]
    BY <2>1 DEF reactor_add, core, StateTypeOK
  <2>5. ASSUME NEW e \in Descs \ {d}, desc'[e].fd # NULL, ~(e \in Registered)'
        PROVE  e \notin Registered /\ IsOpen(e)
    <3>1. desc[e].fd \in Fds \ {fd} /\ desc'[e].fd = desc[e].fd
      BY <2>2, <2>5 DEF StateTypeOK
    <3>2. fds'[desc[e].fd] = fds[desc[e].fd]
      BY <2>4, <3>1
    <3> QED
      BY <2>5, <3>1, <3>2 DEF Registered, IsOpen
  <2>6. CASE fd \notin Tabled
    BY <2>2, <2>5, <2>6 DEF TurnedAwayIfFull, IsOpen
  <2>7. CASE \A s \in Slots : InUse(s)
    <3>1. Cardinality(Registered) >= NSlots
      BY <2>7, PoolFull
    <3> QED
      BY <2>2, <2>5, <3>1 DEF TurnedAwayIfFull, IsOpen
  <2>8. ASSUME NEW s \in Slots, fds' = [fds EXCEPT ![fd] = s]
        PROVE  TurnedAwayIfFull
    <3>1. fds'[fd] = s /\ s # NULL
      BY <2>8, ReactorAssumption DEF StateTypeOK, Slots
    <3>2. (d \in Registered)'
      BY <2>2, <3>1, ReactorAssumption DEF Registered, IsOpen
    <3> QED
      BY <2>5, <3>2 DEF TurnedAwayIfFull, IsOpen
  <2> QED
    BY <2>3, <2>6, <2>7, <2>8
<1>5. ASSUME NEW d \in Descs, NEW m \in Masks, descriptor_mask(d, m)
      PROVE  TurnedAwayIfFull
  <2>1. IsOpen(d) /\ desc' = [desc EXCEPT ![d].mask = m] /\ reactor_modify(d, desc[d].fd, m)
    BY <1>5 DEF descriptor_mask
  <2>2. UNCHANGED fds \/ \E s \in Slots : fds' = [fds EXCEPT ![desc[d].fd] = s]
    BY <2>1 DEF reactor_modify, reactor_add, core
  <2>3. \A e \in Descs : desc'[e].fd = desc[e].fd
    BY <2>1 DEF StateTypeOK
  <2>4. ASSUME NEW s \in Slots, fds' = [fds EXCEPT ![desc[d].fd] = s], NEW g \in Fds,
               fds[g] # NULL
        PROVE  fds'[g] # NULL
    BY <2>4, ReactorAssumption DEF StateTypeOK, Slots
  <2>5. \A e \in Descs : desc'[e].fd # NULL => desc[e].fd \in Fds
    BY <2>3 DEF StateTypeOK
  <2> QED
    BY <2>2, <2>3, <2>4, <2>5, StaysRegistered
<1>6. ASSUME NEW d \in Descs, descriptor_close(d)
      PROVE  TurnedAwayIfFull
  <2>1. /\ IsOpen(d) /\ reactor_delete(desc[d].fd)
        /\ desc' = [desc EXCEPT ![d] = [fd |-> NULL, mask |-> {}]]
    BY <1>6 DEF descriptor_close
  <2>2. desc'[d].fd = NULL /\ \A e \in Descs \ {d} : desc'[e].fd = desc[e].fd
    BY <2>1 DEF StateTypeOK
  <2>3. \A e \in Descs \ {d} : desc[e].fd # desc[d].fd
    BY <2>1 DEF TableInv, FdsDistinct
  <2>4. \A g \in Fds \ {desc[d].fd} : fds'[g] = fds[g]
    BY <2>1 DEF reactor_delete, core, StateTypeOK
  <2>5. ASSUME NEW e \in Descs, desc'[e].fd # NULL
        PROVE  fds'[desc[e].fd] = fds[desc[e].fd]
    BY <2>2, <2>3, <2>4, <2>5 DEF StateTypeOK
  <2> QED
    BY <2>2, <2>5, StaysRegistered
<1>7. CASE enter_loop \/ wake \/ wait_again \/ reap_drop \/ reap_dispatch \/ reap_done
             \/ handler_return \/ rearm
  BY <1>3, <1>7
  DEF enter_loop, wake, wait_again, reap_drop, reap_dispatch, reap_done, handler_return,
      rearm, core
<1>8. CASE issue_add \/ issue_remove \/ \E f \in Descs : poll_complete(f)
  BY <1>3, <1>8 DEF issue_add, issue_remove, poll_complete, core
<1>9. ASSUME \/ \E b \in Bits : consume(b)
             \/ \E d \in Descs, b \in PeerBits : file_ready(d, b)
      PROVE  TurnedAwayIfFull
  BY <1>3, <1>9 DEF consume, file_ready, core
<1>10. CASE UNCHANGED vars
  BY <1>3, <1>10 DEF vars, core
<1> QED
  BY <1>4, <1>5, <1>6, <1>7, <1>8, <1>9, <1>10 DEF Next, Consumer, Loop, Kernel

(* The pool loses no slot: opening a descriptor on a number that has a place*)
(* in the table registers it, unless as many descriptors are registered as  *)
(* there are slots; and only a close undoes that.  This is for any number of*)
(* slots, also one smaller than the number of descriptors, and whatever was *)
(* opened and closed and is still to complete.                              *)
THEOREM OpenIsRegisteredHolds == Spec => OpenIsRegistered
<1>1. StateTypeOK /\ TableInv /\ [Next]_vars => [TurnedAwayIfFull]_vars
  BY RegisteredStep
<1>2. Spec => [](StateTypeOK /\ TableInv)
  BY TableInit, StateTyped, TableStep, PTL DEF Spec
<1> QED
  BY <1>1, <1>2, PTL DEF Spec, OpenIsRegistered

----------------------------------------------------------------------------
(* Counting in queues and bags                                              *)

(* The places of q that hold a member of S, and the numbered copies of the  *)
(* members of S in bag B.                                                   *)
Hits(q, S) == {i \in 1 .. Len(q) : q[i] \in S}
Copies(B, S) == UNION {{p} \X (1 .. B[p]) : p \in BagToSet(B) \cap S}

(* A queue has finitely many places.                                        *)
LEMMA HitsFinite ==
  ASSUME NEW T, NEW q \in Seq(T), NEW S
  PROVE  IsFiniteSet(Hits(q, S)) /\ Cardinality(Hits(q, S)) \in Nat
<1>1. Len(q) \in Nat
  BY LenProperties
<1>2. IsFiniteSet(1 .. Len(q))
  BY <1>1, FS_Interval
<1>3. Hits(q, S) \in SUBSET (1 .. Len(q))
  BY DEF Hits
<1> QED
  BY <1>2, <1>3, FS_Subset, FS_CardinalityType

(* An append adds its own place, if it holds a member of S.                 *)
LEMMA HitsAppend ==
  ASSUME NEW T, NEW q \in Seq(T), NEW x \in T, NEW S
  PROVE  Cardinality(Hits(Append(q, x), S)) =
           Cardinality(Hits(q, S)) + (IF x \in S THEN 1 ELSE 0)
<1>1. /\ Len(q) \in Nat
      /\ Len(Append(q, x)) = Len(q) + 1
      /\ \A i \in 1 .. Len(q) : Append(q, x)[i] = q[i]
      /\ Append(q, x)[Len(q) + 1] = x
  BY AppendProperties, LenProperties
<1>2. Hits(Append(q, x), S) =
        IF x \in S THEN Hits(q, S) \cup {Len(q) + 1} ELSE Hits(q, S)
  BY <1>1 DEF Hits
<1>3. Len(q) + 1 \notin Hits(q, S)
  BY <1>1 DEF Hits
<1>4. IsFiniteSet(Hits(q, S)) /\ Cardinality(Hits(q, S)) \in Nat
  BY HitsFinite
<1>5. Cardinality(Hits(q, S) \cup {Len(q) + 1}) = Cardinality(Hits(q, S)) + 1
  BY <1>3, <1>4, FS_AddElement
<1> QED
  BY <1>2, <1>4, <1>5

(* Taking the head moves every other place down by one.                     *)
LEMMA HitsTail ==
  ASSUME NEW T, NEW q \in Seq(T), q # <<>>, NEW S
  PROVE  Cardinality(Hits(q, S)) =
           Cardinality(Hits(Tail(q), S)) + (IF Head(q) \in S THEN 1 ELSE 0)
<1>1. /\ Len(q) \in Nat \ {0} /\ Tail(q) \in Seq(T)
      /\ Len(Tail(q)) = Len(q) - 1
      /\ \A i \in 1 .. Len(q) - 1 : Tail(q)[i] = q[i + 1]
      /\ Head(q) = q[1]
  BY HeadTailProperties, EmptySeq
<1> DEFINE later == Hits(q, S) \ {1}
           up == [i \in Hits(Tail(q), S) |-> i + 1]
<1>2. up \in Bijection(Hits(Tail(q), S), later)
  <2>1. \A i \in Hits(Tail(q), S) :
          i \in 1 .. Len(q) - 1 /\ i + 1 \in later
    BY <1>1 DEF Hits
  <2>2. \A j \in later : j - 1 \in Hits(Tail(q), S) /\ up[j - 1] = j
    <3> SUFFICES ASSUME NEW j \in later
                 PROVE  j - 1 \in Hits(Tail(q), S) /\ j = (j - 1) + 1
      OBVIOUS
    <3>1. j \in 2 .. Len(q) /\ q[j] \in S
      BY <1>1 DEF Hits
    <3>2. j - 1 \in 1 .. Len(q) - 1 /\ (j - 1) + 1 = j
      BY <1>1, <3>1
    <3> QED
      BY <1>1, <3>1, <3>2 DEF Hits
  <2>3. up \in [Hits(Tail(q), S) -> later]
    BY <2>1
  <2>4. \A a, b \in Hits(Tail(q), S) : up[a] = up[b] => a = b
    BY <1>1, <2>1
  <2>5. \A j \in later : \E i \in Hits(Tail(q), S) : up[i] = j
    BY <2>2
  <2> QED
    BY <2>3, <2>4, <2>5 DEF Bijection, Injection, IsInjective, Surjection
<1>3. Cardinality(later) = Cardinality(Hits(Tail(q), S))
  <2>1. ExistsBijection(Hits(Tail(q), S), later)
    BY <1>2 DEF ExistsBijection
  <2> QED
    BY <1>1, <2>1, HitsFinite, FS_Bijection
<1>4. Cardinality(later) =
        IF 1 \in Hits(q, S) THEN Cardinality(Hits(q, S)) - 1 ELSE Cardinality(Hits(q, S))
  BY HitsFinite, FS_RemoveElement
<1>5. 1 \in Hits(q, S) <=> Head(q) \in S
  BY <1>1 DEF Hits
<1> QED
  BY <1>3, <1>4, <1>5, HitsFinite

(* The copies of an element and their numbers.                              *)
LEMMA CopiesMembers ==
  ASSUME NEW B, NEW S, NEW c
  PROVE  c \in Copies(B, S) <=>
           \E p \in BagToSet(B) \cap S : \E n \in 1 .. B[p] : c = <<p, n>>
BY DEF Copies

(* One more copy of x adds one numbered copy, if x is a member of S.        *)
LEMMA CopiesPut ==
  ASSUME NEW B, IsABag(B), NEW x, NEW S, IsFiniteSet(Copies(B, S))
  PROVE  /\ IsFiniteSet(Copies(B (+) SetToBag({x}), S))
         /\ Cardinality(Copies(B (+) SetToBag({x}), S)) =
              Cardinality(Copies(B, S)) + (IF x \in S THEN 1 ELSE 0)
<1> DEFINE C == B (+) SetToBag({x})
           n == (IF x \in BagToSet(B) THEN B[x] ELSE 0) + 1
<1>1. /\ BagToSet(C) = BagToSet(B) \cup {x}
      /\ \A p \in BagToSet(B) \ {x} : C[p] = B[p]
      /\ C[x] = n
      /\ \A p \in BagToSet(B) : B[p] \in Nat \ {0}
      /\ n \in Nat \ {0}
  BY DEF IsABag, SetToBag, BagToSet, (+)
<1> HIDE DEF C
<1>2. CASE x \in S
  <2>1. <<x, n>> \notin Copies(B, S)
    BY <1>1, CopiesMembers
  <2>2. ASSUME NEW c \in Copies(C, S)
        PROVE  c \in Copies(B, S) \cup {<<x, n>>}
    <3>0. PICK p \in BagToSet(C) \cap S : \E k \in 1 .. C[p] : c = <<p, k>>
      BY CopiesMembers
    <3>1. PICK k \in 1 .. C[p] : c = <<p, k>>
      BY <3>0
    <3>2. CASE p = x
      <4>1. k \in 1 .. n
        BY <1>1, <3>2
      <4>2. CASE k = n
        BY <3>1, <3>2, <4>2
      <4>3. CASE k # n
        <5>1. x \in BagToSet(B) /\ k \in 1 .. B[x]
          BY <1>1, <4>1, <4>3
        <5> QED
          BY <1>2, <3>1, <3>2, <5>1, CopiesMembers
      <4> QED
        BY <4>2, <4>3
    <3>3. CASE p # x
      BY <1>1, <3>1, <3>3, CopiesMembers
    <3> QED
      BY <3>2, <3>3
  <2>3. ASSUME NEW c \in Copies(B, S)
        PROVE  c \in Copies(C, S)
    <3>0. PICK p \in BagToSet(B) \cap S : \E k \in 1 .. B[p] : c = <<p, k>>
      BY CopiesMembers
    <3>1. PICK k \in 1 .. B[p] : c = <<p, k>>
      BY <3>0
    <3>2. p \in BagToSet(C) \cap S /\ k \in 1 .. C[p]
      BY <1>1
    <3> QED
      BY <3>1, <3>2, CopiesMembers
  <2>4. <<x, n>> \in Copies(C, S)
    <3>1. x \in BagToSet(C) \cap S /\ n \in 1 .. C[x]
      BY <1>1, <1>2
    <3> QED
      BY <3>1, CopiesMembers
  <2>5. Copies(C, S) = Copies(B, S) \cup {<<x, n>>}
    BY <2>2, <2>3, <2>4
  <2>6. /\ IsFiniteSet(Copies(C, S))
        /\ Cardinality(Copies(C, S)) = Cardinality(Copies(B, S)) + 1
    <3>1. PICK old : old = Copies(B, S)
      OBVIOUS
    <3>2. IsFiniteSet(old) /\ <<x, n>> \notin old /\ Copies(C, S) = old \cup {<<x, n>>}
      BY <2>1, <2>5, <3>1
    <3> HIDE DEF n
    <3> QED
      BY <3>1, <3>2, FS_AddElement
  <2> QED
    BY <1>2, <2>6 DEF C
<1>3. CASE x \notin S
  <2>1. BagToSet(C) \cap S = BagToSet(B) \cap S /\ \A p \in BagToSet(B) \cap S : C[p] = B[p]
    BY <1>1, <1>3
  <2>2. Copies(C, S) = Copies(B, S)
    BY <2>1 DEF Copies
  <2>3. Cardinality(Copies(B, S)) \in Nat
    BY FS_CardinalityType
  <2>4. IsFiniteSet(Copies(C, S)) /\ Cardinality(Copies(C, S)) = Cardinality(Copies(B, S))
    BY <2>2
  <2>5. Cardinality(Copies(C, S)) = Cardinality(Copies(B, S)) + (IF x \in S THEN 1 ELSE 0)
    BY <1>3, <2>3, <2>4
  <2> QED
    BY <2>4, <2>5 DEF C
<1> QED
  BY <1>2, <1>3

(* Taking a copy of x out removes one numbered copy, if x is a member of S. *)
LEMMA CopiesTake ==
  ASSUME NEW B, IsABag(B), NEW x \in BagToSet(B), NEW S, IsFiniteSet(Copies(B, S))
  PROVE  /\ IsFiniteSet(Copies(B (-) SetToBag({x}), S))
         /\ Cardinality(Copies(B, S)) =
              Cardinality(Copies(B (-) SetToBag({x}), S)) + (IF x \in S THEN 1 ELSE 0)
<1> DEFINE C == B (-) SetToBag({x})
<1>1. /\ B[x] \in Nat \ {0}
      /\ BagToSet(C) = IF B[x] > 1 THEN BagToSet(B) ELSE BagToSet(B) \ {x}
      /\ \A p \in BagToSet(B) \ {x} : C[p] = B[p]
      /\ B[x] > 1 => C[x] = B[x] - 1
      /\ \A p \in BagToSet(B) : B[p] \in Nat \ {0}
  BY DEF IsABag, SetToBag, BagToSet, (-)
<1> HIDE DEF C
<1>2. CASE x \in S
  <2>1. <<x, B[x]>> \in Copies(B, S)
    <3>1. x \in BagToSet(B) \cap S /\ B[x] \in 1 .. B[x]
      BY <1>1, <1>2
    <3> QED
      BY <3>1, CopiesMembers
  <2>2. ASSUME NEW c \in Copies(C, S)
        PROVE  c \in Copies(B, S) /\ c # <<x, B[x]>>
    <3>0. PICK p \in BagToSet(C) \cap S : \E k \in 1 .. C[p] : c = <<p, k>>
      BY CopiesMembers
    <3>1. PICK k \in 1 .. C[p] : c = <<p, k>>
      BY <3>0
    <3>2. p \in BagToSet(B) \cap S /\ k \in 1 .. B[p] /\ (p = x => k # B[x])
      BY <1>1
    <3> QED
      BY <3>1, <3>2, CopiesMembers
  <2>3. ASSUME NEW c \in Copies(B, S), c # <<x, B[x]>>
        PROVE  c \in Copies(C, S)
    <3>0. PICK p \in BagToSet(B) \cap S : \E k \in 1 .. B[p] : c = <<p, k>>
      BY CopiesMembers
    <3>1. PICK k \in 1 .. B[p] : c = <<p, k>>
      BY <3>0
    <3>2. CASE p = x
      <4>1. k \in 1 .. B[x] - 1 /\ B[x] > 1
        BY <1>1, <2>3, <3>1, <3>2
      <4> QED
        BY <1>1, <3>1, <3>2, <4>1, CopiesMembers
    <3>3. CASE p # x
      <4>1. p \in BagToSet(C) \cap S /\ k \in 1 .. C[p]
        BY <1>1, <3>3
      <4> QED
        BY <3>1, <4>1, CopiesMembers
    <3> QED
      BY <3>2, <3>3
  <2>4. Copies(C, S) = Copies(B, S) \ {<<x, B[x]>>}
    BY <2>2, <2>3
  <2>5. /\ IsFiniteSet(Copies(C, S))
        /\ Cardinality(Copies(B, S)) = Cardinality(Copies(C, S)) + 1
    <3>1. PICK new : new = Copies(C, S)
      OBVIOUS
    <3>2. PICK old : old = Copies(B, S)
      OBVIOUS
    <3>3. IsFiniteSet(old) /\ <<x, B[x]>> \in old /\ new = old \ {<<x, B[x]>>}
      BY <2>1, <2>4, <3>1, <3>2
    <3>4. IsFiniteSet(new) /\ Cardinality(new) = Cardinality(old) - 1
      BY <3>3, FS_RemoveElement
    <3>5. Cardinality(old) \in Nat
      BY <3>3, FS_CardinalityType
    <3> QED
      BY <3>1, <3>2, <3>4, <3>5
  <2> QED
    BY <1>2, <2>5 DEF C
<1>3. CASE x \notin S
  <2>1. BagToSet(C) \cap S = BagToSet(B) \cap S /\ \A p \in BagToSet(B) \cap S : C[p] = B[p]
    BY <1>1, <1>3
  <2>2. Copies(C, S) = Copies(B, S)
    BY <2>1 DEF Copies
  <2>3. Cardinality(Copies(B, S)) \in Nat
    BY FS_CardinalityType
  <2>4. IsFiniteSet(Copies(C, S)) /\ Cardinality(Copies(C, S)) = Cardinality(Copies(B, S))
    BY <2>2
  <2>5. Cardinality(Copies(B, S)) = Cardinality(Copies(C, S)) + (IF x \in S THEN 1 ELSE 0)
    BY <1>3, <2>3, <2>4
  <2> QED
    BY <2>4, <2>5 DEF C
<1> QED
  BY <1>2, <1>3

----------------------------------------------------------------------------
(* Counting the polls of a slot                                             *)

AddsOf(s)    == {e \in Entries : e.op = "add" /\ e.slot = s}
AnswersOf(s) == {c \in Completions : c.slot = s}
WaitsOf(s)   == {p \in Polls : p.slot = s}

QueuedFor(s)   == Cardinality(Hits(sq, AddsOf(s)))
AnsweredFor(s) == Cardinality(Hits(cq, AnswersOf(s)))
WaitingFor(s)  == Cardinality(Copies(armed, WaitsOf(s)))

(* The kernel holds finitely many polls of each slot.                       *)
FinitelyArmed == \A s \in Slots : IsFiniteSet(Copies(armed, WaitsOf(s)))

(* The polls of a slot are the queued, the waiting and the answered ones.   *)
LEMMA OutstandingSum ==
  ASSUME StateTypeOK, FinitelyArmed, NEW s \in Slots
  PROVE  /\ Outstanding(s) = QueuedFor(s) + AnsweredFor(s) + WaitingFor(s)
         /\ QueuedFor(s) \in Nat /\ AnsweredFor(s) \in Nat /\ WaitingFor(s) \in Nat
         /\ Outstanding(s) \in Nat
<1>1. {i \in 1 .. Len(sq) : sq[i].op = "add" /\ sq[i].slot = s} = Hits(sq, AddsOf(s))
  <2>1. \A i \in 1 .. Len(sq) : sq[i] \in Entries
    BY ElementOfSeq DEF StateTypeOK
  <2> QED
    BY <2>1 DEF Hits, AddsOf
<1>2. {i \in 1 .. Len(cq) : cq[i].slot = s} = Hits(cq, AnswersOf(s))
  <2>1. \A i \in 1 .. Len(cq) : cq[i] \in Completions
    BY ElementOfSeq DEF StateTypeOK
  <2> QED
    BY <2>1 DEF Hits, AnswersOf
<1>3. UNION {{p} \X (1 .. armed[p]) : p \in {q \in BagToSet(armed) : q.slot = s}}
        = Copies(armed, WaitsOf(s))
  <2>1. {q \in BagToSet(armed) : q.slot = s} = BagToSet(armed) \cap WaitsOf(s)
    BY DEF StateTypeOK, WaitsOf
  <2> QED
    BY <2>1 DEF Copies
<1>4. Outstanding(s) = QueuedFor(s) + AnsweredFor(s) + WaitingFor(s)
  BY <1>1, <1>2, <1>3 DEF Outstanding, QueuedFor, AnsweredFor, WaitingFor
<1>5. QueuedFor(s) \in Nat /\ AnsweredFor(s) \in Nat
  BY HitsFinite DEF StateTypeOK, QueuedFor, AnsweredFor
<1>6. WaitingFor(s) \in Nat
  BY FS_CardinalityType DEF FinitelyArmed, WaitingFor
<1> QED
  BY <1>4, <1>5, <1>6

(* What queueing an entry and issuing one do to the number of queued polls. *)
LEMMA QueueCounts ==
  ASSUME StateTypeOK, NEW s \in Slots
  PROVE  /\ \A e \in Entries : sq' = Append(sq, e) =>
              QueuedFor(s)' = QueuedFor(s) + (IF e.op = "add" /\ e.slot = s THEN 1 ELSE 0)
         /\ sq # <<>> /\ sq' = Tail(sq) =>
              QueuedFor(s) = QueuedFor(s)' +
                (IF Head(sq).op = "add" /\ Head(sq).slot = s THEN 1 ELSE 0)
         /\ sq' = sq => QueuedFor(s)' = QueuedFor(s)
<1>1. ASSUME NEW e \in Entries, sq' = Append(sq, e)
      PROVE  QueuedFor(s)' = QueuedFor(s) + (IF e.op = "add" /\ e.slot = s THEN 1 ELSE 0)
  <2>1. e \in AddsOf(s) <=> e.op = "add" /\ e.slot = s
    BY DEF AddsOf
  <2>2. sq \in Seq(Entries)
    BY DEF StateTypeOK
  <2>3. Cardinality(Hits(Append(sq, e), AddsOf(s))) =
          Cardinality(Hits(sq, AddsOf(s))) + (IF e \in AddsOf(s) THEN 1 ELSE 0)
    BY <2>2, HitsAppend
  <2> QED
    BY <1>1, <2>1, <2>3 DEF QueuedFor, AddsOf
<1>2. ASSUME sq # <<>>, sq' = Tail(sq)
      PROVE  QueuedFor(s) = QueuedFor(s)' +
               (IF Head(sq).op = "add" /\ Head(sq).slot = s THEN 1 ELSE 0)
  <2>1. sq \in Seq(Entries) /\ Head(sq) \in Entries
    BY <1>2, RangeTail DEF StateTypeOK
  <2>2. Head(sq) \in AddsOf(s) <=> Head(sq).op = "add" /\ Head(sq).slot = s
    BY <2>1 DEF AddsOf
  <2>3. Cardinality(Hits(sq, AddsOf(s))) =
          Cardinality(Hits(Tail(sq), AddsOf(s))) + (IF Head(sq) \in AddsOf(s) THEN 1 ELSE 0)
    BY <1>2, <2>1, HitsTail
  <2> QED
    BY <1>2, <2>2, <2>3 DEF QueuedFor
<1>3. sq' = sq => QueuedFor(s)' = QueuedFor(s)
  BY DEF QueuedFor
<1> QED
  BY <1>1, <1>2, <1>3

(* What posting completions and reaping one do to the number of answers.    *)
LEMMA AnswerCounts ==
  ASSUME StateTypeOK, NEW s \in Slots
  PROVE  /\ \A c \in Completions : cq' = Append(cq, c) =>
              AnsweredFor(s)' = AnsweredFor(s) + (IF c.slot = s THEN 1 ELSE 0)
         /\ cq # <<>> /\ cq' = Tail(cq) =>
              AnsweredFor(s) = AnsweredFor(s)' + (IF Head(cq).slot = s THEN 1 ELSE 0)
         /\ cq' = cq => AnsweredFor(s)' = AnsweredFor(s)
<1>1. ASSUME NEW c \in Completions, cq' = Append(cq, c)
      PROVE  AnsweredFor(s)' = AnsweredFor(s) + (IF c.slot = s THEN 1 ELSE 0)
  <2>1. c \in AnswersOf(s) <=> c.slot = s
    BY DEF AnswersOf
  <2>2. cq \in Seq(Completions)
    BY DEF StateTypeOK
  <2>3. Cardinality(Hits(Append(cq, c), AnswersOf(s))) =
          Cardinality(Hits(cq, AnswersOf(s))) + (IF c \in AnswersOf(s) THEN 1 ELSE 0)
    BY <2>2, HitsAppend
  <2> QED
    BY <1>1, <2>1, <2>3 DEF AnsweredFor
<1>2. ASSUME cq # <<>>, cq' = Tail(cq)
      PROVE  AnsweredFor(s) = AnsweredFor(s)' + (IF Head(cq).slot = s THEN 1 ELSE 0)
  <2>1. cq \in Seq(Completions) /\ Head(cq) \in Completions
    BY <1>2, RangeTail DEF StateTypeOK
  <2>2. Head(cq) \in AnswersOf(s) <=> Head(cq).slot = s
    BY <2>1 DEF AnswersOf
  <2>3. Cardinality(Hits(cq, AnswersOf(s))) =
          Cardinality(Hits(Tail(cq), AnswersOf(s))) +
            (IF Head(cq) \in AnswersOf(s) THEN 1 ELSE 0)
    BY <1>2, <2>1, HitsTail
  <2> QED
    BY <1>2, <2>2, <2>3 DEF AnsweredFor
<1>3. cq' = cq => AnsweredFor(s)' = AnsweredFor(s)
  BY DEF AnsweredFor
<1> QED
  BY <1>1, <1>2, <1>3

(* What arming a poll and taking one away do to the number of waiting ones. *)
LEMMA WaitCounts ==
  ASSUME StateTypeOK, FinitelyArmed, NEW p \in Polls
  PROVE  /\ armed' = armed (+) SetToBag({p}) =>
              /\ FinitelyArmed'
              /\ \A s \in Slots :
                   WaitingFor(s)' = WaitingFor(s) + (IF p.slot = s THEN 1 ELSE 0)
         /\ p \in BagToSet(armed) /\ armed' = armed (-) SetToBag({p}) =>
              /\ FinitelyArmed'
              /\ \A s \in Slots :
                   WaitingFor(s) = WaitingFor(s)' + (IF p.slot = s THEN 1 ELSE 0)
         /\ armed' = armed =>
              FinitelyArmed' /\ \A s \in Slots : WaitingFor(s)' = WaitingFor(s)
<1>1. ASSUME NEW s \in Slots
      PROVE  /\ IsFiniteSet(Copies(armed, WaitsOf(s)))
             /\ p \in WaitsOf(s) <=> p.slot = s
  BY DEF FinitelyArmed, WaitsOf
<1>2. IsABag(armed)
  BY DEF StateTypeOK
<1>3. ASSUME NEW s \in Slots, armed' = armed (+) SetToBag({p})
      PROVE  /\ IsFiniteSet(Copies(armed', WaitsOf(s)))
             /\ WaitingFor(s)' = WaitingFor(s) + (IF p.slot = s THEN 1 ELSE 0)
  <2>1. /\ IsFiniteSet(Copies(armed (+) SetToBag({p}), WaitsOf(s)))
        /\ Cardinality(Copies(armed (+) SetToBag({p}), WaitsOf(s))) =
             Cardinality(Copies(armed, WaitsOf(s))) + (IF p \in WaitsOf(s) THEN 1 ELSE 0)
    BY <1>1, <1>2, CopiesPut
  <2> QED
    BY <1>1, <1>3, <2>1 DEF WaitingFor
<1>4. ASSUME NEW s \in Slots, p \in BagToSet(armed), armed' = armed (-) SetToBag({p})
      PROVE  /\ IsFiniteSet(Copies(armed', WaitsOf(s)))
             /\ WaitingFor(s) = WaitingFor(s)' + (IF p.slot = s THEN 1 ELSE 0)
  <2>1. /\ IsFiniteSet(Copies(armed (-) SetToBag({p}), WaitsOf(s)))
        /\ Cardinality(Copies(armed, WaitsOf(s))) =
             Cardinality(Copies(armed (-) SetToBag({p}), WaitsOf(s)))
               + (IF p \in WaitsOf(s) THEN 1 ELSE 0)
    BY <1>1, <1>2, <1>4, CopiesTake
  <2> QED
    BY <1>1, <1>4, <2>1 DEF WaitingFor
<1>5. FinitelyArmed' <=> \A s \in Slots : IsFiniteSet(Copies(armed', WaitsOf(s)))
  BY DEF FinitelyArmed, WaitsOf
<1> QED
  BY <1>1, <1>3, <1>4, <1>5 DEF WaitingFor

(* The polls of every slot add up, in this state and in the next.           *)
SumsUp ==
  \A s \in Slots :
    /\ Outstanding(s) = QueuedFor(s) + AnsweredFor(s) + WaitingFor(s)
    /\ QueuedFor(s) \in Nat /\ AnsweredFor(s) \in Nat /\ WaitingFor(s) \in Nat
    /\ Outstanding(s) \in Nat

LEMMA Sums == StateTypeOK /\ FinitelyArmed => SumsUp
BY OutstandingSum DEF SumsUp

LEMMA SumsNext == (StateTypeOK /\ FinitelyArmed => SumsUp)'
BY Sums, PTL

(* A step queues a poll for slot t.                                         *)
QueuesFor(t) ==
  /\ \E e \in Entries : e.op = "add" /\ e.slot = t /\ sq' = Append(sq, e)
  /\ UNCHANGED <<armed, cq>>

(* A step queues no poll, takes none, and posts and reaps no completion.    *)
QueuesNothing ==
  /\ sq' = sq \/ \E e \in Entries : e.op = "remove" /\ sq' = Append(sq, e)
  /\ UNCHANGED <<armed, cq>>

(* Queueing a poll counts one more for its slot only.                       *)
LEMMA OutstandingQueued ==
  ASSUME StateTypeOK, StateTypeOK', FinitelyArmed, NEW t \in Slots, QueuesFor(t)
  PROVE  /\ FinitelyArmed'
         /\ \A s \in Slots : Outstanding(s)' = Outstanding(s) + (IF s = t THEN 1 ELSE 0)
<1>1. PICK e \in Entries : e.op = "add" /\ e.slot = t /\ sq' = Append(sq, e)
  BY DEF QueuesFor
<1>2. UNCHANGED <<armed, cq>>
  BY DEF QueuesFor
<1>3. FinitelyArmed'
  BY <1>2 DEF FinitelyArmed, WaitsOf
<1>4. ASSUME NEW s \in Slots
      PROVE  Outstanding(s)' = Outstanding(s) + (IF s = t THEN 1 ELSE 0)
  <2>1. QueuedFor(s)' = QueuedFor(s) + (IF s = t THEN 1 ELSE 0)
    BY <1>1, QueueCounts
  <2>2. AnsweredFor(s)' = AnsweredFor(s) /\ WaitingFor(s)' = WaitingFor(s)
    BY <1>2 DEF AnsweredFor, WaitingFor, AnswersOf, WaitsOf
  <2>3. /\ Outstanding(s) = QueuedFor(s) + AnsweredFor(s) + WaitingFor(s)
        /\ QueuedFor(s) \in Nat /\ AnsweredFor(s) \in Nat /\ WaitingFor(s) \in Nat
    BY Sums DEF SumsUp
  <2>4. Outstanding(s)' = QueuedFor(s)' + AnsweredFor(s)' + WaitingFor(s)'
    BY <1>3, SumsNext DEF SumsUp
  <2> QED
    BY <2>1, <2>2, <2>3, <2>4
<1> QED
  BY <1>3, <1>4

(* A cancellation counts as no poll.                                        *)
LEMMA OutstandingSame ==
  ASSUME StateTypeOK, StateTypeOK', FinitelyArmed, QueuesNothing
  PROVE  FinitelyArmed' /\ \A s \in Slots : Outstanding(s)' = Outstanding(s)
<1>1. FinitelyArmed'
  BY DEF QueuesNothing, FinitelyArmed, WaitsOf
<1>2. ASSUME NEW s \in Slots
      PROVE  Outstanding(s)' = Outstanding(s)
  <2>1. QueuedFor(s) \in Nat
    BY Sums DEF SumsUp
  <2>2. QueuedFor(s)' = QueuedFor(s)
    BY <2>1, QueueCounts DEF QueuesNothing
  <2>3. AnsweredFor(s)' = AnsweredFor(s) /\ WaitingFor(s)' = WaitingFor(s)
    BY DEF QueuesNothing, AnsweredFor, WaitingFor, AnswersOf, WaitsOf
  <2>4. Outstanding(s) = QueuedFor(s) + AnsweredFor(s) + WaitingFor(s)
    BY Sums DEF SumsUp
  <2>5. Outstanding(s)' = QueuedFor(s)' + AnsweredFor(s)' + WaitingFor(s)'
    BY <1>1, SumsNext DEF SumsUp
  <2> QED
    BY <2>2, <2>3, <2>4, <2>5
<1> QED
  BY <1>1, <1>2

(* Reaping a completion takes a poll of its slot away.                      *)
LEMMA OutstandingReaped ==
  ASSUME StateTypeOK, StateTypeOK', FinitelyArmed, cq # <<>>, cq' = Tail(cq), UNCHANGED <<sq, armed>>
  PROVE  /\ FinitelyArmed'
         /\ \A s \in Slots :
              Outstanding(s) = Outstanding(s)' + (IF Head(cq).slot = s THEN 1 ELSE 0)
<1>1. FinitelyArmed'
  BY DEF FinitelyArmed, WaitsOf
<1>2. ASSUME NEW s \in Slots
      PROVE  Outstanding(s) = Outstanding(s)' + (IF Head(cq).slot = s THEN 1 ELSE 0)
  <2>1. AnsweredFor(s) = AnsweredFor(s)' + (IF Head(cq).slot = s THEN 1 ELSE 0)
    BY AnswerCounts
  <2>2. QueuedFor(s)' = QueuedFor(s) /\ WaitingFor(s)' = WaitingFor(s)
    BY DEF QueuedFor, WaitingFor, AddsOf, WaitsOf
  <2>3. Outstanding(s) = QueuedFor(s) + AnsweredFor(s) + WaitingFor(s)
    BY Sums DEF SumsUp
  <2>4. /\ Outstanding(s)' = QueuedFor(s)' + AnsweredFor(s)' + WaitingFor(s)'
        /\ QueuedFor(s)' \in Nat /\ AnsweredFor(s)' \in Nat /\ WaitingFor(s)' \in Nat
    BY <1>1, SumsNext DEF SumsUp
  <2> QED
    BY <2>1, <2>2, <2>3, <2>4
<1> QED
  BY <1>1, <1>2

(* Issuing a poll moves it from the queue to the waiting or answered ones.  *)
LEMMA OutstandingIssued ==
  ASSUME StateTypeOK, StateTypeOK', FinitelyArmed, issue_add
  PROVE  FinitelyArmed' /\ \A s \in Slots : Outstanding(s)' = Outstanding(s)
<1>1. sq # <<>> /\ sq' = Tail(sq) /\ Head(sq).op = "add"
  BY DEF issue_add, StateTypeOK
<1>2. PICK e : e = Head(sq)
  OBVIOUS
<1>3. e \in Entries /\ e.op = "add" /\ e.slot \in Slots /\ e.owner \in Descs
        /\ e.events \in Interests
  <2>1. e \in Entries
    BY <1>1, <1>2, RangeTail DEF StateTypeOK
  <2> QED
    BY <1>1, <1>2, <2>1 DEF Entries
<1>4. ASSUME NEW s \in Slots
      PROVE  QueuedFor(s) = QueuedFor(s)' + (IF e.slot = s THEN 1 ELSE 0)
  BY <1>1, <1>2, QueueCounts
<1>5. ASSUME FinitelyArmed',
             \A s \in Slots : AnsweredFor(s)' + WaitingFor(s)' =
               AnsweredFor(s) + WaitingFor(s) + (IF e.slot = s THEN 1 ELSE 0)
      PROVE  FinitelyArmed' /\ \A s \in Slots : Outstanding(s)' = Outstanding(s)
  <2> SUFFICES ASSUME NEW s \in Slots
               PROVE  Outstanding(s)' = Outstanding(s)
    BY <1>5
  <2>1. /\ Outstanding(s) = QueuedFor(s) + AnsweredFor(s) + WaitingFor(s)
        /\ QueuedFor(s) \in Nat /\ AnsweredFor(s) \in Nat /\ WaitingFor(s) \in Nat
    BY Sums DEF SumsUp
  <2>2. /\ Outstanding(s)' = QueuedFor(s)' + AnsweredFor(s)' + WaitingFor(s)'
        /\ QueuedFor(s)' \in Nat /\ AnsweredFor(s)' \in Nat /\ WaitingFor(s)' \in Nat
    BY <1>5, SumsNext DEF SumsUp
  <2> QED
    BY <1>4, <1>5, <2>1, <2>2
<1>6. ASSUME NEW r \in SUBSET Bits, cq' = Append(cq, Completion(e.slot, e.owner, r)),
             UNCHANGED armed
      PROVE  FinitelyArmed' /\ \A s \in Slots : Outstanding(s)' = Outstanding(s)
  <2>1. Completion(e.slot, e.owner, r) \in Completions
    BY <1>3, EntryTypes
  <2>2. FinitelyArmed'
    BY <1>6 DEF FinitelyArmed, WaitsOf
  <2>3. ASSUME NEW s \in Slots
        PROVE  AnsweredFor(s)' + WaitingFor(s)' =
                 AnsweredFor(s) + WaitingFor(s) + (IF e.slot = s THEN 1 ELSE 0)
    <3>1. AnsweredFor(s)' = AnsweredFor(s) + (IF Completion(e.slot, e.owner, r).slot = s THEN 1 ELSE 0)
      BY <1>6, <2>1, AnswerCounts
    <3>2. Completion(e.slot, e.owner, r).slot = e.slot
      BY DEF Completion
    <3>3. WaitingFor(s)' = WaitingFor(s) /\ AnsweredFor(s) \in Nat /\ WaitingFor(s) \in Nat
      BY <1>6, Sums DEF SumsUp, WaitingFor, WaitsOf
    <3> QED
      BY <3>1, <3>2, <3>3
  <2> QED
    BY <1>5, <2>2, <2>3
<1>7. ASSUME NEW f \in FileOf(e.fd),
             armed' = armed (+) SetToBag({[slot |-> e.slot, owner |-> e.owner,
                                           file |-> f, events |-> e.events]}),
             UNCHANGED cq
      PROVE  FinitelyArmed' /\ \A s \in Slots : Outstanding(s)' = Outstanding(s)
  <2>1. PICK p : p = [slot |-> e.slot, owner |-> e.owner, file |-> f, events |-> e.events]
    OBVIOUS
  <2>2. p \in Polls /\ p.slot = e.slot
    BY <1>3, <2>1 DEF Polls, FileOf
  <2>3. /\ FinitelyArmed'
        /\ \A s \in Slots : WaitingFor(s)' = WaitingFor(s) + (IF p.slot = s THEN 1 ELSE 0)
    BY <1>7, <2>1, <2>2, WaitCounts
  <2>4. ASSUME NEW s \in Slots
        PROVE  AnsweredFor(s)' + WaitingFor(s)' =
                 AnsweredFor(s) + WaitingFor(s) + (IF e.slot = s THEN 1 ELSE 0)
    <3>1. AnsweredFor(s)' = AnsweredFor(s) /\ AnsweredFor(s) \in Nat /\ WaitingFor(s) \in Nat
      BY <1>7, Sums DEF SumsUp, AnsweredFor, AnswersOf
    <3>2. WaitingFor(s)' = WaitingFor(s) + (IF e.slot = s THEN 1 ELSE 0)
      BY <2>2, <2>3
    <3> QED
      BY <3>1, <3>2
  <2> QED
    BY <1>5, <2>3, <2>4
<1>8. EBADF \in SUBSET Bits /\ \A f \in FileOf(e.fd) : ready[f] \cap Wanted(e.events) \in SUBSET Bits
  BY DEF EBADF, Bits, FileOf, StateTypeOK
<1> QED
  BY <1>2, <1>6, <1>7, <1>8 DEF issue_add

(* A waiting poll that is answered is counted as before.                    *)
LEMMA OutstandingAnswered ==
  ASSUME StateTypeOK, StateTypeOK', FinitelyArmed, NEW p \in BagToSet(armed),
         armed' = armed (-) SetToBag({p}),
         \A s \in Slots : AnsweredFor(s)' = AnsweredFor(s) + (IF p.slot = s THEN 1 ELSE 0),
         \A s \in Slots : QueuedFor(s)' = QueuedFor(s)
  PROVE  FinitelyArmed' /\ \A s \in Slots : Outstanding(s)' = Outstanding(s)
<1>1. p \in Polls
  BY DEF StateTypeOK
<1>2. /\ FinitelyArmed'
      /\ \A s \in Slots : WaitingFor(s) = WaitingFor(s)' + (IF p.slot = s THEN 1 ELSE 0)
  BY <1>1, WaitCounts
<1>3. ASSUME NEW s \in Slots PROVE Outstanding(s)' = Outstanding(s)
  <2>1. /\ Outstanding(s) = QueuedFor(s) + AnsweredFor(s) + WaitingFor(s)
        /\ QueuedFor(s) \in Nat /\ AnsweredFor(s) \in Nat /\ WaitingFor(s) \in Nat
    BY Sums DEF SumsUp
  <2>2. /\ Outstanding(s)' = QueuedFor(s)' + AnsweredFor(s)' + WaitingFor(s)'
        /\ QueuedFor(s)' \in Nat /\ AnsweredFor(s)' \in Nat /\ WaitingFor(s)' \in Nat
    BY <1>2, SumsNext DEF SumsUp
  <2> QED
    BY <1>2, <2>1, <2>2
<1> QED
  BY <1>2, <1>3

(* A cancellation answers the poll it takes; its own completion has no slot.*)
LEMMA OutstandingCanceled ==
  ASSUME StateTypeOK, StateTypeOK', FinitelyArmed, issue_remove
  PROVE  FinitelyArmed' /\ \A s \in Slots : Outstanding(s)' = Outstanding(s)
<1>1. sq # <<>> /\ sq' = Tail(sq) /\ Head(sq).op = "remove"
  BY DEF issue_remove, StateTypeOK
<1>2. \A s \in Slots : QueuedFor(s) \in Nat /\ AnsweredFor(s) \in Nat /\ WaitingFor(s) \in Nat
  BY Sums DEF SumsUp
<1>3. \A s \in Slots : QueuedFor(s)' = QueuedFor(s)
  <2> TAKE s \in Slots
  <2>1. QueuedFor(s) = QueuedFor(s)' + 0
    BY <1>1, QueueCounts
  <2>2. QueuedFor(s)' \in Nat
    BY HitsFinite DEF QueuedFor, StateTypeOK
  <2> QED
    BY <2>1, <2>2
<1>4. PICK done : done = Completion(NULL, NULL, {})
  OBVIOUS
<1>5. done \in Completions /\ done.slot = NULL /\ NULL \notin Slots
  BY <1>4, ReactorAssumption DEF Completion, Completions, Slots
<1>6. CASE cq' = Append(cq, done) /\ UNCHANGED armed
  <2>1. FinitelyArmed'
    BY <1>6 DEF FinitelyArmed, WaitsOf
  <2>2. ASSUME NEW s \in Slots PROVE Outstanding(s)' = Outstanding(s)
    <3>1. AnsweredFor(s)' = AnsweredFor(s) + (IF done.slot = s THEN 1 ELSE 0)
      BY <1>5, <1>6, AnswerCounts
    <3>2. AnsweredFor(s)' = AnsweredFor(s)
      BY <1>2, <1>5, <3>1
    <3>3. WaitingFor(s)' = WaitingFor(s)
      BY <1>6 DEF WaitingFor, WaitsOf
    <3>4. Outstanding(s) = QueuedFor(s) + AnsweredFor(s) + WaitingFor(s)
      BY Sums DEF SumsUp
    <3>5. Outstanding(s)' = QueuedFor(s)' + AnsweredFor(s)' + WaitingFor(s)'
      BY <2>1, SumsNext DEF SumsUp
    <3> QED
      BY <1>3, <3>2, <3>3, <3>4, <3>5
  <2> QED
    BY <2>1, <2>2
<1>7. ASSUME NEW p \in BagToSet(armed), armed' = armed (-) SetToBag({p}),
             cq' = cq \o <<Completion(p.slot, p.owner, ECANCELED), done>>
      PROVE  FinitelyArmed' /\ \A s \in Slots : Outstanding(s)' = Outstanding(s)
  <2>1. PICK c : c = Completion(p.slot, p.owner, ECANCELED)
    OBVIOUS
  <2>2. c \in Completions /\ c.slot = p.slot
    <3>1. p \in Polls
      BY DEF StateTypeOK
    <3> QED
      BY <2>1, <3>1 DEF Polls, Completion, Completions, ECANCELED, Bits
  <2>3. cq' = Append(Append(cq, c), done) /\ Append(cq, c) \in Seq(Completions)
    <3>1. cq \in Seq(Completions) /\ cq' = cq \o <<c, done>>
      BY <1>7, <2>1 DEF StateTypeOK
    <3> QED
      BY <1>5, <2>2, <3>1
  <2>4. ASSUME NEW s \in Slots
        PROVE  AnsweredFor(s)' = AnsweredFor(s) + (IF p.slot = s THEN 1 ELSE 0)
    <3>1. /\ c \in AnswersOf(s) <=> p.slot = s
          /\ done \notin AnswersOf(s)
      BY <1>5, <2>2 DEF AnswersOf
    <3>2. cq \in Seq(Completions)
      BY DEF StateTypeOK
    <3>3. Cardinality(Hits(Append(cq, c), AnswersOf(s))) =
            Cardinality(Hits(cq, AnswersOf(s))) + (IF c \in AnswersOf(s) THEN 1 ELSE 0)
      BY <2>2, <3>2, HitsAppend
    <3>4. Cardinality(Hits(Append(Append(cq, c), done), AnswersOf(s))) =
            Cardinality(Hits(Append(cq, c), AnswersOf(s)))
              + (IF done \in AnswersOf(s) THEN 1 ELSE 0)
      BY <1>5, <2>3, HitsAppend
    <3>5. Cardinality(Hits(Append(cq, c), AnswersOf(s))) \in Nat
      BY <2>3, HitsFinite
    <3>6. Cardinality(Hits(cq', AnswersOf(s))) = Cardinality(Hits(Append(cq, c), AnswersOf(s)))
      BY <2>3, <3>1, <3>4, <3>5
    <3> QED
      BY <3>1, <3>3, <3>6 DEF AnsweredFor, AnswersOf
  <2> QED
    BY <1>3, <1>7, <2>4, OutstandingAnswered
<1> QED
  BY <1>4, <1>6, <1>7 DEF issue_remove

(* A completed poll is answered.                                            *)
LEMMA OutstandingCompleted ==
  ASSUME StateTypeOK, StateTypeOK', FinitelyArmed, NEW f \in Descs, poll_complete(f)
  PROVE  FinitelyArmed' /\ \A s \in Slots : Outstanding(s)' = Outstanding(s)
<1>1. PICK p \in BagToSet(armed) :
        /\ armed' = armed (-) SetToBag({p})
        /\ cq' = Append(cq, Completion(p.slot, p.owner, ready[f] \cap Wanted(p.events)))
  BY DEF poll_complete
<1>2. PICK c : c = Completion(p.slot, p.owner, ready[f] \cap Wanted(p.events))
  OBVIOUS
<1>3. c \in Completions /\ c.slot = p.slot
  <2>1. p \in Polls /\ ready[f] \cap Wanted(p.events) \in SUBSET Bits
    BY <1>1 DEF StateTypeOK
  <2> QED
    BY <1>2, <2>1 DEF Polls, Completion, Completions
<1>4. \A s \in Slots : AnsweredFor(s)' = AnsweredFor(s) + (IF p.slot = s THEN 1 ELSE 0)
  BY <1>1, <1>2, <1>3, AnswerCounts
<1>5. \A s \in Slots : QueuedFor(s)' = QueuedFor(s)
  BY DEF poll_complete, QueuedFor, AddsOf
<1> QED
  BY <1>1, <1>4, <1>5, OutstandingAnswered

----------------------------------------------------------------------------
(* What a step does to the slots and the polls counted for them             *)

(* A poll is queued for slot t, or none is; its count, which was n, and the *)
(* number of its polls grow together.                                       *)
PollCounted(t, n) ==
  \E k \in {0, 1} :
    /\ slots'[t].in_flight = n + k
    /\ \A s \in Slots : Outstanding(s)' = Outstanding(s) + (IF s = t THEN k ELSE 0)

(* A handler is put into the free slot t.                                   *)
SlotTaken(t) ==
  /\ ~InUse(t) /\ PollCounted(t, 0) /\ FinitelyArmed'
  /\ \A s \in Slots \ {t} : slots'[s] = slots[s]
  /\ found' = [found EXCEPT ![t] = Outstanding(t)]
  /\ UNCHANGED <<pc, cur>>

(* The slot t in use may get one more poll: one whose count was 0, or at the*)
(* end of the callback of its descriptor.                                   *)
PollAdded(t) ==
  /\ InUse(t) /\ PollCounted(t, slots[t].in_flight) /\ FinitelyArmed'
  /\ \A s \in Slots : slots'[s].handler = slots[s].handler
  /\ \A s \in Slots \ {t} : slots'[s] = slots[s]
  /\ UNCHANGED found
  /\ \/ slots[t].in_flight = 0 /\ UNCHANGED <<pc, cur>>
     \/ pc = "callback" /\ pc' # "callback" /\ slots[t].handler = cur.desc

(* Handlers may go and interests change, but no count, and no callback      *)
(* begins.                                                                  *)
CountsKept ==
  /\ FinitelyArmed'
  /\ \A s \in Slots : Outstanding(s)' = Outstanding(s)
  /\ \A s \in Slots : slots'[s].in_flight = slots[s].in_flight
  /\ \A s \in Slots : slots'[s].handler \in {slots[s].handler, NULL}
  /\ UNCHANGED found
  /\ pc' = "callback" => pc = "callback" /\ cur'.desc = cur.desc

(* A completion is reaped, and counted off if it has a slot; a callback may *)
(* begin for the handler of that slot.                                      *)
PollReaped ==
  /\ cq # <<>> /\ cq' = Tail(cq) /\ UNCHANGED <<sq, armed, found>>
  /\ \A s \in Slots : slots'[s].handler = slots[s].handler
  /\ \A s \in Slots :
       slots'[s].in_flight = IF Head(cq).slot = s /\ slots[s].in_flight > 0
                             THEN slots[s].in_flight - 1 ELSE slots[s].in_flight
  /\ pc' = "callback" =>
       Head(cq).slot \in Slots /\ cur'.desc = slots[Head(cq).slot].handler

(* Queueing a poll counts it; a lost poll is not counted.                   *)
LEMMA SubmitCounts ==
  ASSUME StateTypeOK, StateTypeOK', FinitelyArmed, UNCHANGED <<armed, cq>>,
         NEW t \in Slots, NEW slot \in PollSlots, NEW d \in Descs, NEW fd \in Fds,
         NEW b \in BOOLEAN, reactor_poll_submit_fd(t, slot, d, fd, b)
  PROVE  FinitelyArmed' /\ PollCounted(t, slot.in_flight)
<1>1. \A s \in Slots : Outstanding(s) \in Nat
  BY Sums DEF SumsUp
<1>2. slots \in [Slots -> PollSlots] /\ slot.in_flight \in Nat
  BY DEF StateTypeOK, PollSlots
<1>3. CASE Submitted(t, slot, d, fd)
  <2>1. PICK e : e = AddEntry(t, d, fd, slot.events)
    OBVIOUS
  <2>2. e \in Entries /\ e.op = "add" /\ e.slot = t
    BY <2>1, EntryTypes DEF AddEntry, PollSlots
  <2>3. sq' = Append(sq, e)
    BY <1>3, <2>1 DEF Submitted
  <2>4. QueuesFor(t)
    BY <2>2, <2>3 DEF QueuesFor
  <2>5. slots'[t].in_flight = slot.in_flight + 1
    BY <1>2, <1>3 DEF Submitted, PollSlots
  <2>6. /\ FinitelyArmed'
        /\ \A s \in Slots : Outstanding(s)' = Outstanding(s) + (IF s = t THEN 1 ELSE 0)
    BY <2>4, OutstandingQueued
  <2> QED
    BY <2>5, <2>6 DEF PollCounted
<1>4. CASE NotSubmitted(t, slot, d)
  <2>1. QueuesNothing
    BY <1>4 DEF QueuesNothing, NotSubmitted
  <2>2. FinitelyArmed' /\ \A s \in Slots : Outstanding(s)' = Outstanding(s)
    BY <2>1, OutstandingSame
  <2>3. slots'[t].in_flight = slot.in_flight + 0
    BY <1>2, <1>4 DEF NotSubmitted
  <2>4. \A s \in Slots : Outstanding(s)' = Outstanding(s) + (IF s = t THEN 0 ELSE 0)
    BY <1>1, <2>2
  <2> QED
    BY <2>2, <2>3, <2>4 DEF PollCounted
<1> QED
  BY <1>3, <1>4, SubmitSplit

(* A step that changes no slot and queues no poll.                          *)
LEMMA KeptCounts ==
  ASSUME StateTypeOK, StateTypeOK', FinitelyArmed, UNCHANGED <<slots, found>>,
         QueuesNothing, pc' = "callback" => pc = "callback" /\ cur'.desc = cur.desc
  PROVE  CountsKept
BY OutstandingSame DEF CountsKept

(* Registering a descriptor.                                                *)
LEMMA AddCounts ==
  ASSUME StateTypeOK, StateTypeOK', FinitelyArmed, NEW d \in Descs, NEW fd \in Fds,
         NEW m \in Interests, reactor_add(d, fd, m), UNCHANGED <<armed, cq, pc, cur>>
  PROVE  (\E t \in Slots : SlotTaken(t)) \/ CountsKept
<1>1. CASE UNCHANGED <<core, sq, flush, history>>
  BY <1>1, KeptCounts DEF core, history, QueuesNothing
<1>2. ASSUME NEW t \in Slots, reactor_slot_acquire(t),
             found' = [found EXCEPT ![t] = Outstanding(t)],
             reactor_poll_submit_fd(t, [handler |-> d, events |-> m, in_flight |-> 0],
                                    d, fd, TRUE)
      PROVE  SlotTaken(t)
  <2>1. [handler |-> d, events |-> m, in_flight |-> 0] \in PollSlots
    BY DEF PollSlots
  <2>2. FinitelyArmed' /\ PollCounted(t, 0)
    BY <1>2, <2>1, SubmitCounts
  <2>3. \A s \in Slots \ {t} : slots'[s] = slots[s]
    BY <1>2, <2>1, SubmitSlots
  <2> QED
    BY <1>2, <2>2, <2>3 DEF SlotTaken, reactor_slot_acquire
<1> QED
  BY <1>1, <1>2 DEF reactor_add

(* A mask change queues a poll only when the count is 0.                    *)
LEMMA MaskCounts ==
  ASSUME StateTypeOK, StateTypeOK', TableInv, FinitelyArmed,
         NEW d \in Descs, NEW m \in Masks, descriptor_mask(d, m)
  PROVE  \/ \E t \in Slots : SlotTaken(t)
         \/ \E t \in Slots : PollAdded(t)
         \/ CountsKept
<1>1. /\ IsOpen(d) /\ reactor_modify(d, desc[d].fd, m)
      /\ UNCHANGED <<armed, cq, pc, cur>> /\ m \in Interests
  BY ReactorAssumption DEF descriptor_mask, kernel, loop
<1>2. PICK fd \in Fds : fd = desc[d].fd
  BY <1>1 DEF IsOpen, StateTypeOK
<1>3. CASE reactor_add(d, fd, m)
  BY <1>1, <1>3, AddCounts
<1>4. CASE UNCHANGED <<core, sq, flush, history>>
  BY <1>1, <1>4, KeptCounts DEF core, history, QueuesNothing
<1>5. ASSUME fds[fd] # NULL
      PROVE  fds[fd] \in Slots /\ InUse(fds[fd])
  BY <1>5 DEF StateTypeOK, TableInv, FdTable
<1>6. CASE /\ fds[fd] # NULL
           /\ slots' = [slots EXCEPT ![fds[fd]].events = m]
           /\ UNCHANGED <<fds, next_free_slot, descriptors, sq, flush, history>>
  <2>1. /\ \A s \in Slots : slots'[s].in_flight = slots[s].in_flight
        /\ \A s \in Slots : slots'[s].handler = slots[s].handler
    BY <1>5, <1>6 DEF StateTypeOK, PollSlots
  <2>2. QueuesNothing /\ UNCHANGED found
    BY <1>1, <1>6 DEF QueuesNothing, history
  <2>3. FinitelyArmed' /\ \A s \in Slots : Outstanding(s)' = Outstanding(s)
    BY <2>2, OutstandingSame
  <2> QED
    BY <1>1, <2>1, <2>2, <2>3 DEF CountsKept
<1>7. ASSUME NEW t, t = fds[fd], t # NULL, slots[t].in_flight = 0,
             reactor_poll_submit_fd(t, [slots[t] EXCEPT !.events = m], d, fd, FALSE),
             UNCHANGED found
      PROVE  PollAdded(t) /\ t \in Slots
  <2>1. t \in Slots /\ InUse(t)
    BY <1>5, <1>7
  <2>2. PICK slot : slot = [slots[t] EXCEPT !.events = m]
    OBVIOUS
  <2>3. slot \in PollSlots /\ slot.handler = slots[t].handler /\ slot.in_flight = 0
    <3>1. slots[t] \in PollSlots
      BY <2>1 DEF StateTypeOK
    <3> QED
      BY <1>1, <1>7, <2>2, <3>1 DEF PollSlots
  <2>4. reactor_poll_submit_fd(t, slot, d, fd, FALSE)
    BY <1>7, <2>2
  <2>5. FinitelyArmed' /\ PollCounted(t, slots[t].in_flight)
    BY <1>1, <1>7, <2>1, <2>3, <2>4, SubmitCounts
  <2>6. /\ slots'[t].handler = slots[t].handler
        /\ \A s \in Slots \ {t} : slots'[s] = slots[s]
    BY <2>1, <2>3, <2>4, SubmitSlots
  <2> QED
    BY <1>1, <1>7, <2>1, <2>5, <2>6 DEF PollAdded
<1> QED
  BY <1>1, <1>2, <1>3, <1>4, <1>6, <1>7 DEF reactor_modify

(* Closing a descriptor counts off no poll.                                 *)
LEMMA CloseCounts ==
  ASSUME StateTypeOK, StateTypeOK', FinitelyArmed, NEW d \in Descs, descriptor_close(d)
  PROVE  CountsKept
<1>1. /\ IsOpen(d) /\ reactor_delete(desc[d].fd)
      /\ UNCHANGED <<armed, cq, found, pc, cur>>
  BY DEF descriptor_close, loop
<1>2. PICK fd \in Fds : fd = desc[d].fd
  BY <1>1 DEF IsOpen, StateTypeOK
<1>3. CASE UNCHANGED <<core, sq>>
  BY <1>1, <1>3, KeptCounts DEF core, QueuesNothing
<1>4. CASE /\ fds[fd] # NULL
           /\ sq' = IF Len(sq) < SqSize THEN Append(sq, RemoveEntry(fds[fd])) ELSE sq
           /\ slots' = [slots EXCEPT ![fds[fd]].handler = NULL]
  <2>1. PICK t \in Slots : t = fds[fd]
    BY <1>4 DEF StateTypeOK
  <2>2. /\ \A s \in Slots : slots'[s].in_flight = slots[s].in_flight
        /\ \A s \in Slots : slots'[s].handler \in {slots[s].handler, NULL}
    BY <1>4, <2>1 DEF StateTypeOK, PollSlots
  <2>3. RemoveEntry(t) \in Entries /\ RemoveEntry(t).op = "remove"
    BY EntryTypes DEF RemoveEntry
  <2>4. QueuesNothing
    BY <1>1, <1>4, <2>1, <2>3 DEF QueuesNothing
  <2>5. FinitelyArmed' /\ \A s \in Slots : Outstanding(s)' = Outstanding(s)
    BY <2>4, OutstandingSame
  <2> QED
    BY <1>1, <2>2, <2>5 DEF CountsKept
<1> QED
  BY <1>1, <1>2, <1>3, <1>4 DEF reactor_delete

(* The reaping steps.                                                       *)
LEMMA ReapCounts ==
  ASSUME StateTypeOK, reap_drop \/ reap_dispatch
  PROVE  PollReaped
<1>1. /\ pc = "reap" /\ cq # <<>> /\ cq' = Tail(cq) /\ UNCHANGED <<sq, armed, found>>
  BY DEF reap_drop, reap_dispatch, history
<1>2. Head(cq) \in Completions
  BY <1>1, RangeTail DEF StateTypeOK
<1>3. CASE Head(cq).slot = NULL /\ UNCHANGED slots /\ pc' # "callback"
  <2>1. NULL \notin Slots
    BY ReactorAssumption DEF Slots
  <2> QED
    BY <1>1, <1>3, <2>1 DEF PollReaped
<1>4. CASE /\ Head(cq).slot # NULL /\ slots' = InFlightLess(Head(cq).slot)
           /\ pc' = "callback" => cur'.desc = slots[Head(cq).slot].handler
  <2>1. PICK t \in Slots : t = Head(cq).slot
    BY <1>2, <1>4 DEF Completions
  <2>2. PICK n : n = IF slots[t].in_flight > 0 THEN slots[t].in_flight - 1 ELSE 0
    OBVIOUS
  <2>3. slots' = [slots EXCEPT ![t].in_flight = n]
    BY <1>4, <2>1, <2>2 DEF InFlightLess
  <2>4. /\ \A s \in Slots : slots'[s].handler = slots[s].handler
        /\ slots'[t].in_flight = n
        /\ \A s \in Slots \ {t} : slots'[s].in_flight = slots[s].in_flight
    BY <2>3 DEF StateTypeOK, PollSlots
  <2>5. slots[t].in_flight \in Nat
    BY DEF StateTypeOK, PollSlots
  <2>6. \A s \in Slots :
          slots'[s].in_flight = IF Head(cq).slot = s /\ slots[s].in_flight > 0
                                THEN slots[s].in_flight - 1 ELSE slots[s].in_flight
    BY <2>1, <2>2, <2>4, <2>5
  <2> QED
    BY <1>1, <1>4, <2>1, <2>4, <2>6 DEF PollReaped
<1> QED
  BY <1>1, <1>3, <1>4 DEF reap_drop, reap_dispatch

(* The re-arm adds a poll to the slot of the descriptor whose callback ends.*)
LEMMA RearmCounts ==
  ASSUME StateTypeOK, StateTypeOK', TableInv, FinitelyArmed, rearm
  PROVE  (\E t \in Slots : PollAdded(t)) \/ CountsKept
<1>0. SlotOwnership
  BY TableOwnership
<1>1. /\ cur.desc \in Descs /\ pc = "callback" /\ pc' # "callback"
      /\ UNCHANGED <<armed, cq, found>>
  BY DEF rearm, StateTypeOK, kernel
<1>2. CASE UNCHANGED <<slots, sq, lost>>
  BY <1>1, <1>2, KeptCounts DEF QueuesNothing
<1>3. ASSUME NEW fd, NEW t, fd = desc[cur.desc].fd, t = fds[fd], fd # NULL, t # NULL,
             reactor_poll_submit_fd(t, slots[t], cur.desc, fd, count = Batch)
      PROVE  t \in Slots /\ PollAdded(t)
  <2>1. /\ fd \in Fds /\ t \in Slots /\ InUse(t) /\ slots[t].handler = cur.desc
    BY <1>0, <1>1, <1>3
    DEF StateTypeOK, TableInv, FdTable, SlotOwnership, SlotOf, Registered, IsOpen
  <2>2. slots[t] \in PollSlots /\ (count = Batch) \in BOOLEAN
    BY <2>1 DEF StateTypeOK
  <2>3. FinitelyArmed' /\ PollCounted(t, slots[t].in_flight)
    BY <1>1, <1>3, <2>1, <2>2, SubmitCounts
  <2>4. /\ slots'[t].handler = slots[t].handler
        /\ \A s \in Slots \ {t} : slots'[s] = slots[s]
    BY <1>3, <2>1, <2>2, SubmitSlots
  <2> QED
    BY <1>1, <2>1, <2>3, <2>4 DEF PollAdded
<1> QED
  BY <1>2, <1>3 DEF rearm

(* The remaining steps leave the slots and the counts alone.                *)
LEMMA OtherCounts ==
  ASSUME StateTypeOK, StateTypeOK', FinitelyArmed,
         \/ enter_loop \/ wake \/ wait_again \/ reap_done \/ handler_return \/ Kernel
         \/ \E b \in Bits : consume(b)
         \/ \E d \in Descs, b \in PeerBits : file_ready(d, b)
         \/ UNCHANGED vars
  PROVE  CountsKept
<1>1. CASE issue_add
  BY <1>1, OutstandingIssued DEF issue_add, core, loop, history, CountsKept
<1>2. CASE issue_remove
  BY <1>2, OutstandingCanceled DEF issue_remove, core, loop, history, CountsKept
<1>3. ASSUME NEW f \in Descs, poll_complete(f)
      PROVE  CountsKept
  BY <1>3, OutstandingCompleted DEF poll_complete, core, loop, history, CountsKept
<1>4. CASE enter_loop \/ wake \/ wait_again \/ reap_done
  BY <1>4, KeptCounts
  DEF enter_loop, wake, wait_again, reap_done, core, kernel, loop, history, QueuesNothing
<1>7. CASE handler_return
  <2>1. cur'.desc = cur.desc
    BY <1>7 DEF handler_return, StateTypeOK
  <2> QED
    BY <1>7, <2>1, KeptCounts DEF handler_return, core, kernel, history, QueuesNothing
<1>5. CASE \/ \E b \in Bits : consume(b)
           \/ \E d \in Descs, b \in PeerBits : file_ready(d, b)
  BY <1>5, KeptCounts DEF consume, file_ready, core, loop, history, QueuesNothing
<1>6. CASE UNCHANGED vars
  BY <1>6, KeptCounts DEF vars, core, kernel, loop, history, QueuesNothing
<1> QED
  BY <1>1, <1>2, <1>3, <1>4, <1>5, <1>6, <1>7 DEF Kernel

(* A step takes a free slot, adds a poll to a slot in use, reaps one        *)
(* completion, or leaves the counts alone.                                  *)
LEMMA StepCounts ==
  ASSUME StateTypeOK, StateTypeOK', TableInv, FinitelyArmed, [Next]_vars
  PROVE  \/ \E t \in Slots : SlotTaken(t)
         \/ \E t \in Slots : PollAdded(t)
         \/ PollReaped
         \/ CountsKept
<1>0. OpenMasks \subseteq Interests
  BY ReactorAssumption
<1>2. CASE \E d \in Descs, fd \in Fds, m \in OpenMasks : descriptor_open(d, fd, m)
  BY <1>0, <1>2, AddCounts DEF descriptor_open, kernel, loop
<1>3. CASE \E d \in Descs, m \in Masks : descriptor_mask(d, m)
  BY <1>3, MaskCounts
<1>4. CASE \E d \in Descs : descriptor_close(d)
  BY <1>4, CloseCounts
<1>5. CASE reap_drop \/ reap_dispatch
  BY <1>5, ReapCounts
<1>6. CASE rearm
  BY <1>6, RearmCounts
<1> QED
  BY <1>2, <1>3, <1>4, <1>5, <1>6, OtherCounts DEF Next, Consumer, Loop

----------------------------------------------------------------------------
(* in_flight promises no poll that does not exist                           *)

(* Taking a slot and adding a poll raise the count and the polls together;  *)
(* a reaped completion lowers both.                                         *)
LEMMA BackedStep ==
  StateTypeOK /\ TableInv /\ FinitelyArmed /\ InFlightIsBacked /\ [Next]_vars
    => FinitelyArmed' /\ InFlightIsBacked'
<1> SUFFICES ASSUME StateTypeOK, TableInv, FinitelyArmed, InFlightIsBacked, [Next]_vars
             PROVE  FinitelyArmed' /\ InFlightIsBacked'
  OBVIOUS
<1>0. StateTypeOK'
  BY TypeStep
<1>1. \A s \in Slots : /\ slots[s].in_flight \in Nat /\ Outstanding(s) \in Nat
                       /\ InUse(s) => slots[s].in_flight <= Outstanding(s)
  BY Sums DEF SumsUp, StateTypeOK, PollSlots, InFlightIsBacked
<1>2. (\A s \in Slots : slots'[s].handler # NULL => slots'[s].in_flight <= Outstanding(s)')
        => InFlightIsBacked'
  BY DEF InFlightIsBacked, InUse
<1>3. ASSUME NEW t \in Slots, SlotTaken(t)
      PROVE  FinitelyArmed' /\ InFlightIsBacked'
  <2>1. PICK k \in {0, 1} :
          /\ slots'[t].in_flight = 0 + k
          /\ \A s \in Slots : Outstanding(s)' = Outstanding(s) + (IF s = t THEN k ELSE 0)
    BY <1>3 DEF SlotTaken, PollCounted
  <2>2. FinitelyArmed' /\ \A s \in Slots \ {t} : slots'[s] = slots[s]
    BY <1>3 DEF SlotTaken
  <2> QED
    BY <1>1, <1>2, <2>1, <2>2 DEF InUse
<1>4. ASSUME NEW t \in Slots, PollAdded(t)
      PROVE  FinitelyArmed' /\ InFlightIsBacked'
  <2>1. PICK k \in {0, 1} :
          /\ slots'[t].in_flight = slots[t].in_flight + k
          /\ \A s \in Slots : Outstanding(s)' = Outstanding(s) + (IF s = t THEN k ELSE 0)
    BY <1>4 DEF PollAdded, PollCounted
  <2>2. /\ FinitelyArmed' /\ InUse(t)
        /\ \A s \in Slots \ {t} : slots'[s] = slots[s]
    BY <1>4 DEF PollAdded
  <2> QED
    BY <1>1, <1>2, <2>1, <2>2 DEF InUse
<1>5. CASE PollReaped
  <2>1. /\ FinitelyArmed'
        /\ \A s \in Slots :
             Outstanding(s) = Outstanding(s)' + (IF Head(cq).slot = s THEN 1 ELSE 0)
    BY <1>0, <1>5, OutstandingReaped DEF PollReaped
  <2>2. \A s \in Slots : Outstanding(s)' \in Nat
    BY <1>0, <2>1, SumsNext DEF SumsUp
  <2>3. ASSUME NEW s \in Slots, slots'[s].handler # NULL
        PROVE  slots'[s].in_flight <= Outstanding(s)'
    <3>1. slots[s].in_flight <= Outstanding(s)
      BY <1>1, <1>5, <2>3 DEF PollReaped, InUse
    <3>2. slots'[s].in_flight = IF Head(cq).slot = s /\ slots[s].in_flight > 0
                                THEN slots[s].in_flight - 1 ELSE slots[s].in_flight
      BY <1>5 DEF PollReaped
    <3> QED
      BY <1>1, <2>1, <2>2, <3>1, <3>2
  <2> QED
    BY <1>2, <2>1, <2>3
<1>6. CASE CountsKept
  BY <1>1, <1>2, <1>6 DEF CountsKept, InUse
<1> QED
  BY <1>0, <1>3, <1>4, <1>5, <1>6, StepCounts

(* Initially there are no polls.                                            *)
LEMMA FinitelyArmedInit == Init => FinitelyArmed
<1> SUFFICES ASSUME Init, NEW s \in Slots PROVE IsFiniteSet(Copies(armed, WaitsOf(s)))
  BY DEF FinitelyArmed
<1>1. Copies(armed, WaitsOf(s)) = {}
  BY DEF Init, Copies, EmptyBag, SetToBag, BagToSet
<1> QED
  BY <1>1, FS_EmptySet

(* In every reachable state in_flight of a slot in use is at most the number*)
(* of polls that carry the slot: when reactor_modify sees a positive count  *)
(* and queues nothing, a poll is there to bring the new mask into force,    *)
(* also in a slot that changed hands with completions of its old owner to   *)
(* come.                                                                    *)
THEOREM InFlightIsBackedHolds == Spec => []InFlightIsBacked
<1>1. Init => FinitelyArmed /\ InFlightIsBacked
  <2>1. Init => InFlightIsBacked
    BY DEF Init, InFlightIsBacked, InUse
  <2> QED
    BY <2>1, FinitelyArmedInit
<1>2. Spec => [](StateTypeOK /\ TableInv)
  BY TableInit, StateTyped, TableStep, PTL DEF Spec
<1> QED
  BY <1>1, <1>2, BackedStep, PTL DEF Spec

----------------------------------------------------------------------------
(* Polls do not accumulate                                                  *)

(* A slot has no more polls than it had when it was last acquired and those *)
(* counted since.  The count is at most 2, and at most 1 in the callback of *)
(* its descriptor, which the re-arm ends.                                   *)
FewPolls ==
  /\ found \in [Slots -> Nat]
  /\ \A s \in Slots : InUse(s) =>
       /\ Outstanding(s) <= found[s] + slots[s].in_flight
       /\ slots[s].in_flight <= 2
       /\ pc = "callback" /\ slots[s].handler = cur.desc => slots[s].in_flight <= 1

(* FewPolls in the next state, in terms of one slot.                        *)
LEMMA FewPollsNext ==
  ASSUME (found \in [Slots -> Nat])',
         \A s \in Slots : slots'[s].handler # NULL =>
           /\ Outstanding(s)' <= found'[s] + slots'[s].in_flight
           /\ slots'[s].in_flight <= 2
           /\ pc' = "callback" /\ slots'[s].handler = cur'.desc => slots'[s].in_flight <= 1
  PROVE  FewPolls'
BY DEF FewPolls, InUse

(* Every step keeps it.                                                     *)
LEMMA FewStep ==
  StateTypeOK /\ TableInv /\ FinitelyArmed /\ FewPolls /\ [Next]_vars => FewPolls'
<1> SUFFICES ASSUME StateTypeOK, TableInv, FinitelyArmed, FewPolls, [Next]_vars
             PROVE  FewPolls'
  OBVIOUS
<1>0. StateTypeOK' /\ SlotOwnership
  BY TypeStep, TableOwnership
<1>1. \A s \in Slots : slots[s].in_flight \in Nat /\ Outstanding(s) \in Nat
  BY Sums DEF SumsUp, StateTypeOK, PollSlots
<1>2. /\ found \in [Slots -> Nat]
      /\ \A s \in Slots : InUse(s) =>
           /\ Outstanding(s) <= found[s] + slots[s].in_flight
           /\ slots[s].in_flight <= 2
           /\ pc = "callback" /\ slots[s].handler = cur.desc => slots[s].in_flight <= 1
  BY DEF FewPolls
<1>3. ASSUME NEW t \in Slots, SlotTaken(t)
      PROVE  FewPolls'
  <2>1. PICK k \in {0, 1} :
          /\ slots'[t].in_flight = 0 + k
          /\ \A s \in Slots : Outstanding(s)' = Outstanding(s) + (IF s = t THEN k ELSE 0)
    BY <1>3 DEF SlotTaken, PollCounted
  <2>2. /\ \A s \in Slots \ {t} : slots'[s] = slots[s]
        /\ UNCHANGED <<pc, cur>>
    BY <1>3 DEF SlotTaken
  <2>3. /\ found' \in [Slots -> Nat] /\ found'[t] = Outstanding(t)
        /\ \A s \in Slots \ {t} : found'[s] = found[s]
    BY <1>1, <1>2, <1>3 DEF SlotTaken
  <2>4. ASSUME NEW s \in Slots, slots'[s].handler # NULL
        PROVE  /\ Outstanding(s)' <= found'[s] + slots'[s].in_flight
               /\ slots'[s].in_flight <= 2
               /\ pc' = "callback" /\ slots'[s].handler = cur'.desc => slots'[s].in_flight <= 1
    <3>1. CASE s = t
      BY <1>1, <2>1, <2>3, <3>1
    <3>2. CASE s # t
      <4>1. slots'[s] = slots[s] /\ InUse(s) /\ found'[s] = found[s] /\ Outstanding(s)' = Outstanding(s)
        BY <1>1, <2>1, <2>2, <2>3, <2>4, <3>2 DEF InUse
      <4> QED
        BY <1>2, <2>2, <4>1
    <3> QED
      BY <3>1, <3>2
  <2> QED
    BY <2>3, <2>4, FewPollsNext
<1>4. ASSUME NEW t \in Slots, PollAdded(t)
      PROVE  FewPolls'
  <2>1. PICK k \in {0, 1} :
          /\ slots'[t].in_flight = slots[t].in_flight + k
          /\ \A s \in Slots : Outstanding(s)' = Outstanding(s) + (IF s = t THEN k ELSE 0)
    BY <1>4 DEF PollAdded, PollCounted
  <2>2. /\ InUse(t) /\ found' = found
        /\ \A s \in Slots \ {t} : slots'[s] = slots[s]
        /\ \/ slots[t].in_flight = 0 /\ UNCHANGED <<pc, cur>>
           \/ pc = "callback" /\ pc' # "callback" /\ slots[t].handler = cur.desc
    BY <1>4 DEF PollAdded
  <2>3. ASSUME NEW s \in Slots, slots'[s].handler # NULL
        PROVE  /\ Outstanding(s)' <= found'[s] + slots'[s].in_flight
               /\ slots'[s].in_flight <= 2
               /\ pc' = "callback" /\ slots'[s].handler = cur'.desc => slots'[s].in_flight <= 1
    <3>1. CASE s = t
      <4>1. /\ Outstanding(t) <= found[t] + slots[t].in_flight /\ found[t] \in Nat
            /\ slots[t].in_flight <= 1
        BY <1>2, <2>2
      <4> QED
        BY <1>1, <2>1, <2>2, <3>1, <4>1
    <3>2. CASE s # t
      <4>1. slots'[s] = slots[s] /\ InUse(s) /\ found'[s] = found[s] /\ Outstanding(s)' = Outstanding(s)
        BY <1>1, <2>1, <2>2, <2>3, <3>2 DEF InUse
      <4> QED
        BY <1>2, <2>2, <4>1
    <3> QED
      BY <3>1, <3>2
  <2> QED
    BY <1>2, <2>2, <2>3, FewPollsNext
<1>5. CASE PollReaped
  <2>1. \A s \in Slots :
          Outstanding(s) = Outstanding(s)' + (IF Head(cq).slot = s THEN 1 ELSE 0)
    BY <1>0, <1>5, OutstandingReaped DEF PollReaped
  <2>2. FinitelyArmed'
    BY <1>0, <1>5, OutstandingReaped DEF PollReaped
  <2>3. \A s \in Slots : Outstanding(s)' \in Nat
    BY <1>0, <2>2, SumsNext DEF SumsUp
  <2>4. ASSUME NEW s \in Slots, slots'[s].handler # NULL
        PROVE  /\ Outstanding(s)' <= found'[s] + slots'[s].in_flight
               /\ slots'[s].in_flight <= 2
               /\ pc' = "callback" /\ slots'[s].handler = cur'.desc => slots'[s].in_flight <= 1
    <3>1. InUse(s) /\ slots'[s].handler = slots[s].handler /\ found' = found
      BY <1>5, <2>4 DEF PollReaped, InUse
    <3>2. slots'[s].in_flight = IF Head(cq).slot = s /\ slots[s].in_flight > 0
                                THEN slots[s].in_flight - 1 ELSE slots[s].in_flight
      BY <1>5 DEF PollReaped
    <3>3. /\ Outstanding(s) <= found[s] + slots[s].in_flight /\ found[s] \in Nat
          /\ slots[s].in_flight <= 2
      BY <1>2, <3>1
    <3>4. Outstanding(s) = Outstanding(s)' + (IF Head(cq).slot = s THEN 1 ELSE 0)
      BY <2>1
    <3>5. Outstanding(s)' <= found'[s] + slots'[s].in_flight /\ slots'[s].in_flight <= 2
      BY <1>1, <2>3, <3>1, <3>2, <3>3, <3>4
    <3>6. ASSUME pc' = "callback", slots'[s].handler = cur'.desc
          PROVE  slots'[s].in_flight <= 1
      <4>1. Head(cq).slot \in Slots /\ slots[s].handler = slots[Head(cq).slot].handler
        BY <1>5, <3>1, <3>6 DEF PollReaped
      <4>2. Head(cq).slot = s
        BY <1>0, <3>1, <4>1 DEF SlotOwnership, InUse
      <4> QED
        BY <1>1, <3>2, <3>3, <4>2
    <3> QED
      BY <3>5, <3>6
  <2>5. found' = found
    BY <1>5 DEF PollReaped
  <2> QED
    BY <1>2, <2>4, <2>5, FewPollsNext
<1>6. CASE CountsKept
  <2>1. ASSUME NEW s \in Slots, slots'[s].handler # NULL
        PROVE  /\ Outstanding(s)' <= found'[s] + slots'[s].in_flight
               /\ slots'[s].in_flight <= 2
               /\ pc' = "callback" /\ slots'[s].handler = cur'.desc => slots'[s].in_flight <= 1
    <3>1. /\ slots'[s].handler = slots[s].handler /\ slots'[s].in_flight = slots[s].in_flight
          /\ Outstanding(s)' = Outstanding(s) /\ found' = found
          /\ pc' = "callback" => pc = "callback" /\ cur'.desc = cur.desc
      BY <1>6, <2>1 DEF CountsKept
    <3>2. InUse(s)
      BY <2>1, <3>1 DEF InUse
    <3> QED
      BY <1>2, <3>1, <3>2
  <2>2. found' = found
    BY <1>6 DEF CountsKept
  <2> QED
    BY <1>2, <2>1, <2>2, FewPollsNext
<1> QED
  BY <1>0, <1>3, <1>4, <1>5, <1>6, StepCounts

(* Both counting invariants hold in every reachable state.                  *)
LEMMA FewPollsHolds == Spec => [](StateTypeOK /\ FinitelyArmed /\ FewPolls)
<1>1. Init => FewPolls
  BY DEF Init, FewPolls, InUse
<1>2. Init => FinitelyArmed /\ InFlightIsBacked
  <2>1. Init => InFlightIsBacked
    BY DEF Init, InFlightIsBacked, InUse
  <2> QED
    BY <2>1, FinitelyArmedInit
<1>3. Spec => [](StateTypeOK /\ TableInv)
  BY TableInit, StateTyped, TableStep, PTL DEF Spec
<1>4. Spec => [](FinitelyArmed /\ InFlightIsBacked)
  BY <1>2, <1>3, BackedStep, PTL DEF Spec
<1> QED
  BY <1>1, <1>3, <1>4, FewStep, PTL DEF Spec

(* Doubled polls do not accumulate: a registration never adds more than two *)
(* to the polls its slot was acquired with, through any number of mask      *)
(* changes, completions of former owners, re-arms and lost polls, and       *)
(* however often slots change hands.                                        *)
THEOREM AtMostTwoPollsHolds == Spec => []AtMostTwoPolls
<1>1. StateTypeOK /\ FinitelyArmed /\ FewPolls => AtMostTwoPolls
  <2> SUFFICES ASSUME StateTypeOK, FinitelyArmed, FewPolls, NEW s \in Slots, InUse(s)
               PROVE  Outstanding(s) <= found[s] + 2
    BY DEF AtMostTwoPolls
  <2>1. /\ Outstanding(s) \in Nat /\ slots[s].in_flight \in Nat /\ found[s] \in Nat
        /\ Outstanding(s) <= found[s] + slots[s].in_flight /\ slots[s].in_flight <= 2
    BY Sums DEF SumsUp, StateTypeOK, PollSlots, FewPolls
  <2> QED
    BY <2>1
<1> QED
  BY <1>1, FewPollsHolds, PTL

(* The loop's data are well typed in every reachable state: in particular   *)
(* a system call never takes more entries than are queued, in_flight does   *)
(* not go below 0, and what is being dispatched is a descriptor.            *)
THEOREM TypeCorrect == Spec => []TypeOK
<1>1. StateTypeOK /\ FewPolls => TypeOK
  BY DEF TypeOK, FewPolls
<1> QED
  BY <1>1, FewPollsHolds, PTL

(* The whole inductive invariant, whose parts the runs check.              *)
THEOREM ReactorInvHolds == Spec => []ReactorInv
<1>1. TypeOK /\ SlotOwnership /\ TableInv /\ PollsInv => ReactorInv
  BY DEF ReactorInv, TableInv, PollsInv
<1>2. Spec => [](StateTypeOK /\ TableInv)
  BY TableInit, StateTyped, TableStep, PTL DEF Spec
<1>3. Spec => []PollsInv
  BY <1>2, PollsInit, PollsStep, PTL DEF Spec
<1> QED
  BY <1>1, <1>2, <1>3, SlotOwnershipHolds, TypeCorrect, PTL
=============================================================================
