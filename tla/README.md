# A specification of libreactor-server

TLA+ models of the servers in this repository: the io_uring event loop of
`third_party/libreactor`, the HTTP and binary connections served on it, the
processes that run it, and the load generators of `bench/`. TLC checks the models on
small instances; TLAPS proves the safety invariants of the event loop, of the HTTP and
binary connections, of the load generators, of the process tree, of what a process owns
and of the response builder for every instance, and that the HTTP connection implements
its abstract responder.

| module | models | checked by | proved in |
|---|---|---|---|
| `Reactor` | `core.c`, `descriptor.c`, io_uring | `MCReactor` with `ReactorSlots`, `ReactorContract`, `ReactorStale`, `ReactorEpoll` | `ReactorProofs` |
| `HttpConnection` | `server.c`, `stream.c`, `domain/http_server.c`, one client | `HttpPipeline`, `HttpKeepAlive`, `HttpReset` | `HttpConnectionProofs` |
| `Responder` | nothing: the abstract responder `HttpConnection` implements | `HttpPipeline` | `HttpConnectionProofs` |
| `HttpResponse` | `domain/http_response.c` and its configurations in `http_server.c` | - | `HttpResponseProofs` |
| `BinaryServer` | `binary_server.c`, its stream and sockets | composed in `BinarySystem`: `MCBinary` with `BinaryClients` | `BinaryProofs`, `BinaryReplyProofs` |
| `BinaryClient`, `BinaryThreads`, `BinaryUring` | `binary_loadgen.c`, `binary_loadgen_uring.c` | as above | `BinaryProofs`, `BinaryUringProofs` |
| `Infrastructure` | `server_infrastructure.c`, `process.c`, `signals.c`, `system.c` as one process sees them | `InfrastructureSteps` | `InfrastructureProofs` |
| `Supervisor` | `process.c`, `signals.c`, `server_infrastructure.c`, `libreactor-binary-server.c` | `SupervisorTree`, `SupervisorSignal`, `SupervisorShutdown` | `SupervisorProofs` |

Run `tlc -config ReactorSlots.cfg MCReactor`, `tlc -config HttpPipeline.cfg
HttpConnection`, `tlc -config BinaryClients.cfg MCBinary`, `tlc -config
SupervisorTree.cfg Supervisor`, and `tlapm ReactorProofs.tla`.

## 1. The system

**Processes.** `libreactor`, `libreactor-server` (HTTP) and
`libreactor-binary-server` fork one worker per CPU. Workers share nothing but the
listening port (SO_REUSEPORT); the HTTP server's parent waits on an eventfd for
each worker in turn, then blocks in `wait()`; the binary server's parent forks all
and joins each. Signals set a flag in the parent (`signals.c`) and clear
`reactor_core.active` in a worker (`core.c`), which ends its loop.
*State:* the flag, `active`, the eventfds, the children. *Correct when:* start-up is
serial and does not deadlock, signals and deaths bring the tree down, no child is
left unjoined. *Hard:* signals between any two instructions, forks that fail
half-way, a blocking call that a signal restarts.

**Event loop** (`core.c`, `descriptor.c`). One thread per worker. *State:* a pool of
slots (handler, mask, `in_flight`), a table from fd to slot, a hint where to
look for a free slot, a count; the submission and completion queues shared with the
kernel. *Operations:* `reactor_add`, `reactor_modify`, `reactor_delete`,
`reactor_loop_once`, and over them `descriptor_open`, `_mask`, `_close` and the
callback that decodes a completion, dispatches it and re-arms the one-shot poll.
*Correct when:* slots and table agree, no slot leaks, no descriptor loses its
poll, readiness is dispatched, closed files are let go. *Hard:* completions
arrive later than the decision that made them obsolete; callbacks open, close and
re-mask what is being dispatched; queues and pool are finite.

**HTTP connection** (`server.c`, `stream.c`, `http.c`, `domain/http_server.c`). *State:*
input and output buffer, interest mask, `state`, `ref`, `event_triggered`,
`consumed_bytes`. *Operations:* accept, read, parse, hand to the handler,
respond (at once or later), flush, close, hold, release. *Correct when:*
responses are complete, in order and once; the request lives as long as somebody
uses it; nothing complete waits in the input; a closed connection stays silent.
*Hard:* requests and responses are cut anywhere, the parser's view lies in a buffer
that a nested call consumes, the client closes or resets at any point.

**Binary connection** (`binary_server.c`). *State:* the list of connections, the input
and output buffer of each. *Operations:* accept up to a batch, read, split into packets,
decode (raw or msgpack), mutate, encode, write, flush, consume; close; shutdown. *Correct
when:* each request has its reply, once and in order; no complete packet waits; a
connection is listed exactly while its socket is open. *Hard:* packets are cut anywhere; a
malformed one frees the connection in the middle of the loop that reads it.

**Load generators** (`bench/`). The threaded one: threads with blocking calls, each its own
connections, ended by an alarm. The io_uring one: one thread, a ring, a pool of
send buffers, a count of requests in flight for each connection. *Correct when:* the alarm
ends the program, buffers handed to the kernel are not reused, the count is true.
*Hard:* completions, replies and refills overlap; calls are restarted after the alarm.

**Infrastructure of a process** (`server_infrastructure.c`, `process.c`, `signals.c`,
`system.c`). *State:* the memory of the worker manager, eventfds, signal dispositions,
the global signal manager. *Operations:* init, create, start, destroy, each of many
steps of which most can fail, on both sides of `fork`. *Correct when:* everything taken is
given back once (but for the reactor of a worker that cannot listen, which the code
forgets), signals find their manager, the parent supervises all workers or none.

**Response builder** (`http_response.c`). A caller's buffer, filled piece by piece.
*Correct when:* nothing is written past it, and the computed size suffices.

**Others.** Calls into threads (`async.c`, `event.c`, `resolver.c`, `notify.c`), buffers
and memory pools, timer, logging, containers, option setters. PROJECT.json lists each with
its status, and the hazards of the code line by line.

Components interact by calls and callbacks inside a worker (connection -> stream ->
descriptor -> reactor, and back through `reactor_dispatch`), by the queues with
the kernel, and by fork, eventfd, wait and signals between processes.

## 2. The models

### Reactor

State and code: `slots`, `fds`, `next_free_slot`, `descriptors` are the fields of
`reactor_core`; `desc` the `fd` and `mask` of each descriptor object; `sq` and `cq` the
rings; `armed` (a bag, since one descriptor may have two equal polls) and `ready` are
the kernel's; `pc`, `cur`, `count` say where the thread is. `flush` is the number of
entries that a system call under way still has to hand over: while it is positive
the thread is in the kernel and only the kernel moves.

Actions: `descriptor_open`, `descriptor_mask`, `descriptor_close` and `consume` are what
consumers do, in their set-up and inside callbacks (`InConsumer`); `enter_loop`,
`wake`, `reap_drop`, `reap_dispatch`, `handler_return`, `rearm`, `reap_done` are the
loop, cut where a callback may come between; `issue_add`, `issue_remove`,
`poll_complete` and `file_ready` are kernel and peers. A descriptor object is opened
once, as the servers do, and so also names its file; fd numbers and slots are reused.
Polls carry the descriptor they were made for (`owner`), which no guard reads:
it lets properties tell whose completion was dispatched.

A negative `cqe->res` is read by `descriptor_callback` as a mask: -ECANCELED has
POLLIN and other bits but not POLLOUT, -EBADF has all of them. Every poll waits for
POLLERR, POLLHUP and POLLRDHUP too ("OTHER").

`Failing` says whether `io_uring_submit` may fail. Where it may, a call takes any part of
the queue, one that is made for a full queue may take nothing, so that
`reactor_poll_submit_fd` finds no entry at its second attempt either and the poll is lost
(`core.c` 143), and `reactor_loop_once` comes back without a completion. `lost` remembers
whose last poll was lost. `Tabled` are the numbers below REACTOR_MAX_FDS; a descriptor on
another number is open but not registered (`core.c` 215), as is one that finds no slot.
`OpenMasks` are the masks descriptors are opened with, `Masks` all that are used.

Properties: `SlotOwnership` (pool, table and count agree), `Watched` (every registered
descriptor has a poll of its own on the way, or its callback runs, or its last poll was
lost), `InFlightIsBacked` (`in_flight` promises no poll that does not exist: it is at most
`Outstanding`, the number of entries queued, polls waiting, where equal ones count one by
one, and completions with the slot's address), `AtMostTwoPolls` (a registration has at
most two polls beyond those that former owners of its slot had left when it was acquired,
`found`), `OpenIsRegistered` (a descriptor is turned away only by a full pool or table,
and stays registered until its close). Liveness: `ReadsServed`, `WritesServed`,
`ClosedIsReleased`.

### HttpConnection

One connection, since connections share no state beyond the list they are in. Data is
counted in units: `base` and `top` are the ends of the input buffer in the stream of what
the client sent, a request is `RequestLen` units, and each unit of output is named by the
request it answers, so that order, duplication and truncation of responses are visible. C
functions that run without a chance for anybody else to act are operators on the
connection record; `read`, `handler` and `finish` are the places of
`server_request_update` between which the client and kernel move. The descriptor's slot is
kept as the bag of its polls, as `Reactor` describes it: a mask change queues a poll only
when none is in flight, and the re-arm always queues one. Here each poll finds an entry in
the submission queue; those that do not are the subject of `Reactor`. A close cancels one
poll (`cancel`, `poll_cancelled`), or comes too late for it, or finds no entry for the
cancellation; the polls that are left wait on and are dropped when they complete
(`dropped`). Who takes the slot or the number next is again `Reactor`'s subject.

The handler of the programs answers before it returns. The library also allows
a handler to keep the request and answer later (`Async`, `server_respond`), which is where
its reference counts matter; `HttpPipeline` has one such request among five. Events
that descriptor and stream dispatch after the request was freed reach cleared
handlers, as `stream_destruct` leaves them, and do nothing.

`Responder` is what this amounts to for the client: requests are answered in their order,
none before it has arrived, over a channel that loses only its end when the connection
closes. `ImplementsResponder` is its specification under the mapping at the end of
`HttpConnection`: the channel is the socket's buffer followed by the stream's, a request
has arrived when its last unit was sent (a malformed one with its first, since the server
may refuse it there), the phases are those of the connection.

### HttpResponse

Text is its length: what can go wrong in the builder is where each piece ends. The cursor
of `http_response_build` goes through status, server, date, type, length, separator and
body, and stops at the first piece that fails; the buffer goes through init, build and
reset in any order. A NULL argument is turned down before anything happens and left out.
`http_server_generate_response` gives the configurations of the three routes. No program
calls the builder (the handlers answer through `server_ok`), so it is not composed with
the connection.

### BinaryServer, its clients, BinarySystem

A worker, two connections and one client program, which `client` chooses. Connections are
byte sequences: `up` and `down` in the sockets, `input` and `output` in the stream; bytes
are 0..3, so that the length has two, the state wraps and msgpack's encodings have
different sizes. A state is x and hp; y is treated as x and left out. `--proto msgpack`
needs HAVE_MSGPACK, the configuration takes it as given. The worker's callback is cut
where the client may act: before each event, and between packets. `descriptor_callback`
hands on `READ`, `WRITE` and `CLOSE` of one completion in this order and the freed
connection is skipped, which is what the code reads back from freed memory (fd -1). `owed`
and `whole` are for the properties only.

`BinaryThreads` cuts each thread at its blocking calls. `BinaryUring` keeps queue, kernel
and completions as sequences of operations, the pool as the stack it is, and `uconn` for
each connection's count and receive buffer. The kernel ends an operation as it takes it,
since the sockets do not block: a send may be cut, a recv may find nothing. `other` is any
program: it splits, delays and malforms its packets and closes when it likes. With
`Failures`, the submission made for a full queue may take nothing of it. A send then goes
back to the pool although its request is counted (`binary_loadgen_uring.c` 184,
`failed`), and a recv is given up, after which the connection never receives again
(line 193, `deaf`); `io_uring_submit_and_wait` may fail, and the loop ends or goes on as
`errno` happens to say.

Four things the environment does are left out: a client that shuts down only its writing
side; the loss of bytes already under way *to* a client that is reset (it reads them and
then the end); completions of the ring out of order, which it may deliver for operations
it could not end at once; a submission that takes a part of the ring-driven client's queue
(all or nothing here; `Reactor` has the parts). The worker takes every msgpack packet apart
as the types it expects: `binary_server.c` 169-170 reads a key as a string without testing
that it is one, and what a packet with other keys does to it is not modelled.

### Infrastructure

One process is followed from `main` to its return. `fork` goes on as parent or as child,
so that both are covered and only their talk is not (that is `Supervisor`). `heap` says of
each block whether it is live, also of the reactor's pool of slots and ring, taken by
`reactor_construct`, and of the server's timer and socket, taken by `server_open`; `efds`
which eventfds are open: numbers are what the lowest free one can be, 3, or 0 when
standard input was closed. `fault` remembers a block freed twice, a number closed that is
not open, a pointer to nothing; `failed` which step failed, for the properties; `unheard`
where a signal found no manager or the default action. `NCpus` and `MaxSignals` are any
numbers in the proofs.

### Supervisor

`server` chooses the program; `pc` is the place of each process, `active` and
`shutdown_requested` each process's own copy. Signals may arrive at any place
(`kill`), and are handled at any later one (`deliver`) by the handler installed there:
`signal_handler` before a worker constructs its reactor and in the parent,
`reactor_signal` after, `on_signal` in the binary server. A wait with SA_RESTART goes
on, the one in `io_uring_enter` ends. The test of `active` and the wait are two steps. A
handler that logs while its process is inside `log_internal` blocks on the mutex for
ever ("blocked"). SIGTERM and SIGINT are treated alike by all of the code.

## 3. What is checked

Runs expected to pass:

| run | question | bounds, and why they are enough | size |
|---|---|---|---|
| `ReactorSlots` | do pool, table and polls stay consistent? | 3 descriptors, 2 slots, 3 numbers of the table and one beyond it, so that the pool is exhausted and numbers and slots are reused with completions outstanding; queue of 2 and batch of 2, so that both overflow; submissions that fail or take a part; descriptors opened to read, mask changes by anyone on one of them | 4.2 million states, 2 minutes |
| `ReactorContract` | is the level-triggered contract kept? | 2 descriptors with slots enough, one re-masks itself; queue 3 for batch 2, as 1024 is more than 64; submissions succeed | 0.45 million states, liveness |
| `HttpPipeline` | is a pipelined connection served right? | 5 requests of 2 units, the third answered late, the last malformed; a socket that holds 3 units, so that a response is cut; clean-up threshold of 2 units, so that it is crossed | 0.27 million states, liveness |
| `BinaryClients` | are packets answered right, whoever asks, and does the load generator keep its accounts and end? | 2 connections; payloads of up to 4 bytes; sockets that hold 3 bytes (less than a packet) or 10 (two of them); the threaded client with two connections or two requests a round; the ring with 1 to 3 requests in flight on a pool of 2, a queue of 2 and a receive buffer of 6, the least with which `RecvHasRoom` holds; calls that fail: accept, connect, send and recv, thread creation, submissions | 0.66 million states, liveness, 3 minutes |
| `InfrastructureSteps` | is what a process takes given back, and are signals heard? | up to 3 workers (one fork before, one after the one that fails), 3 signals, any step failing | 4 thousand states |
| `SupervisorTree` | does the tree start and end? | both servers, 2 workers, one signal per process, any failure | 19 thousand states, liveness |

Two descriptors that take all slots and a third that is turned away or reuses one are what
the reactor's code can tell apart: it has no operation on more than one slot. Its liveness
is checked with submissions that succeed, numbers within the table and slots enough: a
descriptor that is turned away or whose poll is lost is not served, which is what the code
does about it. `ReactorStale` and `ReactorEpoll` need no failing call either. In the same
run no peer raises POLLHUP, which would make it several times as large, so that the
hang-up half of the decoding is not checked for liveness. Two workers are enough for
"some, but not all" and "the first, not the second". Two binary connections are enough
since the worker shares nothing between them but the place where it is, and each load
generator only its loop and, in the ring, pool and queue, which both connections exhaust.

`HttpPipeline` also checks the refinement, `ImplementsResponder`, as a property.
`HttpResponse` has no run: its numbers are lengths up to 10^15, where the digits of a
length stop fitting, which TLC has no integers for; its theorems are proved instead.

`CHECK_DEADLOCK FALSE` is set in all runs because each of these systems may really
stop: a reactor with nothing ready and silent peers waits for ever, a connection is
over when it is closed, a load generator is done, a process has returned, the process
tree when all have exited.

Runs that show the program doing something else than its own comments say (the
findings in PROJECT.json give lines and traces in words):

| run | comment | what happens |
|---|---|---|
| `ReactorStale` | "completion handler drops the slot" | a slot reused before the old poll completes gets the old owner's completion |
| `ReactorEpoll` | "matches the old level/edge epoll contract" | a mask change with a poll in flight waits for that poll |
| `HttpKeepAlive` | "continue processing requests on this connection" | the write event that drains a response closes the connection |
| `HttpReset` | `assert(errno == EAGAIN)` | a reset by the client kills the worker (builds without NDEBUG) |
| `SupervisorSignal` | "No self-pipe needed" | a signal between test and wait is lost in the binary server |
| `SupervisorShutdown` | "wait for workers to exit or shutdown signal" | the parent stays in `wait()` |

What was also seen with other bounds, and limits the properties as they are stated:
a slot does have more than two polls at a time when it was acquired with some of former
owners outstanding, which is why `AtMostTwoPolls` speaks of those beyond them;
`ClosedIsReleased` fails with a submission queue as small as the batch, since
`reactor_delete` then drops its cancellation, and for re-masked descriptors, since
only one of the two polls is cancelled. `ServesAndTold` fails for a process started
without standard input, whose eventfd may be number 0: `worker_manager_signal_ready`
takes 0 for none, and the parent waits for ever.

Other places where code and comment part, or where the code forgets something, met while
modelling, that no run is about:

- `core.c` 143: a poll for which a flush of the full queue makes no room is lost, uncounted
  and without a word. The descriptor stays registered and is not dispatched again until
  its mask changes (`in_flight` is 0 then) or another poll of its slot completes. `Watched`
  exempts it.
- `process.h` 91, "Wait for all workers to exit (called by parent)":
  `worker_manager_wait_workers` returns after the death of any one (`process.c` 196, "Wait
  for any child to exit"), and the parent of the HTTP server ends there and leaves the
  others. `ParentFollows` states what the code does.
- `server_infrastructure.c` 147-156: a worker that cannot resolve its address or get its
  socket returns without `reactor_destruct`, and keeps slot pool and ring to the end of the
  process; `server_destruct` is left out too, but nothing is open in the server yet
  (`EverythingReturned` names this exception). `process.c` 179: a worker that cannot write
  its eventfd serves with it open, and its parent waits for ever, since nobody looks at
  the result of `worker_manager_signal_ready` (`ServesAndTold` names it).
- `server.c`: a connection closed by its own callback has at most one poll, which the close
  cancels if it can; one closed by a late `server_respond` or by `server_shutdown` may have
  two, of which one is cancelled. The other keeps the socket alive in the kernel until
  its peer acts. `ClosedIsSilent` says that this is all it does.
- `binary_loadgen_uring.c` 181, "we'll retry on the next CQE": nobody retries, and the
  caller counts the request as in flight; `InFlightIsReal` exempts connections where it
  happened. Line 184 does the same to a send that finds no entry, and line 193 gives up a
  recv for good. Line 14, "On a SEND CQE, submit a matching RECV": one recv is always
  prepared instead, which `OneRecvAtTail` checks. Line 295 tests `errno`, where
  liburing returns the error.
- `binary_loadgen.c` 110: the branch for EINTR cannot be taken, since `signal()`
  restarts the call. A server that closed its connection may end the program with SIGPIPE.
- `binary_server.c`: a reply that did not fit at once is drained by the write event,
  which then closes the connection as in `HttpKeepAlive`.
- `server_infrastructure.c`: without the processors the configuration is a "default
  fallback" to one worker, but it has no array, `worker_manager_init` refuses it, nobody
  looks at the result, and the parent supervises no worker (`SupervisesAll` names the
  case). Out of memory there ends in a second free or a missing pointer (`NoFault`).
  After its loop the worker asks why it ended and cannot be told, since the reactor has
  replaced the handlers that would have set the flag.
- `signals.c`: the clean-up sets every handled signal to its default, also SIGPIPE,
  which `system_init` had set to be ignored.
- `process.c` 117: when reading the eventfd fails, its number stays in the manager and
  is closed again by the clean-up.
- `http_response.h`, "Buffer must be large enough": the size that
  `http_response_calculate_size` computes is not, for ten digits of length
  (`CalculatedSizeTooSmall`).

### Fairness

*Reactor:* the loop runs, callbacks return, submitted entries are processed, and a poll
on a file that stays ready completes, for each file by itself: the kernel does not
forget one file over another. Consumers and peers need do nothing.
*HttpConnection:* the worker runs, polls complete, the client reads what was sent to it;
it need not send, close or reset, and a late handler need not answer.
*Supervisor:* processes are scheduled, signals are delivered, the timer set in
`server_socket_open` ticks. Nothing has to fail and no client has to come, which is
what `SignalEndsLoop` fails on. All fairness of these three is weak.
*BinarySystem:* the worker goes on with what it has begun (weak), and comes to the
listener and to each connection that is ready again and again (strong: the loop serves
them in turn, while each of them may cease to be ready in between); every thread and
`main` run (weak). The program `other` and the ring's kernel owe nothing: liveness is
claimed for the threads only.
*Infrastructure:* none; it has safety properties only.

## 4. What is proved

`ReactorProofs` proves all safety properties of `ReactorSlots`, for all
finite or infinite sets of descriptors and numbers and all sizes of table, pool, queue and
batch, with submissions that fail, from `ReactorAssumption` only. Types come first
(`StateTyped`), then two groups of invariants that need each other's predecessors.

- `SlotOwnership` from `TableInv`: that a close frees the right slot needs that the table
  points only at slots whose owner is open on that number (`FdTable`), that a slot in use
  is found through its owner (`OwnersOpen`), and that two open descriptors have different
  numbers (`FdsDistinct`).
- `Watched` from `PollsInv`: that a poll issued late is still a poll *of its owner* needs
  that a queued entry of an open descriptor carries that descriptor's number
  (`PollsOpened`), which holds since descriptors are opened once: an entry queued before a
  close belongs to a descriptor that never opens again. Each use of
  `reactor_poll_submit_fd` either queues a poll or makes the descriptor one of the lost
  ones (`QueuedOrLost`).
- `OpenIsRegistered`: the slots in use belong to different registered descriptors, by
  `SlotOwnership`, so that a search that finds no free slot has met as many of those as
  there are slots (`PoolFull`); nothing but a close takes a descriptor off the table
  (`StaysRegistered`).

The proofs have one lemma per action; those of `reactor_add`, `reactor_modify` and
`reactor_delete` are used by the descriptor operations, and facts about bags (a poll
added to or taken from `armed`) are separate lemmas, since the prover knows bags only as
functions.

The second half of `ReactorProofs` goes on from there with what needs counting. What is
outstanding for a slot is counted in three places (`QueuedFor`, `AnsweredFor`, `WaitingFor`;
`OutstandingSum`); each action takes a free slot (`SlotTaken`), adds one poll (`PollAdded`),
reaps one (`PollReaped`) or moves a poll from one place to the next or does nothing
(`CountsKept`), which is `StepCounts`. That the bag of polls is finite for each slot
(`FinitelyArmed`) goes into the induction, as counting needs it.

- `InFlightIsBacked` follows from these four cases (`BackedStep`): a lost poll is neither
  counted nor there.
- `AtMostTwoPolls` from `FewPolls`: of a slot in use there are no more polls than it was
  acquired with and those counted since, `Outstanding <= found + in_flight`, and the
  count is at most two, at most one in the callback of its descriptor. A mask change adds a
  poll only when the count is 0, the re-arm adds one where the count is at most 1, and the
  callback begins with a completion that lowers it. Reuse of slots, foreign mask changes
  and lost polls need no exception.
- `TypeOK`, whose last part says that `found` is a number, comes last, since that the kernel
  holds finitely many polls is part of this induction.

`HttpConnectionProofs`, from `HttpAssumption` only: any number of requests, any of them
late or malformed, any lengths, threshold and socket size. `HttpInv` has seven parts:
types (`TypeInv`), who holds the request (`RefsInv`), what is true at each place where the
worker can be (`ControlInv`), that a closed connection is empty (`ClosedInv`), where input
begins and ends with respect to the requests answered (`InputInv`), what is in the sockets
(`ChannelInv`), and `AnsweredInOrder` itself. None of the last four stands alone: that the
next answer is the right one needs that the input begins at the request to be answered,
that needs that `consumed_bytes` is the request's length or nothing, and that depends on
who holds a reference. `ClosedIsSilent` is an action property: under the invariant each
step of a closed connection takes from its polls, sockets and events and adds to none.
`ResponderImplemented` then takes each action to a step of `Responder` or a stutter, under
the invariant.

`BinaryProofs`, for any connections, client programs and sizes. `TypeInv` is the
conjunction of what server and clients know of each other, since they write each other's
variables: `ServerInv` (sockets hold bytes and no more than their size, the backlog is the
connections that wait, the list those that are open, the idle worker has processed what
is complete, and in a callback the connections after the one at work have) and the types of
threads and ring. The actions of the clients all are, for the worker, one of a few
moves (`Moved`: bytes go into a socket, out of it, an end is closed), so that the
invariant is proved for moves once, and each client action is shown to be one.
`NoPacketForgotten` follows from the worker's loop ending on `Incomplete` only.

`BinaryReplyProofs` proves `RepliesInOrder` for any sizes and any bytes. `InOrder` says of
each connection that there is a rest, what its client has still to write of its packet,
for which `Follows` holds: the bytes at the worker, those in the socket and the rest are
whole packets one after the other, and what is owed is the bytes already written as
replies followed by what these packets bring. The rest is fixed by the client's program
(`RestOf`): the unsent bytes of `other` and of a thread that writes, nothing for the ring,
whose sends are whole, and anything for a connection a stopped thread has left. "These
packets bring these replies" is not computed over a sequence, which would need
induction over data, but is a relation, `Asked`: the least one that holds of nothing and is
closed under one more packet in front. That it is also closed under one more packet behind
(`AskedMore`), and that the front packet can be read off the bytes (`FrontAnswered`), follow
from its being the least. `ServerKeeps` takes the worker's actions and
`ThreadsOrder`, `UringOrder` and `OtherOrder` those of the clients. They need that a
connection has one writer (`OneOwner`, from `ClientAssumption`) and that the ring prepares
no send before all its sockets are connected (`RingUp`).

`BinaryUringProofs` takes all operations of the ring, wherever they are, as one queue
(`Ops`) to which the program appends and from which it takes. Free slots of the stack and
slots of operations make up the pool without overlap; that the stack never outgrows its
array when a slot is returned is a pigeonhole argument over the same partition
(`SlotsExclusive`). `OneRecvAtTail` adds that a connection which receives has one
operation and that its offset moves with the buffer, and that one whose recv was given up
has none; it needs that the connections of a thread are distinct, which `ClientAssumption`
says of the program.

`RecvHasRoom` and `InFlightIsReal` need to know what the ring reads. `FlowInv` says of
each connection that what it has read and what is still on its line are whole replies one
after the other, but for the end that a close cut off, and that these and the requests
that are unanswered, of five bytes or more each, are not more than the requests counted
less those still to be sent; and, as long as nothing was cut, failed or closed, that what
is read and what is owed are exactly as many copies of the reply to the template as were
asked for. "Whole replies, so many" is again a least relation (`Chains`) instead of a
recursive function. `ServerServes` reduces every step of the worker to one of three things
it may do to the line (`Served`: pass bytes along, lose the end of them on closing, put a
reply for a request), and each action of the ring adds to one side or takes from it.
`RecvHasRoom` follows since less than a reply, six bytes, is left when no packet is
complete (`FrontShort`); its two hypotheses say that the model's longest reply is accepted
and fits into the buffer, and hold with equality in the run (the code has 256 for the one
and 4096 for the other). `CountInv` says that each connection seeded has `Depth` requests
counted or about to be, and with the lengths of the replies this is `InFlightIsReal`. Both
hold through sends that are cut, fail or find no slot or entry, which is why `FlowInv`
bounds what there is and says it exactly only where nothing went wrong.

`SupervisorProofs`: `[]TypeOK`, `[]StartedInTurn` and `[]BinaryJoinsAll` for any number of
workers, from `SupervisorAssumption`. `SupervisorInv` adds that a worker not forked has
not run, that a written eventfd belongs to a worker that has started, that the parent
reads only of workers it forked, and that joined workers have exited.

`InfrastructureProofs`: all properties of the run, for any number of processors and
signals. `InfrastructureInv` adds who owns what: blocks are live exactly while the manager
points at them (`MemoryOwned`), reactor and server while the worker is at the places
between, or as a failed listen left them (`ReactorOwned`), at most one eventfd is open and
its number stands in the manager, but for the moment after fork (`EventfdsOwned`),
handlers are installed behind the manager and restored in turn (`HandlersSet`). That
nothing is closed twice needs that only the current worker's entry can hold a number,
which is why each way out of the fork loop has to mark or close it.

`HttpResponseProofs` reasons about a cursor (`Reached`: what was put so far and what
remains make up the size) that each piece moves (`PutReached`) or stops. From it:
`ResponseWithinMemory` through any sequence of operations; `BuildIsExact`, when a
response is built and that `used` then counts its bytes; `CalculatedSizeIsEnough` for
bodies below 10^9 bytes and `CalculatedSizeTooSmall` where it fails;
`ServerResponsesFit` for the configurations of the server's routes.

Only model-checked: the liveness properties, which are out of the prover's reach.

## 5. Not modelled

TLS streams (no program passes an SSL context; the behaviour of OpenSSL would be
invented), the contents of HTTP requests and responses, picohttpparser and the other
vendored code, socket options, SIGHUP and the user signals (they set a flag that nobody
reads, or nothing), the formatting of log lines, `system_get_cpu_affinity_string` and
`libreactor_postgres`, which no program links or calls. `stream_notify` is used by no
program; its effect is the mask change of `ReactorEpoll`. `server_shutdown` is an action
of `HttpConnection`, but what a handler could still do with a request after it is not: it
runs after the loop, and no program keeps a request that long. `async.c`, `event.c` and
`resolver.c` are used by no program. The memory pools are hardly entered by the servers:
both buffers of a stream start with more than the largest size that is pooled, so they
come from malloc. The hazards of all of these are listed, with the reason why no property
covers them.

## 6. Plan

1. `Reactor`, `Supervisor`, `HttpConnection` and their runs; proofs of the first two.
   Done.
2. `BinaryServer` with both load generators; `HttpResponse` and its proofs; `Responder`
   as abstraction of `HttpConnection`; `Infrastructure` and its proofs. Done.
3. Proofs of the safety properties of `HttpConnection`, of its refinement of `Responder`, of
   `ListedIsOpen`, `NoPacketForgotten`, `SlotsExclusive` and `OneRecvAtTail` of the binary
   modules, of `RepliesInOrder`, `RecvHasRoom` and `InFlightIsReal`, and of the counting
   properties of `Reactor`. Done.
4. `MemPool` and `Buffer` (blocks never overlap, none is lost), `Async` (a call is done
   or cancelled, once), the line `log_internal` composes.
