# A verification development for rpyc

rpyc ("remote python call") lets two Python processes use each other's objects.
Most of its difficulty is concurrency: any number of application threads share
one connection, one of them at a time reads from the stream on behalf of all,
replies and requests of the peer are dispatched on whichever thread happened to
receive them, sends are queued to a thread of their own, and netrefs are
counted across a wire on which references and their removals cross each other.

This directory models that machinery in TLA+, checks it with TLC on small
instances and proves most of the safety properties that the runs check with TLAPS
for every instance.

    tlc -config Connection.cfg MCConnection.tla     model-check one run
    tlapm ConnectionProofs.tla                      check the proofs

`PROJECT.json` has the machine-readable index: components, runs, mutated
definitions with the property that notices each, the source lines of every
definition, hazards, findings, theorems.

## 1. Inventory

| component | source | state | operations | modelled in |
|---|---|---|---|---|
| Connection | `core/protocol.py` | `__seqcounter`, `__request_callbacks`, `__receiving`, `__recv_event`, `__send_queue`, `__send_worker`, `__closed`, `__local_root`, the boxed objects and the proxy cache | `async_request`, `sync_request`, `serve`, `serve_all`, `__dispatch`, `close`, `__cleanup`, the send thread | `Connection`, `RequestTable` |
| Connection with `bind_threads` | `core/protocol.py` | `_Thread` (`_deque`, `_remote_thread_id`, `_occupation_count`, `serve`), `_thread_pool`, `_receiving`, `__worker_pool`, `__cleaning_thread` | `__serve_bound`, `__serve_worker`, the header of `__send`, `__cleanup_threads` | `BoundServing` |
| AsyncResult | `core/async_.py` | `_is_ready`, `_is_exc`, `_obj`, `_callbacks`, `_ttl` | `__call__`, `wait`, `add_callback`, `set_expiry`, `value`, `ready`, `error`, `expired` | `AsyncResult` |
| Reference counting | `core/netref.py`, `lib/colls.py`, `core/protocol.py` | the slots of `RefCountingColl`, the `WeakValueDict` of netrefs, `____refcount__` | `__box`, `__unbox`, `__del__`, `HANDLE_DEL` | `Netref`, `RemoteReference` |
| BgServingThread | `utils/helpers.py` | `__depth`, `__terminate`, `__running`, the condition, the thread | `pause`, `resume`, `stop`, the serving loop | `BgServing` |
| Stream, Channel | `core/stream.py`, `core/channel.py` | the read lock and its counters, the socket pair, the socket | `poll`, `read`, `write`, `close`, `wakeup`; `send`, `recv` | `Stream` |
| PipeStream | `core/stream.py` | `__ready`, `__condition`, the read thread, the two files | `poll`, `read`, `write`, `close`, `__readthread` | `PipeStream` |
| Server, ThreadedServer | `utils/server.py` | `active`, `_closed`, `clients`, `__workers`, `__terminated` | `start`, `accept`, `close`, the workers | `ThreadedServer` |
| OneShot, Gevent and Forking servers | `utils/server.py` | the above; children and the SIGCHLD handler | `_accept_method`, `_handle_sigchld`, `close` | `ServerKinds` |
| ThreadPoolServer | `utils/server.py` | `fd_to_conn`, `poll_object`, the active queue, the threads | the polling thread, the workers, `close` | `ThreadPool` |
| Registry | `utils/registry.py`, `utils/server.py` | `services`, the observers' view; the registration thread of each server | REGISTER, UNREGISTER, QUERY, pruning, `__bg_register`, `close`; over UDP and over TCP (`_connected_sockets`) | `Registry`, `RegistryTCP` |
| Brine and boxing | `core/brine.py`, `core/protocol.py`, `lib/__init__.py` | none | `dump`, `load`, `dumpable`, `__box`, `__unbox`, `get_id_pack` | `BrineFormat`, `Brine`, `Boxing` |
| Vinegar | `core/vinegar.py` | the caches of made-up classes | `dump`, `load` | `Vinegar` |
| async_, timed, buffiter, restricted | `utils/helpers.py` | none beyond AsyncResult | wrappers | no |
| Services, factories, classic mode, teleportation, zerodeploy, authenticators, reactor, CLI, compat | the rest | little | clients of the above | no |

### How the parts interact

* A **caller** (`sync_request`) draws a sequence number, registers an
  `AsyncResult` in `__request_callbacks`, queues the message for the send thread
  and calls `serve` with the predicate "my result is there" until it holds.
* **serve** either becomes the receiver (`__receiving`), polls the stream, reads
  one message, lets go of the role, wakes the others and dispatches; or it waits
  for `__recv_event`. Dispatching a request runs the service on that very thread,
  and the service may call back, so `serve` nests.
* With **`bind_threads`** every message names the thread it is from and the one it
  is for. The receiver takes what is its own and hands the rest to the `_deque`
  of the thread it is for, to an idle thread, or to a new worker.
* The **send thread** takes messages off `__send_queue` and writes them. When a
  write fails it dispatches an error to the request's callback itself.
* **Stream.write** must not run beside a poll or a receive of the same end (TLS
  sockets do not allow it). The writer therefore asks the poller to pause
  through a socket pair, and polls wake up on that pair.
* A **server** accepts clients on one thread and serves each connection on a
  worker (`ThreadedServer`), a greenlet, a child process or the accepting thread
  itself, or multiplexes them on a few threads (`ThreadPoolServer`).
  `close()` may come from a user's thread, a signal, a service that runs on one
  of the server's own workers, or `on_disconnect` on the polling thread; the
  `finally` of `start()` calls it too, beside whichever came first.
* A server's **registration thread** repeats REGISTER until `close()`. The first
  `close()` joins it and sends UNREGISTER; another one that runs beside it finds
  no thread to join and sends UNREGISTER at once. They use datagrams or one TCP
  connection each.

### What is hard, and what must be true

Connection: one receiver at a time; no message taken off the wire is lost; a reply
reaches its own request and no other; no waiter sleeps through its reply; a
request whose send failed is reported; after the end of the connection every
caller returns, every `serve_all` returns, and nothing is left in the tables. With
`bind_threads`: the same, and a thread's requests and replies are handled by the
threads they belong to; nobody sleeps through a message or leaves the socket to
sleepers; the workers end with the connection. AsyncResult: a reader without a
lock sees the outcome or a timeout, never a half stored one; callbacks run once.
Netref: the owner keeps an object exactly while references are out. Values and
exceptions arrive as what they were, or as a netref to what they are. BgServing: a
pause that has returned holds; no wakeup is lost. Stream: send and receive exclude
each other, pauses are noticed, frames stay whole, nobody uses a closed socket
pair; a pipe delivers everything in order and two ends that both write do not
block each other. Servers: workers are accounted for, a client is in one place,
children are waited for, and `close()` ends from wherever it is called. For a pool
that takes more words: a thread of the pool gets RuntimeError where it would join
itself, the `close()` of `start()` then does what is left, and a worker and the
polling thread that both close wait for each other (section 6). Registry:
callbacks and table agree, a server that gets through is found, one that has gone
is forgotten.

PROJECT.json lists 40 hazards, each at its line with the properties that would
notice it going wrong. The few without a property are cases the code does not
prevent; section 6 describes them.

## 2. The modules

Each module declares its component's state as VARIABLES with the names of the
code's attributes, has one action per operation or critical section, and
carries the mutated forms of some definitions (marked "mutant") that the
properties have been tried against. The `MC*` modules define constants and, where
a run explores several scenarios, a variable that the initial state chooses and
no step changes: each step names the scenario it belongs to, so the scenarios
share the exploration and nothing else. `MCNetref` also has the sample of values
and exceptions and the property about them.

### Connection

One **step** is one critical section or one access to shared state: what the
code does under a lock or condition, one blocking call, one queue operation.
`Client` threads call `sync_request`, `Server` threads run `serve_all`.

| model | code |
|---|---|
| `seqcounter`, `callbacks`, `result`, `expired` | `__seqcounter`, `__request_callbacks`, the AsyncResults and their deadlines |
| `receiving`, `poller`, `recvWaiters`, `wakeups` | `__receiving`, the thread in `poll`, those that wait on `__recv_event`, the stream's wakeups |
| `pc[t]`, `stack[t]`, `await[t]`, `msg[t]` | where a thread is, its nested frames (`handle`, `call`, `close`, ...), the request it waits for, the message in its hand |
| `sendQueue`, `sendLoop`, `worker`, `sender`, `sending`, `handed` | `__send_queue`, `__send_loop`, `__send_worker`, the send thread, the message it writes, what the channel was given |
| `closed`, `alive`, `disconnects` | `__closed`, `__local_root`, calls of `on_disconnect` |
| `spoiled` | history: the requests whose reply could not be unboxed |
| `sockOpen`, `out`, `in`, `peerPending`, `peerSent`, `peerEof` | the socket, the bytes on their way, what the peer has still to answer, has sent, and whether it has shut its end |
| `ServeEnter`, `PollEnter`, `PollData`, `PollEOF`, `PollWoken`, `Release`, `NotifyStream`, `NotifyAll` | `serve` and the two predicates it tests |
| `DispatchReply`, `UnboxFails`, `DispatchRequest`, `HandlerCalls`, `HandlerReturns`, `SendReply` | `__dispatch`, an exception of `__unbox` or `vinegar.load` in it, and what the service does |
| `SenderTake` ... `SenderNotifies` | the send thread, with the failure of a write |
| `CloseTest` ... `CleanupClear`, `Raise` | `close`, `__cleanup`, and exceptions that unwind frames |
| `Peer*`, `Expire` | the other party and the network, the passing of a deadline |

The **peer** receives, answers in any order, sends requests of its own, asks to
close (HANDLE_CLOSE) or shuts its socket at any moment. It answers each request
at most once and only after it has received it.

`MCConnection` has three scenarios: "serving" (two callers on a connection that
stays open), "spoiling" (two callers on one that stays open and whose replies
need not be readable) and "ending" (a caller and a `serve_all` on one that either
party closes, with replies that need not be readable either). `ConnectionProofs`
has the proofs.

`RequestTable` is what all this promises to whoever makes a request, without
threads, queues or handlers: a table of requests, each unused, open, answered,
failed or dropped, with those that were given to the peer, those whose deadline
has passed and whether the stream is there. A request ends once; it is answered
only after the peer had it, it fails only when the stream is gone, and it is
dropped either when its outcome comes after the deadline or with the
connection. `Connection!Table` is the refinement mapping: `Fate(s)` reads the
status of a request off `__request_callbacks` and its AsyncResult, `handed`,
`expired` and `sockOpen` are the rest. `Issue` makes a
request; `Resolve`, `CleanupClear` and a `SendRequest` that is refused end one or
several; everything else is `Transmit`, `Expire`, `Disconnect` or no step of the
table.

### BoundServing

Two Connections with `bind_threads`, one at each end of a socket, because what
matters is how the thread numbers of the two ends refer to each other. A step is
what happens under `_lock` from one wait, poll or call to the next. `Proceed` is
`__serve_bound` from the wait on; `Mine`, `Recipient`, `HandOver`, `StartWorker`
and `DropMessage` are the decision whose message it is; `GuardExit` is
`_ReceivingGuard.__exit__`, which notifies the next sleeper. `EndWorkers` and
`CleanerStep` are `__cleanup_threads`, which a worker leaves to a thread of its
own because it cannot join itself. `owner` is a history variable: who sent a
request, on behalf of whose request. A request reaches the socket when `__send`
queues it; the send thread and the steps of one `close()` are those of
`Connection`. `BoundServingProofs` has the proofs.

### AsyncResult

Nothing in the class takes a lock, so each attribute access is a step: the
stores of `__call__` one by one, the loop over `_callbacks` with its live
iterator, the test and the append of `add_callback` separately, the reads of
`value`, `ready`, `error` and `expired` one by one. `set_expiry` may move the
deadline at any moment. `MCAsyncClient` explores this class and
`BgServing`, the two objects an asynchronous client uses; `AsyncClientProofs` has
the proofs about both.

### Netref and RemoteReference

One object at its owner, the netrefs a consumer has for it, and the messages
between the two parties. The owner has the `RefCountingColl` slot; the consumer
the proxy cache, the `__unbox` of each thread step by step (look up, load the
count, store it, or create a netref and cache it), and `__del__` (read the
count, send it, clear the weak references, run the remover). A netref that is not
in the cache comes from a factory that first asks the owner for the type
(`waiting`): until `Create` the thread serves other messages, which may bring the
next reference to the same object, and the request may fail (`CreateFails`), after
which nobody gives that reference back (`lost`). `RemoteReference`
is the promise: a reference is granted or given back, and the object is kept
exactly while some are out. `Refinement` is
`INSTANCE RemoteReference WITH kept <- slot # -1, out <- Outstanding`.
`NetrefProofs` has the proofs, for one thread of the consumer.

### BrineFormat, Brine, Boxing and Vinegar

Pure functions on trees of values, with the names of the code. A leaf has a
label, which stands for its content, and the length of its text; the stream is
a sequence of chunks with their sizes, so that a length field of the wrong
width, a tag that means something else, or a miscounted tuple is read as
something else than was written. `BrineFormat` has the tags, the simple values
and the header of a tuple; `Brine` is `dump`, `load` and `dumpable`, which go into
tuples, slices and frozensets. `Boxing` is `__box` and `__unbox` around it:
by value, as a tuple, as a netref's own object, or as a reference named by
`get_id_pack`. `Vinegar` is what an exception keeps: its class if that may be
made at the caller, otherwise a made-up one, its arguments and attributes.
All but `BrineFormat` use RECURSIVE operators and are checked only; the proofs about
`BrineFormat` are at the end of `NetrefProofs`.

### BgServing

A step is what happens between two waits or releases of the condition. The
background thread's `serve()` is a blocking call that receives something, is
woken by the stream's wakeup, or raises; the handlers it runs may call `pause`,
`resume` and `stop` themselves. `AsyncClientProofs` has the proofs.

### Stream and PipeStream

`Stream`: two ends, each with a writer (the send thread), a receiver (the thread
that has the receiver's role) and closers. A frame is `Chunks` pieces, because
`Stream.write` sends at most `MAX_IO_CHUNK` bytes at a time and pauses the
reading around each of them; a direction holds `Capacity` pieces, the kernel's
buffers. The read lock's condition has one set of sleepers per end. Waits of the
receiver have a predicate, as `Connection.serve` gives it: it becomes true while
the thread polls, and `wakeup()` must end the poll. The sockets of `Timed` keep a
timeout, as those that `connect()` made do: their `send` may fail
(`SendTimesOut`) and their `recv` may give up and be tried again (`RecvTimesOut`).

`PipeStream`: two ends of a pair of pipes. Each end has a read thread, which
moves pieces from the pipe to `__ready` whether anybody reads or not, beside the
writer, the receiver, a closer and a third party that makes the receiver's
predicate true. `MCStream` chooses between sockets, pipes of which one end only
reads, and pipes of which both ends write. `StreamProofs` has the proofs about
both modules.

### ThreadedServer, ServerKinds, ThreadPool

`ThreadedServer`: `start`'s loop, the workers, and `Server.close` with
`ThreadedServer`'s extension, of which any number may run at once (users, the
`finally` of `start`, services). `ServerKinds` extends it with the other classes
that share `start`, `accept` and `close`: `GeventServer` (nobody waits for the
greenlets), `OneShotServer` (serves on the accepting thread and closes itself),
`ForkingServer` (children, SIGCHLD, which does not count, and the handler that
`close` takes away); `ServerKindsProofs` has the proofs for all of them.

`ThreadPool`: the polling thread, the workers and the acceptor around
`fd_to_conn`, and the `close()` calls of a thread from outside, of services and
`on_disconnect` on workers, of `on_disconnect` on the polling thread and of
`start()`, each of which may run beside the others; `closing[k]` is where the
thread `k` is in it, `polling` whether `self.polling_thread` is still there to be
joined. Descriptors are numbers the kernel hands out again and again: only once
the pool has let go of them (taken them out of `fd_to_conn`, the poll object, the
queue and its workers' hands), or with `EarlyReuse` as soon as the socket is
closed, as the kernel does. `ThreadPoolProofs` has the proofs for the former.

### Registry, RegistryTCP

A clock `Tick` ages every entry by one interval of the registration threads.
`register()` waits for its reply much shorter than an interval, so `Tick` does
not pass a thread that is in it. Datagrams of one server may be lost, delayed,
overtaken and delivered twice. A datagram whose sender's socket has been closed
by then gets no answer: it is marked "OUTDATED", since the registry still
processes the command. A server has several callers of `close()` (`ClosedBy`), one
of which finds the registration thread and joins it. Anybody may send a command
that is not a str, which ends the registry (`CommandBreaks`; `work` is where its
thread is). `RegistryTCP` puts the same commands on connections that
one thread of the registry accepts one after the other: none is repeated or
overtaken, any may be refused, and a connection that sends no command holds the
thread up, or sends one that ends the registry. `RegistryProofs` has the proofs, over
both transports.

## 3. The runs

| run | question | instance |
|---|---|---|
| `async_client` | do readers, callbacks and waiters of one AsyncResult agree, without a lock and with a moving deadline? does pause of a BgServingThread hold, and does no wakeup get lost? | a waiter, a thread that asks, 2 that add callbacks, which may raise, one that sets the expiry; 2 users, 8 calls, handlers that call too, a serve that raises |
| `connection` | do threads that share a connection get their own replies, each once, and never sleep through them? does its end, however it comes, release everybody and everything? | serving: 2 callers, 2 requests, one nested call, a request of the peer, timeouts; spoiling: 2 callers, replies that cannot be unboxed; ending: a caller that also closes, a serving thread, a peer that may ask for the end or shut its socket, replies that cannot be unboxed |
| `bound_serving` | does `bind_threads` keep messages with their threads and wake whoever has one? do the workers end? | 2 callers, one of which may time out, a `serve_all` and one worker at each end; 2 requests, one nested; close by a caller and by a handler |
| `bound_lost_wakeup` | does every caller return, although others time out? It does **not** (finding 4) | 3 callers, 2 of which may time out |
| `netref` | does the owner keep the object exactly while references are out? do values arrive? | 4 references, 3 netrefs, one thread at each party that may receive the object again while it holds it or while a factory waits for its type, factories that fail; 86 values and 8 exceptions |
| `netref_dangle` | the same with two consumer threads: it does **not** (finding 1) | 2 references |
| `stream` | do send and receive exclude each other and frames stay whole, through polls, wakeups and close? do pipes deliver in order, and does every call return? | sockets with a timeout, which may or may not pass: a frame of 2 pieces, one wait with a predicate, one closer, buffers of one piece; pipes: a message of 3 pieces each way through a pipe of one |
| `stream_deadlock` | do two ends that send frames of several pieces at once both finish? They do **not** (finding 2) | sockets without a timeout, a frame of 2 pieces each way |
| `threaded_server` | does `close` account for every worker from wherever it is called, does `start` end, are children waited for? | five scenarios: threaded with two users and with two clients, gevent, one-shot, forking with two clients |
| `thread_pool` | is a connection always in exactly one place, handled, and dropped only when it has gone? does `close` end from wherever it is called? | 2 clients, one of which sends two requests, 2 descriptors, reused once the pool let go of them, 2 workers, batches of one; `start()` closes beside a thread from outside, a worker, or another worker and the polling thread |
| `thread_pool_reuse` | the same when the kernel reuses numbers as soon as they are closed: it is **not** (finding 3) | likewise, without `close` |
| `registry` | do table, callbacks and servers agree, whatever the transport does? | 2 servers that share a name, one closed by a user beside `start()`, 2 datagrams under way, loss, delay, duplication, a command that ends the registry; over TCP one server, 2 connections that send nothing |

### The properties

* `async_client` - `ValueIsTheReply`: a reader without a lock is told the reply,
  a timeout or that it is pending. `CallbacksRunOnce`. `WaitersReturn`: a waiter
  comes back once the reply was dispatched, dropped or not, or its deadline has
  passed, except one that nobody wakes because a callback raised (`NotNotified`,
  section 6). `PausedIsQuiet`: nothing is served in the background while paused.
  `ServeIsWoken`: a pause or stop wakes the thread that sleeps in `serve`.
  `CallsReturn`: each pause, resume and stop returns.
* `connection` - `SingleReceiver`: at most one thread is between becoming the
  receiver and letting go, and `__receiving` says whether there is one.
  `OwnReply`: a result that is not an error is the one the peer gave to that
  request. `NoLostRequest`: a message off the wire is in a thread's hand or has
  been dispatched, also when the receiver's own predicate became true
  meanwhile; only a reply that could not be unboxed (`spoiled`) is gone.
  `ClosedReleases`: after `__cleanup` the tables are empty and
  `on_disconnect` has been called once. `NoStrandedSend`: a request with a
  callback was handed to the channel or is on its way to it, so someone will
  report it. `ImplementsTable`: every step is one of `RequestTable` or
  none, so a request ends at most once and for one of its reasons (which implies
  `ResultIsFinal`). `ThreadsReturn`: each call
  returns, and each `serve_all` once the connection has ended; except the call
  whose reply could not be unboxed, as long as the connection is there.
* `bound_serving` - `OneReceiver`: one thread of an end polls or has a message,
  and `_receiving` says whether there is one. `BoundToThread`: as long
  as no deadline has passed, what a thread dispatches belongs to it.
  `SleepersAreWoken`: whoever sleeps with a message has been notified, and so
  has one of the sleepers if nobody receives. `BoundThreadsEnd`: callers return,
  and the workers, the joins and the cleaning thread end with the connection.
* `netref` - `NothingLeaks` (at rest the slot counts the references whose factory
  failed, and is gone when none did), `Refinement`. `RepliesArrive`: what the
  consumer sends and the owner sends back is what was sent, for values on both
  sides of every change of encoding, nested values, objects by reference, netrefs
  of this connection (while the owner keeps the object, which is where the state
  of `Netref` comes in) and of another one; an exception is caught by the same
  except clauses after one connection and after two, for each configuration of
  custom exceptions.
* `stream` - `SendRecvExclusive`, `PollIsWoken` (a poll that is asked to pause
  has a byte in its pair), `PairNotFreedInUse`, `FramesIntact` (each end
  receives the pieces in order, while its socket is open), `StreamCallsReturn`
  (whether a timeout passes or not);
  `PipeKeepsOrder` (what was read, is ready, in the read thread's hand and in the
  pipe is what was written, in order, and no complete message is dropped when
  the other end closes), `PipeCallsReturn`.
* `threaded_server` - `ThreadedWorkersAreAlive` (`__workers` is exactly the
  workers that run), `EndedLeavesNothing`, `ClosesEnd`, `ChildrenAreReaped`.
* `thread_pool` - `OnePlace` (an open connection is with the poller, in the
  queue, or with one worker), `OnlyGoneAreDropped`, `ClientsAreHandled` (in the
  end each request was served and each client that left is dropped),
  `CloseReturns` (once the server has been closed, from wherever, each `close()` has
  returned or raised and each thread of the pool has ended; except when a worker and
  the polling thread wait for each other, `WaitForEachOther`, section 6).
* `registry` - `ObserverAgrees` (the callbacks tell exactly what is
  registered), `Discoverable` (a server that got through within the pruning
  timeout is found), `UnregisterIsLast` (no REGISTER of a server follows the
  UNREGISTER of the `close()` that joins its registration thread; the UNREGISTER of
  another one beside it may be followed), `GhostsEnd` (unless a command has ended
  it, the registry forgets the servers that are closed, also if an UNREGISTER was
  lost; and no `close` waits for ever, whether the registry runs or not).

Each of these is violated by at least one mutated definition that PROJECT.json
lists. Several liveness properties have the form `<>[](no call is under way)`.
All calls of an instance are bounded in number, so every behaviour comes to a
point after which no new one starts; the formula says that none is stuck then,
and one formula covers all kinds of calls of a component.

### Bounds, and why they are enough

Every bound is a constant: `MaxCall` (requests of the clients), `MaxDepth`
(nesting), `MaxCalls`, `MaxBox`, `MaxUse`, `Chunks`, `Capacity`, `Writes`,
`Waits`, `Messages`, `Parts`, `PipeSize`, `MaxRequest`, `BatchSize`, `Prune`,
`MaxMissed`, `MaxStarts`, `MaxNet`, `MaxVisit`, `NbThreads`. Others bound who does
what: `MayClose` (in `ThreadPool` the sets of threads whose code closes the
server), `ClosedBy`, `Timed`, `MayBreak`, `MayLose`, `MayDelay`. Two callers are
what it takes for one to receive the other's reply; a nested call for a reply to
arrive below another call; two requests for replies out of order. Two pieces per
frame are the first length with a "between two pieces". Two clients and two
descriptors let one descriptor pass from one client to the other; a second request
with batches of one makes a worker put a connection back that still has something
to read. Three netrefs let a factory's request bring another reference to the same
object, whose factory finishes first, while a third netref is being finalized. Of
the two servers one has a name alone and both share the other, which exercises
every branch of adding and removing names. With `bind_threads`, one worker at an
end is what a message for nobody in particular needs, and the third caller of
`bound_lost_wakeup` is the one that neither receives nor is notified.
`PeerMayShut` in `MCConnection` is the one bound on an environment's freedom: a
peer that has sent a request of its own ends the connection only while we close or
it owes us a reply. All of the state spaces of passing runs are explored
completely. Sequence numbers are bounded by the number of calls; the code's
`itertools.count` does not wrap either.

Systems that run to an end stop there, so the runs have `CHECK_DEADLOCK FALSE`;
what must happen before they stop is stated as liveness instead.

### Fairness

Weak fairness of each thread's steps: the operating system schedules every
thread that can run, condition variables and queues wake one that may proceed.
The network delivers what was sent (TCP) or delivers or loses it (UDP), and the
peer answers requests it has received and, once it has been asked to close or
sees the end of the stream, closes: rpyc itself waits for that without a
timeout. In `BoundServing` both ends are modelled, so nothing is assumed of a
peer. There is **no** fairness for timeouts, for the calls the application
makes, for requests and the end of the stream that come from the peer on its
own, or for a handler's decision to make a nested call; none for what may go
wrong (the timeout of a socket, a callback that raises, a reply that cannot be
unboxed, a factory that fails, a command that ends the registry); clients of a server
never have to leave. In `Registry`
clock ticks are fair, since time passes, and so is QUERY: entries are pruned
only by a query, so `GhostsEnd` assumes somebody asks. What reaches the closed socket of
a registry that has ended is discarded. Over TCP whoever
connects must send or close in the end (`NoCommand`), which the code needs: its
`recv` has no timeout.

## 4. What is proved

TLAPS checks these for every value of the constants that satisfies the named
assumption of the module (disjoint sets of threads, natural bounds), so for any
number of threads, calls and messages.

* **`TypeCorrect`** (`ConnectionProofs`): `Spec => [](TypeOK /\ ControlInv)`.
  Types alone are not inductive, since a step uses the head of a thread's call
  stack or the message in its hand. `ControlInv` says which positions of a
  thread go with which top frame, message and request. One lemma per action.
* **`OneReceiver`** (`ConnectionProofs`): `Spec => []SingleReceiver`.
  `Receivers` is the set of threads between `ServeEnter` and `Release`.
  `SingleReceiver` is inductive together with `TypeOK`: only two actions add a
  thread to it, both under the lock with `receiving` false
  (`DecideToReceive`); every other action keeps both sides
  (`ReceiversAreKept`) or takes the only member out.
* **`NothingStranded`**: `Spec => []NoStrandedSend`, through
  `PathInv == NoStrandedSend /\ EmptyHanded`. The set of requests that are on
  their way (queued, in the send thread's hand, with a thread in "send") loses
  a number only when it is handed to the channel or its callback is taken
  (`SendKept` for the threads, `SenderMoves` for the send thread).
  `EmptyHanded` is needed because the send thread's next message replaces the
  one it holds. Everything about queues rests on `SeqsAppend` and `SeqsTail`.
* **`NothingLost`**: `Spec => []NoLostRequest`. It takes the same two lemmas up to
  the wire and adds the rest of the way, `Beyond`: on the wire, with the peer, in
  a reply on the wire, in a receiver's hands, or spoiled there. `LostInv` counts
  only the replies that receivers hold: the property counts every message in a
  hand, and one that is a request of the peer could hide the loss of ours with the
  same number. `HandsInv` is needed because a receiver's next message replaces its
  last one, and because `CleanupDrain` throws away replies.
* **`OneCleanupReleases`**: `Spec => []ClosedReleases`, from `ChannelInv` and
  `CleanInv`. While `on_disconnect` has been called once, one thread at most is
  between that call and the end of `__cleanup`, and it is the one that found the
  send thread to join; after it every caller is refused by `__send`
  (`CallersAsk`).
* **`AnswersAreOwn`** and **`ResultsStay`** (`ConnectionProofs`):
  `Spec => []OwnReply` and `Spec => ResultIsFinal`, from
  `ReplyInv == JourneyInv /\ OnceInv /\ FinalInv`. That no reply is given twice
  is about eight places a number may be in, pairwise disjoint; instead of saying
  so for every pair, `JourneyInv` says that a *stage* can be given to each
  number (new, asked, queued, sending, sent, pending, answered, taken, done)
  that agrees with all of them, and that whatever was sent is in `handed`.
  `OnceInv` says that no queue holds a number twice and no two threads hold the
  same one; `FinalInv` that a number with a result has no callback any more. A
  step that moves a request changes the stage of one number (`Moved`; one lemma
  each for the eight such steps); all the others satisfy `StagesKept`. Two
  directions share the numbers: a reply *we* send may carry the seq of one of our
  own requests, and its failed send is reported to that request's callback
  (`SenderReports`); the theorems hold nevertheless, since the callback is popped.
* **`ConnectionImplements`** (`ConnectionProofs`): `Spec => ImplementsTable`, step
  by step. On top of the invariants above it takes `GoneInv`: whoever has seen
  a send fail, be refused or be stopped stands where the socket is already
  closed, so that a failure or a refusal is never reported while the peer could
  still answer. The steps are sorted by what they do to the table: `TableMake`
  (a number is drawn), `TableResolve` (an outcome is dispatched; on time it is an
  answer or a failure, late it drops the request, and without a callback it
  changes nothing), `TableDrop` (the callbacks are cleared, or a caller whose
  send was refused takes its own back), and `TableKept` for all the others.
* **`OneReads`** (`BoundServingProofs`): `Spec => []OneReceiver`, the same promise
  for `bind_threads`. Its invariant is `BInv == RoleInv /\ FrameInv`. The steps
  are those that enter the role, leave it, or do neither (`EnteringKeeps`,
  `LeavingKeeps`, `StayingKeeps`); `FrameInv` is needed because `close()` goes on
  where its frame on the stack says, which must not be inside the role, and a
  frame that says "handler" must lie above a handler's.
* **`TypeCorrect`** (`BoundServingProofs`): `Spec => []TypeOK` for `bind_threads`,
  from `TypeInv`: every message, frame and `await` that names a request names one
  that was sent, by whom it says (`Sent`, `Due`, `Inside`), and a pool lists each
  sleeping thread of its end once (`PoolInv`).
* **`SleepersWoken`** (`BoundServingProofs`): `Spec => []SleepersAreWoken`.
  `AsleepInv`: who waits on a condition and was not notified has no message.
  `WokenInv`: if such a thread sleeps while nobody receives, another one of that
  pool was notified and has no message either, so he will receive. Whoever leaves
  keeps this by notifying (`NotifiedIsWoken`), unless he goes to sleep with his
  answer there or takes the notification away with him; `SleepInv` excludes that:
  as long as no deadline has passed, nobody sleeps or receives while the request
  he waits for is done. (After a deadline it is false: finding 4.) It needs
  `HomeInv`, for a reply that another thread takes would leave its owner there.
* **`ThreadsAreBound`** (`BoundServingProofs`): `Spec => []BoundToThread`. `HomeInv`
  says it of every message on the wire of an open end, in a queue or in a hand.
  What makes a new message right is `remote` of its sender, and that is about both
  ends: `ConvInv` says, while both are open and no deadline has passed, that the
  threads talk two by two. `Core` is that statement by itself, over whom each
  thread talks to (`P`), the requests it handles and has open, who waits, and the
  messages under way: of a pair exactly one has the turn, what one handles the
  other has open, and an open request is handled or on its way. There is one lemma
  for each way a conversation goes on (`CoreAsk`, `CoreServe`, `CoreServeNew`,
  `CoreTake`, `CoreAnswer`, `CoreAnswerLast`, `CoreDrop`, `CoreBind`), and one for
  each action that says which of them it is (`AskConv`, `RequestConv`, `HandConv`,
  ...). `LocalInv` ties a thread's counters and frames to it: `_occupation_count` is
  the number of requests it handles and has open (`CountIn`), a queue holds one
  message at most and for a thread that can take it (`QueueIn`), and the frames are
  nested by the numbers of what they serve and wait for (`StackIn`, `FramesIn`).
  Each message is in one place (`Once`).
* **`ReadersSeeTheReply`** (`AsyncClientProofs`): `[]ValueIsTheReply`, from
  `StoredInv`: the order in which `__call__` stores its three attributes is what
  makes a reader without a lock right. **`EachCallbackOnce`**:
  `[]CallbacksRunOnce`, from `CallbackInv`: a thread is on the list once and only
  after its append, nothing beyond the index of the loop has run, and what was
  on the list when the result became ready is either done or still ahead.
* **`PauseHolds`**, **`PauseWakes`** (`AsyncClientProofs`): one invariant
  `BgInv == TypeOK /\ RunningWhileServing /\ PausedIsQuiet /\ ServeIsWoken`.
  `RunningWhileServing` is needed because `pause` waits for `__running` to be
  false: it must be true wherever the thread may still serve.
* **`NeverBothWays`** (`StreamProofs`): `[]SendRecvExclusive`: while the writer of an
  end is in `send()`, no poll of that end has the socket registered and its receiver
  is not in `recv()`. `LockInv` ties the
  flags of the condition to the positions of the receiver and the writer of the
  same end and says that a writer that sends has seen both flags down.
* **`PairOutlivesPoll`**, **`NoWakeupIsLost`** (`StreamProofs`):
  `[]PairNotFreedInUse` and `[]PollIsWoken`, from `LockInv` and `PairInv`, whose
  part `PairAgrees` says that a poll which has the pair registered listens to it,
  and that a `close()` that took the pair away meanwhile has left a byte;
  `Woken` says that a notified poll and a poll somebody pauses for have one. The
  steps are sorted by what they do to the pair (`PairMoveKeeps`: nothing;
  `PairStepKeeps`: something at their own end only).
* **`FramesAreWhole`** (`StreamProofs`): `[]FramesIntact`. A receiver goes on from
  what it has to what comes next, so `JoinedInv` puts what it has got, what is in
  the buffer and the next piece of the other end's writer into one order
  (`InOrder`), and `PlaceInv` says how much is left or got where the writer and the
  receiver are. Only a `close()` that has taken the socket reads pieces away
  (`DrainInv`), so the order holds as long as the socket is open.
* **`PiecesKeepOrder`** (`StreamProofs`): `[]PipeKeepsOrder`, from `FileInv`,
  `ReaderInv` (the read thread ends when, and only when, the pipe is at its end)
  and `PieceInv` (`__ready`, the read thread's hand and the pipe follow the last
  piece read, up to what was written, or the rest of an incomplete message has
  been dropped).
* **`OwnerLetsGo`**, **`CountingImplements`**, **`HeldIsKept`**
  (`NetrefProofs`): `[]NothingLeaks`, the refinement of `RemoteReference`, and
  that a netref in use finds its object, for one consumer thread and any number
  of owner threads (`Consumer = {c}`: with two it is false, finding 1).
  `CountsAgree` says that the slot is what is out: references unread, being
  unboxed, waiting in a factory, lost with one, counted by a live netref, and given
  back by messages under way. The cache may have forgotten several of the live
  netrefs, which `ThreadInv` allows. It is a
  sum over sets, sequences and threads, which is stated as the cardinality of a
  set of pairs, so that no sum has to be computed by induction (`TotalChanges`,
  `SumShifts`). **`NeverDanglesInOrder`** adds that the requests themselves arrive
  before the removal of what they name, if one thread handles them in order.
* **`WorkersAreWhatRuns`**, **`NothingIsLeft`** (`ServerKindsProofs`):
  `[]ThreadedWorkersAreAlive` and `[]EndedLeavesNothing` for every kind of server,
  from `MainInv` (whom the accepting thread has in its hand, and where it may
  be), `WorkerInv` (who is about to be joined has ended) and `EndInv`.
* **`EveryConnectionInOnePlace`**, **`NobodyIsDropped`** (`ThreadPoolProofs`):
  `[]OnePlace` and `[]OnlyGoneAreDropped` under `ASSUME ~EarlyReuse`: numbers are
  handed out again and again, but none that the pool still knows, which is exactly
  what finding 3 lacks. `IInv` adds that nobody knows the number of a connection
  that is being accepted (`FreshInv`, `KnownInv`), that the table names the only
  client a number may be open for (`OwnInv`), that a worker about to drop a number
  has seen its connection closed (`DropInv`), and that what `poll()` returned
  stays true although other threads run before the poller acts on it (`EventInv`).
* **`ObserverIsRight`** (`RegistryProofs`): `TransportSpec => []ObserverAgrees`
  over either transport. Only commands and the clock change the table.
* **`RegisteredAreFound`**, **`NothingFollowsUnregister`** (`RegistryProofs`):
  `[]Discoverable` under `Punctual` (pruning takes longer than the registrations a
  server may miss; where datagrams are delayed a server is started once) and
  `UnregisterIsLast`, for any number of `close()` calls at once: once the one that
  joins the registration thread has gone on (`Joined`) that thread has ended.
  `ServerInv` has one part for the server's life (`LifeInv`), one for what of it
  is under way (`DatagramInv`: a REGISTER that somebody waits for follows every
  UNREGISTER) and one for the ages of its entries (`FoundInv`).
* **`SimpleReturns`**, **`HeaderReturns`** (`NetrefProofs`): for every simple value
  and every number of items of a tuple, with any stream behind it, the loader that
  the tag selects reads exactly what was written and leaves the rest. The run
  `netref` tries the lengths at the boundaries; here a length is any number up to
  4294967295, the most that four bytes hold (`dump` raises beyond it). The only
  assumptions say what the labels stand for (`SimpleValue`: a text of no bytes is
  the empty one; the digits of an immediate int are those of that int). The argument
  is that of a parser: which chunks begin the stream (`OneChunk`, `TwoChunks`,
  `ThreeChunks`, `Prefixed`), which loader a tag has (`TagRanges`, `LoaderOf`), and
  that it asks for the size that was written. **`TypesWithoutLoader`** is the
  exception of section 6.

Model-checked only: everything else of section 3. Of the safety properties that
is `RepliesArrive` alone: a value inside of values is read by recursion over data,
so only its leaves and headers are proved (`SimpleReturns`, `HeaderReturns`). The
others are the liveness properties, out of the prover's reach. A theorem whose
specification states fairness (`TransportSpec`, `KindSpec`) uses only its safety
part.

## 5. What is not modelled

* `BoundServing`: the send thread (as in `Connection`), failing sends other than
  those after the end of the connection, and `__get_thread` forgetting a thread
  that has ended: names of threads are not used again.
* Attribute access control and the handlers that only evaluate a Python
  expression are one handler that may call back. Attribute names, formatting,
  logging and `vinegar`'s tracebacks are data.
* The content of texts in `BrineFormat`: UTF-8, decimal digits and IEEE numbers are
  taken to be read back as written. `Channel`'s compression likewise. Classes
  of exceptions that cannot be made without arguments; the warning about
  versions.
* `__netref_factory` in `Boxing`: a netref is its name, whatever class was built
  for it.
* One object in `Netref`: slots of different objects do not interact.
* The requests that `__netref_factory` makes while a reply is unboxed are nested in the
  unboxing. `Netref` has them, as the time between `Use` and `Create`; in `Connection`
  and `BoundServing` the unboxing of a reply is one step, which serves no message. In
  `Connection` it may fail (`UnboxFails`), in `BoundServing` it does not.
* `ThreadPool`: the connections in `clients`, that is those which are being accepted,
  that `Server.close` shuts; a `close()` in `on_connect`, on the accepting thread, is one
  from outside.
* `Registry`: a server is started at the address of a former one only when all `close()`
  calls of that one are over. A `close()` that comes to its end before another one
  begins makes that one return at once, as one that does not happen. The swap of
  `register_thread` (`server.py:130`) is one step, as it is in CPython unless two
  threads change between the load and the store.
* `ServerKinds`: a child's copy of the registrar; the greenlet that registers a
  `GeventServer`.
* The registry's LIST command, which only reads, and its own start and close.
* Windows pipes, TLS handshakes, tunnels, authenticators, the reactor, classic
  mode, teleportation, zero-deploy, the command line: I/O or clients of the
  connection.

## 6. What the models show about the code

### Findings that a run exhibits

1. **A netref can dangle** (`netref_dangle`). A thread that gets a netref from
   the cache while another thread is in its `__del__` increments a count that
   `__del__` is about to give back: the owner then deletes an object that is
   in use.
2. **Two large frames can block each other** (`stream_deadlock`). Between two
   pieces of a frame the writer waits until no `read` of its own end is in
   `recv`, while that `recv` waits for the other end's next piece. This takes
   two sockets without a timeout, such as those a server accepts or a socketpair; a
   socket that `connect()` made keeps the timeout it connected with, and the
   TimeoutError of its `recv` turns the stop into a delay (`stream`).
3. **A stranger's connection can be dropped** (`thread_pool_reuse`), when the kernel
   hands a number out again early. The worker
   that meets the end of a connection drops its descriptor number after the
   number may have been given to a new client.
4. **With `bind_threads` a caller can sleep on its reply** (`bound_lost_wakeup`).
   `_ReceivingGuard.__exit__` (`protocol.py:1167`) notifies one sleeper. If that
   one is just timing out it leaves by its predicate and notifies nobody, so a
   third thread sleeps on while nobody receives, with its reply on the wire.
   `CHANGELOG.rst:119-120` says that such races are no longer visible.

### Cases the code does not prevent

These restrict what the properties say, in the way noted; the counterexamples
come from earlier versions of the properties.

* `add_callback` (`async_.py:70-73`): a callback that is appended after the loop
  of `__call__` has ended is never invoked, against `:63-66`. `CallbacksRunOnce`
  speaks of the callbacks on the list when the result became ready.
* `set_expiry` (`async_.py:75-81`): a thread that waits already has the former
  deadline in its `serve`, so it notices the new one with the next message only.
  And a reply that came too late was dropped: a `set_expiry(None)` after that
  makes the next `wait` endless. `WaitersReturn` excepts both.
* A callback that raises (`async_.py:42`) leaves `__call__` and `__dispatch`: the
  callbacks behind it are not run, and the notification after the dispatch
  (`protocol.py:493`) does not happen. A waiter that polls, in a `serve` without a
  deadline, then sleeps on although its result is ready, until the next message.
  `WaitersReturn` excepts it (`NotNotified`).
* `Connection.close` (`protocol.py:303-318`): HANDLE_CLOSE of the peer served
  while `close` waits for its own reply, or two threads that both pass the test
  of `__closed`, run `__cleanup` twice; the second one calls `on_disconnect`
  again or meets `None`. `ClosedReleases` therefore speaks of executions in
  which it ran once.
* `bind_threads`: a worker inside a nested `sync_request` when the connection is
  cleaned up has `serve` set to False, so `__serve_bound` returns at once and the
  worker spins until its request times out. A request for a thread that has
  given up its call is put into that thread's `_deque` and stays there, with
  the thread occupied, until it calls again: nothing calls `decr` for a request
  that expired (`protocol.py:1140-1145`), so the thread stays bound to whom it
  last heard of and its later requests may go to the wrong thread. `BoundToThread`,
  `SleepersAreWoken` and `BoundThreadsEnd` except deadlines that passed.
* A netref that is resurrected in the same race as finding 1, but counted
  later, is never finalized again and leaks. `NothingLeaks` holds with one
  consumer thread.
* A netref's factory asks the owner for the type (`protocol.py:410-416`). When this
  fails `__unbox` raises, and the reference it was for is never given back: the owner
  keeps the object. `NothingLeaks` counts these.
* `BgServingThread.resume` (`helpers.py:303`) waits for the thread to run. A
  pause that comes before the thread wakes leaves that `resume` waiting until
  somebody resumes again. `CallsReturn` excepts a call that has been taken back.
* `Stream.close` (`stream.py:431`) drains the socket beside a `recv` that has
  already begun, so the pieces it reads are missing from that frame. The frame
  belongs to a connection that is being closed: `FramesIntact` is about an open
  socket.
* `PipeStream.close`: the number of a descriptor may be used again between
  `fileno()` and the `os.write` of another thread, or under the read thread. A
  second `close()` clears `__ready` under a receiver that is still reading.
  `__del__` on the read thread joins that thread, which raises RuntimeError.
* `Server.accept` (`server.py:198-203`) tests `active` and adds the client
  later: a client accepted while `close` copies `clients` survives it. With a
  `OneShotServer` it also keeps `start()` serving, which `ClosesEnd` allows.
* `ForkingServer.close` off the main thread raises ValueError from
  `signal.signal` at its end; children that end after `close` stay zombies;
  a `close` of the parent between `accept` and the discarding of its copy shuts
  the connection of the child.
* `ThreadPoolServer.close` on a thread of the pool joins that thread: a service or an
  `on_disconnect` on a worker gets RuntimeError at `server.py:471`, one on the polling
  thread at `:465`, with the rest unjoined; after `on_disconnect` the rest of
  `__cleanup` is skipped too. The `close()` of `start()` does what is left, except when
  a worker is in `close()` and waits for the polling thread, which is in `close()` itself
  and waits for that worker: neither ends. `CloseReturns` excepts that case
  (`WaitForEachOther`).
* `Server.close` beside another one (`server.py:130-134`; `start()` calls it at `:327`)
  finds `register_thread` None and sends UNREGISTER without waiting, and the
  registration thread may send REGISTER after it. The first `close()` sends
  another UNREGISTER in the end. `UnregisterIsLast` is about that one.
* `ThreadPoolServer.close` leaves the connections of `fd_to_conn` open, since
  it empties `clients` when it hands a connection over (`:608`).
* `cmd_unregister` (`registry.py:133-134`) calls `on_service_removed` for every
  name, also where the server never was. `ObserverAgrees` is about the set of
  entries an observer ends with, in which such a call changes nothing.
* `RegistryServer._work` (`registry.py:156`) calls `cmd.lower()` outside its try blocks: a
  well-formed packet whose command is not a str raises AttributeError, which ends
  `_work` and with it the registry. `GhostsEnd` excepts a registry that has ended.
* `TCPRegistryServer._recv` (`registry.py:264`) has no timeout: a client that
  connects and sends nothing stops the registry. A command without a reply leaves
  its socket in `_connected_sockets`.
* A reply that cannot be unboxed is lost. `__dispatch` (`protocol.py:489-497`)
  unboxes before it takes the callback of the request, so an exception in
  `__unbox` or `vinegar.load` is raised on whichever thread received the message
  and the caller waits on, until its deadline or the end of the connection
  (`UnboxFails`; `ThreadsReturn` excepts it). `get_id_pack`
  (`lib/__init__.py:220-223`) names a module that is not in `sys.modules` by three
  items, of which `__unbox` reads four; `vinegar.load` (`:151`) makes an
  `ExceptionGroup` without the arguments its `__new__` requires; and the factory
  of a netref may fail, as above.
* `dumpable` (`brine.py:480-485`) promises that `dump` succeeds. It raises for a
  str with a lone surrogate and for an int of more digits than Python converts
  (4300), and `__send` of the reply (`protocol.py:453`) then ends the connection.
* `type(NotImplemented)` and `type(Ellipsis)` are dumped with tags that `load`
  does not know: they are registered under the type (`brine.py:433-440`).
  `LoadableType` leaves them out of the sample, and `TypesWithoutLoader` proves
  that no loader is found.
* The value of a StopIteration does not arrive (`vinegar.py:50`, "optimization").
* A netref of another connection is named by the `____id_pack__` its owner gave
  it (`lib/__init__.py:209-212`), an address in another process. A local object
  with the same class name and addresses would share its slot. The sample keeps
  the names distinct.

## 7. Plan

The order was: what most of the library depends on comes first. Done: Connection
with its first theorems, AsyncResult, Netref with its refinement, BgServing,
Stream, the servers, ThreadPool, Registry, Brine with boxing, Vinegar; then
`bind_threads`, pipes, the other kinds of servers, the registry over TCP, and
proofs about all of them.

Worth doing next:

1. *Composition*: Connection's send thread over Stream's writer, so that the
   `wakeup` of one is the predicate of the other.
2. *Nested unboxing*: the factory's request as a call of `Connection`, so that the
   thread which unboxes a reply may become the receiver again before it dispatches it.
