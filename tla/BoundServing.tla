---------------------------- MODULE BoundServing ----------------------------
(***************************************************************************)
(* Two Connections of rpyc/core/protocol.py with bind_threads on, one at   *)
(* each end of a socket.  Every message names the thread it is from and    *)
(* the thread of the other end it is for; whoever receives it hands it to  *)
(* that thread's _deque, and a message for nobody in particular goes to an *)
(* idle thread of the pool or to a new worker.                             *)
(*                                                                         *)
(* What happens under _lock from one wait, poll or call to the next is one *)
(* step.  Requests reach the socket as __send puts them into its queue;    *)
(* the send thread and a single close() in detail are in Connection.       *)
(***************************************************************************)
EXTENDS Integers, Sequences, FiniteSets, SequencesExt

CONSTANTS Client,   \* threads that call sync_request and close
          Server,   \* threads that run serve_all
          Worker,   \* names for the threads that __serve_bound creates
          SideOf,   \* the end of each thread: "near" or "far"
          MaxCall,  \* bound: requests of clients and handlers, and unanswered of one
          MayClose, \* threads that may call close(), in a handler if not a client
          MayExpire \* threads whose requests may run into their deadline

Thread == Client \cup Server \cup Worker
Side   == {"near", "far"}

(* UNBOUND_THREAD_ID *)
Unbound == "unbound"

ASSUME BoundServingAssumption ==
    /\ Unbound \notin Thread /\ Client \cap Server = {} /\ Worker \cap (Client \cup Server) = {}
    /\ SideOf \in [Thread -> Side]
    /\ MaxCall \in Nat /\ MayClose \subseteq Thread /\ MayExpire \subseteq Thread

Peer(d) == CHOOSE e \in Side : e # d
On(d)   == {t \in Thread : SideOf[t] = d}

NoSeq == -1

(* bound: requests, and a HANDLE_CLOSE of each end *)
SeqNo   == 0 .. MaxCall + 1
Message == [type : {"request", "close", "reply"}, seq : SeqNo,
            from : Thread, to : Thread \cup {Unbound}]
NoMsg   == [type |-> "none"]
EOF     == [type |-> "eof"]
Wake    == [type |-> "wake"]      \* the None that ends the loop of a worker

(* a handler or a close() the thread is inside of, and what it was waiting for *)
Frame == [op : {"handle"}, await : SeqNo \cup {NoSeq}, arg : SeqNo]
             \cup [op : {"close"}, await : SeqNo \cup {NoSeq}, arg : {"idle", "handler", "raise", "end"}]

VARIABLES
    pc,         \* where each thread is
    await,      \* the request whose AsyncResult it waits for
    stack,      \* the handlers and the close() it is inside of
    msg,        \* what it has received
    deque,      \* _Thread._deque
    remote,     \* _Thread._remote_thread_id
    occupation, \* _Thread._occupation_count
    serve,      \* _Thread.serve
    asleep,     \* threads that wait on their _condition and were not notified
    pool,       \* _thread_pool of each end
    receiving,  \* _receiving
    workers,    \* __worker_pool
    closed,     \* __closed
    open,       \* the channel has not been closed by this end
    cleaner,    \* __cleaning_thread
    joining,    \* the workers that the cleanup of each end joins
    kicked,     \* a byte on the wakeup pair of each end's stream
    wire,       \* messages on their way to each end
    issued,     \* requests so far
    owner,      \* history: the thread that sent a request, and whose request it served
    done,       \* requests whose AsyncResult is ready
    expired     \* requests whose AsyncResult has expired

threadVars == <<pc, await, stack, msg>>
boundVars  == <<deque, remote, occupation, serve>>
waitVars   == <<asleep, pool, receiving, kicked>>
closeVars  == <<workers, closed, open, cleaner, joining>>
netVars    == <<wire, issued, owner, done, expired>>
vars == <<threadVars, boundVars, waitVars, closeVars, netVars>>

Init ==
    /\ pc = [t \in Thread |-> IF t \in Server THEN "loop" ELSE "idle"]
    /\ await = [t \in Thread |-> NoSeq]
    /\ stack = [t \in Thread |-> <<>>]
    /\ msg = [t \in Thread |-> NoMsg]
    /\ deque = [t \in Thread |-> <<>>]
    /\ remote = [t \in Thread |-> Unbound]
    /\ occupation = [t \in Thread |-> 0]
    /\ serve = [t \in Thread |-> TRUE]
    /\ asleep = {} /\ pool = [d \in Side |-> <<>>]
    /\ receiving = [d \in Side |-> FALSE] /\ kicked = [d \in Side |-> FALSE]
    /\ workers = [d \in Side |-> {}]
    /\ closed = [d \in Side |-> FALSE] /\ open = [d \in Side |-> TRUE]
    /\ cleaner = [d \in Side |-> "none"] /\ joining = [d \in Side |-> {}]
    /\ wire = [d \in Side |-> <<>>]
    /\ issued = 0 /\ owner = <<>> /\ done = {} /\ expired = {}

-----------------------------------------------------------------------------
Goto(t, l) == pc' = [pc EXCEPT ![t] = l]

(* AsyncResult._predicate; serve_all and workers have none *)
Predicate(t) == await[t] \in done \cup expired

Push(t, op, arg) ==
    /\ stack' = [stack EXCEPT ![t] = <<[op |-> op, await |-> await[t], arg |-> arg]>> \o @]
    /\ await' = [await EXCEPT ![t] = NoSeq]
Pop(t) ==
    /\ await' = [await EXCEPT ![t] = Head(stack[t]).await]
    /\ stack' = [stack EXCEPT ![t] = Tail(@)]

(* the first thread of a pool that is one of those, if any *)
First(p, those) ==
    {p[i] : i \in {j \in 1 .. Len(p) : p[j] \in those /\ \A k \in 1 .. j - 1 : p[k] \notin those}}

(* the threads without a message *)
Empty(queues) == {u \in Thread : queues[u] = <<>>}

(* what is left of a pool without the thread *)
Leave(p, t) == RemoveAt(p, CHOOSE i \in 1 .. Len(p) : p[i] = t)

(* mutant: the receiver leaves without notifying anybody *)
GuardExitSilent(d, p, queues) ==
    receiving' = [receiving EXCEPT ![d] = FALSE] /\ UNCHANGED asleep

(* _ReceivingGuard.__exit__: the first of the pool without a message is notified *)
GuardExit(d, p, queues) ==
    /\ receiving' = [receiving EXCEPT ![d] = FALSE]
    /\ asleep' = asleep \ First(p, Empty(queues))

(* _Thread.incr and _Thread.decr *)
Incr(t) == occupation' = [occupation EXCEPT ![t] = @ + 1] /\ UNCHANGED remote
Decr(t) ==
    IF occupation[t] <= 1
      THEN /\ occupation' = [occupation EXCEPT ![t] = 0]
           /\ remote' = [remote EXCEPT ![t] = Unbound]
      ELSE occupation' = [occupation EXCEPT ![t] = @ - 1] /\ UNCHANGED remote

-----------------------------------------------------------------------------
(* __send: the header names this thread and the one it is bound to *)

(* mutant: the header does not say which thread the message is for *)
PostUnbound(t, type, s) ==
    wire' = [wire EXCEPT ![Peer(SideOf[t])] =
               Append(@, [type |-> type, seq |-> s, from |-> t, to |-> Unbound])]

Post(t, type, s) ==
    wire' = [wire EXCEPT ![Peer(SideOf[t])] =
               Append(@, [type |-> type, seq |-> s, from |-> t, to |-> remote[t]])]

(* whose request a thread serves with its innermost handler *)
Asker(t) ==
    IF stack[t] # <<>> /\ Head(stack[t]).op = "handle"
      THEN owner[Head(stack[t]).arg + 1].thread
      ELSE Unbound

(* sync_request: it raises EOFError when the send thread has ended *)
SendRequest(t, type) ==
    /\ Incr(t)
    /\ IF open[SideOf[t]]
         THEN /\ issued \in SeqNo /\ issued' = issued + 1
              /\ owner' = Append(owner, [thread |-> t, home |-> Asker(t)])
              /\ Post(t, type, issued)
              /\ await' = [await EXCEPT ![t] = issued]
              /\ Goto(t, "loop")
         ELSE Goto(t, "raise") /\ UNCHANGED <<issued, owner, wire, await>>

ClientCalls(t) ==
    /\ t \in Client /\ pc[t] = "idle" /\ issued < MaxCall /\ occupation[t] < MaxCall
    /\ SendRequest(t, "request")
    /\ UNCHANGED <<stack, msg, deque, serve, waitVars, closeVars, done, expired>>

HandlerCalls(t) ==
    /\ pc[t] = "handler" /\ Len(stack[t]) = 1
    /\ issued < MaxCall /\ occupation[t] <= MaxCall
    /\ SendRequest(t, "request")
    /\ UNCHANGED <<stack, msg, deque, serve, waitVars, closeVars, done, expired>>

(* the handler returns or has caught what a nested request raised *)
SendReply(t) ==
    /\ pc[t] = "handler"
    /\ Pop(t)
    /\ IF open[SideOf[t]]
         THEN Post(t, "reply", Head(stack[t]).arg) /\ Goto(t, "loop")
         ELSE Goto(t, "raise") /\ UNCHANGED wire
    /\ Decr(t)
    /\ UNCHANGED <<msg, deque, serve, waitVars, closeVars, issued, owner, done, expired>>

-----------------------------------------------------------------------------
(* AsyncResult.wait, and where a thread goes on after a request or EOFError *)

After(t) ==
    IF stack[t] # <<>> THEN IF Head(stack[t]).op = "handle" THEN "handler" ELSE "cleanup"
    ELSE CASE t \in Client -> "idle" [] t \in Server -> "closing" [] OTHER -> "end"

WaitDone(t) ==
    /\ pc[t] = "loop" /\ Predicate(t)
    /\ await' = [await EXCEPT ![t] = NoSeq]
    /\ Goto(t, After(t))
    /\ UNCHANGED <<stack, msg, boundVars, waitVars, closeVars, netVars>>

(* serve raises EOFError; a worker that it ends sets its serve to False *)
Raise(t) ==
    /\ pc[t] = "raise"
    /\ await' = [await EXCEPT ![t] = NoSeq]
    /\ Goto(t, After(t))
    /\ serve' = IF After(t) = "end" THEN [serve EXCEPT ![t] = FALSE] ELSE serve
    /\ UNCHANGED <<stack, msg, deque, remote, occupation, waitVars, closeVars, netVars>>

(* the loops of serve_all and __serve_worker *)
Looping(t) ==
    \/ await[t] # NoSeq
    \/ t \in Server /\ ~closed[SideOf[t]]
    \/ t \in Worker /\ (serve[t] \/ deque[t] # <<>>)

LoopEnds(t) ==
    /\ pc[t] = "loop" /\ ~Looping(t)
    /\ Goto(t, After(t))
    /\ UNCHANGED <<await, stack, msg, boundVars, waitVars, closeVars, netVars>>

-----------------------------------------------------------------------------
(* __serve_bound up to the poll *)

TakeOwn(t) ==
    /\ deque' = [deque EXCEPT ![t] = Tail(@)]
    /\ IF Head(deque[t]) = Wake
         THEN Goto(t, "loop") /\ UNCHANGED <<msg, remote>>
         ELSE /\ msg' = [msg EXCEPT ![t] = Head(deque[t])]
              /\ remote' = [remote EXCEPT ![t] = Head(deque[t]).from]
              /\ Goto(t, "dispatch")

(* a thread that is ready to go on, with its place in the pool given up *)
Proceed(t, p) ==
    LET d == SideOf[t]
    IN  /\ pool' = [pool EXCEPT ![d] = p]
        /\ CASE Predicate(t) ->
                   Goto(t, "loop") /\ UNCHANGED <<msg, deque, remote, receiving, asleep>>
             [] ~Predicate(t) /\ deque[t] # <<>> ->
                   TakeOwn(t) /\ UNCHANGED <<receiving, asleep>>
             [] ~Predicate(t) /\ deque[t] = <<>> /\ serve[t] ->
                   /\ receiving' = [receiving EXCEPT ![d] = TRUE]
                   /\ Goto(t, "poll")
                   /\ UNCHANGED <<msg, deque, remote, asleep>>
             [] OTHER ->
                   GuardExit(d, p, deque) /\ Goto(t, "loop") /\ UNCHANGED <<msg, deque, remote>>

(* mutant: nobody asks whether there is a receiver *)
ReadyAlways(t) == TRUE

Ready(t) == Predicate(t) \/ deque[t] # <<>> \/ ~receiving[SideOf[t]]

ServeEnter(t) ==
    /\ pc[t] = "loop" /\ ~Predicate(t) /\ Looping(t)
    /\ IF Ready(t)
         THEN Proceed(t, pool[SideOf[t]])
         ELSE /\ pool' = [pool EXCEPT ![SideOf[t]] = Append(@, t)]
              /\ asleep' = asleep \cup {t}
              /\ Goto(t, "asleep")
              /\ UNCHANGED <<msg, deque, remote, receiving>>
    /\ UNCHANGED <<await, stack, occupation, serve, kicked, closeVars, netVars>>

(* wait_for: notified or timed out *)
ServeWoken(t) ==
    /\ pc[t] = "asleep"
    /\ t \notin asleep \/ await[t] \in expired
    /\ IF Ready(t)
         THEN Proceed(t, Leave(pool[SideOf[t]], t))
         ELSE asleep' = asleep \cup {t} /\ UNCHANGED <<pc, msg, deque, remote, pool, receiving>>
    /\ UNCHANGED <<await, stack, occupation, serve, kicked, closeVars, netVars>>

-----------------------------------------------------------------------------
(* the receiver: channel.poll and channel.recv, with _lock released *)

Received(t, m) ==
    /\ msg' = [msg EXCEPT ![t] = m]
    /\ Goto(t, "received")

PollData(t) ==
    /\ pc[t] = "poll" /\ open[SideOf[t]] /\ wire[SideOf[t]] # <<>>
    /\ Received(t, Head(wire[SideOf[t]]))
    /\ wire' = [wire EXCEPT ![SideOf[t]] = Tail(@)]
    /\ UNCHANGED <<await, stack, boundVars, waitVars, closeVars, issued, owner, done, expired>>

PollEOF(t) ==
    /\ pc[t] = "poll"
    /\ \/ ~open[SideOf[t]]
       \/ wire[SideOf[t]] = <<>> /\ ~open[Peer(SideOf[t])]
    /\ Received(t, EOF)
    /\ UNCHANGED <<await, stack, boundVars, waitVars, closeVars, netVars>>

(* notified, or the deadline *)
PollWoken(t) ==
    /\ pc[t] = "poll" /\ (kicked[SideOf[t]] \/ Predicate(t))
    /\ Received(t, NoMsg)
    /\ kicked' = [kicked EXCEPT ![SideOf[t]] = FALSE]
    /\ UNCHANGED <<await, stack, boundVars, asleep, pool, receiving, closeVars, netVars>>

-----------------------------------------------------------------------------
(* __serve_bound after the poll: what has been received, and whose it is *)

(* the receiver leaves: nothing came, or EOFError *)
LeaveEmpty(t) ==
    /\ pc[t] = "received" /\ msg[t] \in {NoMsg, EOF}
    /\ GuardExit(SideOf[t], pool[SideOf[t]], deque)
    /\ Goto(t, IF msg[t] = EOF THEN "eof" ELSE "loop")
    /\ msg' = [msg EXCEPT ![t] = NoMsg]
    /\ UNCHANGED <<await, stack, boundVars, pool, kicked, closeVars, netVars>>

Got(t) == pc[t] = "received" /\ msg[t] \notin {NoMsg, EOF}

(* meant for this thread: its own number, or nobody's while it is not occupied *)
Mine(t) == msg[t].to = t \/ (msg[t].to = Unbound /\ occupation[t] = 0)

TakeMessage(t) ==
    /\ Got(t) /\ Mine(t)
    /\ GuardExit(SideOf[t], pool[SideOf[t]], deque)
    /\ remote' = [remote EXCEPT ![t] = msg[t].from]
    /\ Goto(t, "dispatch")
    /\ UNCHANGED <<await, stack, msg, deque, occupation, serve, pool, kicked, closeVars, netVars>>

(* whom the message is handed to: nobody if that takes a new worker *)
Recipient(t) ==
    IF msg[t].to = Unbound
      THEN First(pool[SideOf[t]],
                 {u \in Empty(deque) : serve[u] /\ occupation[u] = 0})
      ELSE {u \in {msg[t].to} : serve[u]}

(* mutant: whoever is handed a message is not notified *)
ReceiveNextSilent(t, woken, queues) ==
    /\ msg' = [msg EXCEPT ![t] = NoMsg]
    /\ IF serve[t]
         THEN UNCHANGED <<asleep, receiving>>
         ELSE /\ receiving' = [receiving EXCEPT ![SideOf[t]] = FALSE]
              /\ asleep' = asleep \ First(pool[SideOf[t]], Empty(queues))

(* the loop goes on with the next poll, unless this thread is to end *)
ReceiveNext(t, woken, queues) ==
    /\ msg' = [msg EXCEPT ![t] = NoMsg]
    /\ IF serve[t]
         THEN asleep' = asleep \ woken /\ UNCHANGED receiving
         ELSE /\ receiving' = [receiving EXCEPT ![SideOf[t]] = FALSE]
              /\ asleep' = (asleep \ woken) \ First(pool[SideOf[t]], Empty(queues))

AfterHandOver(t) == IF serve[t] THEN "poll" ELSE "loop"

HandOver(t) ==
    /\ Got(t) /\ ~Mine(t)
    /\ \E u \in Recipient(t) :
         /\ deque' = [deque EXCEPT ![u] = Append(@, msg[t])]
         /\ ReceiveNext(t, {u}, deque')
    /\ Goto(t, AfterHandOver(t))
    /\ UNCHANGED <<await, stack, remote, occupation, serve, pool, kicked, closeVars, netVars>>

(* worker(self.__serve_worker) *)
StartWorker(t) ==
    /\ Got(t) /\ ~Mine(t) /\ Recipient(t) = {} /\ ~closed[SideOf[t]]
    /\ \E w \in Worker \cap On(SideOf[t]) :
         /\ pc[w] = "idle"
         /\ workers' = [workers EXCEPT ![SideOf[t]] = @ \cup {w}]
         /\ deque' = [deque EXCEPT ![w] = <<msg[t]>>]
         /\ pc' = [pc EXCEPT ![w] = "loop", ![t] = AfterHandOver(t)]
    /\ ReceiveNext(t, {}, deque')
    /\ UNCHANGED <<await, stack, remote, occupation, serve, pool, kicked,
                   closed, open, cleaner, joining, netVars>>

(* a connection that is closed starts no worker *)
DropMessage(t) ==
    /\ Got(t) /\ ~Mine(t) /\ Recipient(t) = {} /\ closed[SideOf[t]]
    /\ ReceiveNext(t, {}, deque)
    /\ Goto(t, AfterHandOver(t))
    /\ UNCHANGED <<await, stack, boundVars, pool, kicked, closeVars, netVars>>

-----------------------------------------------------------------------------
(* __dispatch *)

(* the result is set; notify() wakes the receiver and every thread *)
DispatchReply(t) ==
    /\ pc[t] = "dispatch" /\ msg[t].type = "reply"
    /\ Decr(t)
    /\ done' = IF open[SideOf[t]] THEN done \cup ({msg[t].seq} \ expired) ELSE done
    /\ asleep' = asleep \ On(SideOf[t])
    /\ kicked' = [kicked EXCEPT ![SideOf[t]] = \E u \in On(SideOf[t]) : pc[u] = "poll"]
    /\ msg' = [msg EXCEPT ![t] = NoMsg]
    /\ Goto(t, "loop")
    /\ UNCHANGED <<await, stack, deque, serve, pool, receiving, closeVars,
                   wire, issued, owner, expired>>

DispatchRequest(t) ==
    /\ pc[t] = "dispatch" /\ msg[t].type # "reply"
    /\ Incr(t)
    /\ Push(t, "handle", msg[t].seq)
    /\ msg' = [msg EXCEPT ![t] = NoMsg]
    /\ Goto(t, IF msg[t].type = "close" THEN "cleanup" ELSE "handler")
    /\ UNCHANGED <<deque, serve, waitVars, closeVars, netVars>>

-----------------------------------------------------------------------------
(* close, __cleanup, __cleanup_threads *)

Close(t, from, arg) ==
    /\ pc[t] = from
    /\ closed' = [closed EXCEPT ![SideOf[t]] = TRUE]
    /\ IF closed[SideOf[t]]
         THEN Goto(t, arg) /\ UNCHANGED <<stack, await>>
         ELSE Push(t, "close", arg) /\ Goto(t, "sendclose")
    /\ UNCHANGED <<msg, boundVars, waitVars, workers, open, cleaner, joining, netVars>>

UserCloses(t) ==
    /\ t \in MayClose /\ ~closed[SideOf[t]]
    /\ \/ t \in Client /\ Close(t, "idle", "idle")
       \/ t \notin Client /\ Close(t, "handler", "handler")

SendClose(t) ==
    /\ pc[t] = "sendclose"
    /\ SendRequest(t, "close")
    /\ UNCHANGED <<stack, msg, deque, serve, waitVars, closeVars, done, expired>>

(* __cleanup is over: close() goes on, or the handler of HANDLE_CLOSE answers *)
Cleaned(t) ==
    IF Head(stack[t]).op = "handle"
      THEN Goto(t, "handler") /\ UNCHANGED <<await, stack>>
      ELSE Goto(t, Head(stack[t]).arg) /\ Pop(t)

(* the channel is closed; a second __cleanup fails at its first use of a root *)
Cleanup(t) ==
    /\ pc[t] = "cleanup"
    /\ closed' = [closed EXCEPT ![SideOf[t]] = TRUE]
    /\ open' = [open EXCEPT ![SideOf[t]] = FALSE]
    /\ IF open[SideOf[t]] THEN Goto(t, "threads") /\ UNCHANGED <<await, stack>> ELSE Cleaned(t)
    /\ UNCHANGED <<msg, boundVars, waitVars, workers, cleaner, joining, netVars>>

(* each worker is told to end; under _ReceivingGuard *)
EndWorkers(d) ==
    LET W == workers[d]
        told == [t \in Thread |-> IF t \in W /\ serve[t] THEN Append(deque[t], Wake) ELSE deque[t]]
    IN  /\ workers' = [workers EXCEPT ![d] = {}]
        /\ joining' = [joining EXCEPT ![d] = W]
        /\ serve' = [t \in Thread |-> serve[t] /\ t \notin W]
        /\ deque' = told
        /\ asleep' = (asleep \ {t \in W : serve[t]})
                       \ (IF receiving[d] THEN {} ELSE First(pool[d], Empty(told)))
        /\ UNCHANGED <<remote, occupation, pool, receiving, kicked, closed, open>>

(* mutant: a worker joins the workers, itself among them *)
CleanupThreadsByWorker(t) ==
    /\ pc[t] = "threads"
    /\ EndWorkers(SideOf[t]) /\ Goto(t, "join")
    /\ UNCHANGED <<cleaner, await, stack, msg, netVars>>

CleanupThreads(t) ==
    /\ pc[t] = "threads"
    /\ LET d == SideOf[t]
       IN IF t \in workers[d]
            THEN /\ cleaner' = [cleaner EXCEPT ![d] = IF @ = "none" THEN "start" ELSE @]
                 /\ Cleaned(t)
                 /\ UNCHANGED <<boundVars, waitVars, workers, closed, open, joining>>
            ELSE EndWorkers(d) /\ Goto(t, "join") /\ UNCHANGED <<cleaner, await, stack>>
    /\ UNCHANGED <<msg, netVars>>

Joined(d) == \A w \in joining[d] : pc[w] = "end"

JoinWorkers(t) ==
    /\ pc[t] = "join" /\ Joined(SideOf[t])
    /\ Cleaned(t)
    /\ UNCHANGED <<msg, boundVars, waitVars, closeVars, netVars>>

(* the thread that a worker starts to join the workers *)
CleanerStep(d) ==
    \/ /\ cleaner[d] = "start" /\ cleaner' = [cleaner EXCEPT ![d] = "join"]
       /\ EndWorkers(d)
       /\ UNCHANGED <<threadVars, netVars>>
    \/ /\ cleaner[d] = "join" /\ cleaner' = [cleaner EXCEPT ![d] = "end"]
       /\ Joined(d)
       /\ UNCHANGED <<threadVars, boundVars, waitVars, workers, closed, open, joining, netVars>>

-----------------------------------------------------------------------------
Expire(s) ==
    /\ s < issued /\ s \notin done \cup expired
    /\ owner[s + 1].thread \in MayExpire
    /\ expired' = expired \cup {s}
    /\ UNCHANGED <<threadVars, boundVars, waitVars, closeVars, wire, issued, owner, done>>

ServeStep(t) ==
    \/ WaitDone(t) \/ Raise(t) \/ LoopEnds(t) \/ ServeEnter(t) \/ ServeWoken(t)
    \/ PollData(t) \/ PollEOF(t) \/ PollWoken(t)
    \/ LeaveEmpty(t) \/ TakeMessage(t) \/ HandOver(t) \/ StartWorker(t) \/ DropMessage(t)
    \/ DispatchReply(t) \/ DispatchRequest(t) \/ SendReply(t)

CloseStep(t) ==
    \/ Close(t, "eof", "raise") \/ Close(t, "closing", "end") \/ SendClose(t)
    \/ Cleanup(t) \/ CleanupThreads(t) \/ JoinWorkers(t)

Next ==
    \/ \E t \in Thread : \/ ServeStep(t) \/ CloseStep(t)
                         \/ ClientCalls(t) \/ HandlerCalls(t) \/ UserCloses(t)
    \/ \E d \in Side : CleanerStep(d)
    \/ \E s \in SeqNo : Expire(s)

(* Threads are scheduled; no deadline has to pass. *)
Fairness ==
    /\ \A t \in Thread : WF_vars(ServeStep(t) \/ CloseStep(t))
    /\ \A d \in Side : WF_vars(CleanerStep(d))

Spec == Init /\ [][Next]_vars
FairSpec == Spec /\ Fairness

-----------------------------------------------------------------------------
TypeOK ==
    /\ pc \in [Thread -> {"idle", "loop", "asleep", "poll", "received", "dispatch", "handler",
                          "raise", "eof", "closing", "sendclose", "cleanup", "threads",
                          "join", "end"}]
    /\ await \in [Thread -> SeqNo \cup {NoSeq}]
    /\ stack \in [Thread -> Seq(Frame)]
    /\ msg \in [Thread -> Message \cup {NoMsg, EOF}]
    /\ deque \in [Thread -> Seq(Message \cup {Wake})]
    /\ remote \in [Thread -> Thread \cup {Unbound}] /\ occupation \in [Thread -> Nat]
    /\ serve \in [Thread -> BOOLEAN] /\ asleep \subseteq Thread
    /\ pool \in [Side -> Seq(Thread)] /\ receiving \in [Side -> BOOLEAN]
    /\ kicked \in [Side -> BOOLEAN] /\ workers \in [Side -> SUBSET Worker]
    /\ closed \in [Side -> BOOLEAN] /\ open \in [Side -> BOOLEAN]
    /\ cleaner \in [Side -> {"none", "start", "join", "end"}]
    /\ joining \in [Side -> SUBSET Worker]
    /\ wire \in [Side -> Seq(Message)] /\ issued \in 0 .. MaxCall + 2
    /\ owner \in Seq([thread : Thread, home : Thread \cup {Unbound}]) /\ done \subseteq SeqNo /\ expired \subseteq SeqNo

(* At most one thread of an end polls or has a message it has received, and
   _receiving is set exactly then: __serve_bound releases _lock around the poll,
   and whoever enters meanwhile goes to sleep in the pool. *)
OneReceiver ==
    \A d \in Side :
        LET receivers == {t \in On(d) : pc[t] \in {"poll", "received"}}
        IN  /\ receiving[d] <=> receivers # {}
            /\ \A t, u \in receivers : t = u

(* whose a message is: a reply goes to the thread that asked, and what a handler
   asks while it serves a request goes to the thread that sent that request *)
Home(m) == IF m.type = "reply" THEN owner[m.seq + 1].thread ELSE owner[m.seq + 1].home

(* Requests and replies are bound to threads: as long as no deadline has passed,
   what is dispatched is dispatched by the thread it belongs to.  (A thread whose
   request expires stays occupied and bound, as nothing calls decr for it, and its
   later messages go to the wrong thread.) *)
BoundToThread ==
    \A t \in Thread : pc[t] = "dispatch" => expired # {} \/ Home(msg[t]) \in {t, Unbound}

(* A thread that sleeps in the pool has been notified once it has a message, and,
   unless a deadline has passed, one of those that sleep while nobody receives:
   a message or the socket is never left to threads that all sleep. *)
SleepersAreWoken ==
    /\ \A t \in asleep : deque[t] = <<>>
    /\ \A d \in Side : \/ receiving[d]
                       \/ expired # {}
                       \/ \A t \in On(d) : pc[t] # "asleep"
                       \/ \E t \in On(d) : pc[t] = "asleep" /\ t \notin asleep

(* In the end whoever called sync_request has gone on, unless a deadline has
   passed; and if one end of the connection was closed, both ends are rid of their
   worker threads, and no close() or cleaning thread is left joining them. *)
BoundThreadsEnd ==
    <>[](/\ expired = {} => \A t \in Client : await[t] = NoSeq
         /\ (\E d \in Side : closed[d]) =>
               /\ \A w \in Worker : pc[w] \in {"idle", "end"}
               /\ \A t \in Thread : pc[t] # "join"
               /\ \A d \in Side : cleaner[d] \in {"none", "end"})

(* In the end every call of sync_request has returned or raised, although other
   threads gave up theirs at their deadline: CHANGELOG.rst says that messages are
   no longer left unhandled by __serve_bound. *)
BoundCallsReturn == <>[](\A t \in Client : await[t] = NoSeq)
=============================================================================
