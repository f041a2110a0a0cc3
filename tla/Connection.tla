----------------------------- MODULE Connection -----------------------------
(***************************************************************************)
(* One rpyc Connection (rpyc/core/protocol.py) in its default mode, where  *)
(* any thread serves any message: bind_threads is off.                     *)
(*                                                                         *)
(* Clients call sync_request and close; a server thread runs serve_all;    *)
(* the connection's send thread drains the send queue.  Whoever needs a    *)
(* message becomes the one receiver, the others wait on __recv_event.  A   *)
(* thread that dispatches a request of the peer runs its handler, which    *)
(* may issue nested requests: the call stack of a thread is explicit.      *)
(*                                                                         *)
(* The peer and the network are the environment.  A critical section of    *)
(* a lock is one step; everything between two of them interleaves.         *)
(***************************************************************************)
EXTENDS Integers, Sequences, FiniteSets

CONSTANTS Client,      \* threads that call sync_request and close
          Server,      \* threads that run serve_all
          MaxCall,     \* bound: requests issued by clients and handlers
          PeerRequest, \* the requests the peer may send
          MaxDepth,    \* bound: nesting of handlers
          MayExpire,   \* requests have a timeout
          MayClose,    \* clients that may call close()
          PeerCloses   \* how the peer may end: subset of {"request", "eof"}

ASSUME ConnectionAssumption ==
    /\ IsFiniteSet(Client) /\ IsFiniteSet(Server)
    /\ Client \cap Server = {}
    /\ MaxCall \in Nat /\ MaxDepth \in Nat
    /\ MayExpire \in BOOLEAN
    /\ MayClose \subseteq Client
    /\ PeerCloses \subseteq {"request", "eof"}
    /\ PeerRequest \subseteq Nat

(* marks in peerSent that the peer has called close() *)
Closing == -1

Thread == Client \cup Server

(* bound: each thread issues at most one HANDLE_CLOSE, since __closed is never reset *)
MaxSeq == MaxCall + Cardinality(Thread)
SeqNo  == 0 .. MaxSeq - 1
NoSeq  == -1

(* AsyncResult._obj before the outcome, and when the request could not be sent *)
Unset      == -1
SendFailed == -2

Nobody == "nobody"

(* messages; a request of the peer carries the peer's seq *)
AnySeq  == SeqNo \cup PeerRequest
Message == [type : {"request", "reply"}, kind : {"call", "close"}, seq : AnySeq]
NoMsg   == [type |-> "none", kind |-> "call", seq |-> NoSeq]
EOF     == [type |-> "eof",  kind |-> "call", seq |-> NoSeq]

Call(s)    == [type |-> "request", kind |-> "call",  seq |-> s]
CloseReq(s) == [type |-> "request", kind |-> "close", seq |-> s]
Reply(s)   == [type |-> "reply",   kind |-> "call",  seq |-> s]

(* what a frame of a thread's call stack returns to *)
Frame ==
    [op : {"handle"}, await : SeqNo \cup {NoSeq}, arg : AnySeq]
        \cup [op : {"close", "close_and_raise"}, await : SeqNo \cup {NoSeq}, arg : {NoSeq}]

VARIABLES
    pc,          \* where each thread is
    await,       \* the seq whose AsyncResult the thread is waiting for
    msg,         \* what channel.recv returned to the thread
    stack,       \* handlers and close() calls the thread is inside of
    seqcounter,  \* __seqcounter
    callbacks,   \* the keys of __request_callbacks
    result,      \* AsyncResult._obj of each request: Unset, SendFailed or the seq the reply was for
    expired,     \* the requests whose AsyncResult has expired
    spoiled,     \* history: the requests whose reply could not be unboxed
    receiving,   \* _receiving
    recvWaiters, \* threads waiting on __recv_event
    poller,      \* the thread whose predicate Stream.__predicate holds
    wakeups,     \* bytes on the stream's wakeup socket pair
    closed,      \* __closed
    alive,       \* __local_root and __HANDLERS are still there
    disconnects, \* calls of on_disconnect
    sendQueue,   \* __send_queue
    sendLoop,    \* __send_loop
    worker,      \* __send_worker is not None
    sender,      \* where the send thread is
    sending,     \* the message the send thread has taken
    sendExc,     \* exc of __send_thread
    sendWaiting, \* the send thread waits on __send_event
    handed,      \* history: the requests the send thread has given to the channel
    sockOpen,    \* the stream's socket has not been replaced by ClosedFile
    out, in,     \* bytes on their way to and from the peer
    peerPending, \* requests the peer has received and not answered
    peerSent,    \* requests the peer has sent
    peerEof      \* the peer has closed its side

threadVars == <<pc, await, msg, stack>>
tableVars  == <<seqcounter, callbacks, result, expired, spoiled>>
recvVars   == <<receiving, recvWaiters, poller, wakeups>>
closeVars  == <<closed, alive, disconnects, worker>>
sendVars   == <<sendQueue, sendLoop, sender, sending, sendExc, sendWaiting, handed>>
netVars    == <<sockOpen, out, in, peerPending, peerSent, peerEof>>
vars == <<threadVars, tableVars, recvVars, closeVars, sendVars, netVars>>

Init ==
    /\ pc = [t \in Thread |-> IF t \in Client THEN "idle" ELSE "loop"]
    /\ await = [t \in Thread |-> NoSeq]
    /\ msg = [t \in Thread |-> NoMsg]
    /\ stack = [t \in Thread |-> <<>>]
    /\ seqcounter = 0 /\ callbacks = {} /\ expired = {} /\ spoiled = {}
    /\ result = [s \in SeqNo |-> Unset]
    /\ receiving = FALSE /\ recvWaiters = {} /\ poller = Nobody /\ wakeups = 0
    /\ closed = FALSE /\ alive = TRUE /\ disconnects = 0 /\ worker = TRUE
    /\ sendQueue = <<>> /\ sendLoop = TRUE /\ sender = "take"
    /\ sending = NoMsg /\ sendExc = FALSE /\ sendWaiting = FALSE /\ handed = {}
    /\ sockOpen = TRUE /\ out = <<>> /\ in = <<>>
    /\ peerPending = {} /\ peerSent = {} /\ peerEof = FALSE

-----------------------------------------------------------------------------
Goto(t, l) == pc' = [pc EXCEPT ![t] = l]

(* AsyncResult._predicate of the request t waits for; None for a server *)
Predicate(t) == await[t] # NoSeq /\ (result[await[t]] # Unset \/ await[t] \in expired)

Top(t)  == Head(stack[t])
Push(t, op, arg) ==
    /\ stack' = [stack EXCEPT ![t] = <<[op |-> op, await |-> await[t], arg |-> arg]>> \o @]
    /\ await' = [await EXCEPT ![t] = NoSeq]
Pop(t) ==
    /\ await' = [await EXCEPT ![t] = Top(t).await]
    /\ stack' = [stack EXCEPT ![t] = Tail(@)]

(* mutant: the callback is looked up without being removed *)
ResolveKeeps(s, v) ==
    /\ UNCHANGED callbacks
    /\ result' = IF s \in callbacks /\ s \notin expired
                   THEN [result EXCEPT ![s] = v] ELSE result

(* __seq_request_callback and AsyncResult.__call__: the callback is popped,
   an expired result ignores the outcome *)
Resolve(s, v) ==
    /\ callbacks' = callbacks \ {s}
    /\ result' = IF s \in callbacks /\ s \notin expired
                   THEN [result EXCEPT ![s] = v] ELSE result

(* next(__seqcounter), the entry in __request_callbacks; __send comes next *)
Issue(t) ==
    /\ seqcounter \in SeqNo
    /\ seqcounter' = seqcounter + 1
    /\ callbacks' = callbacks \cup {seqcounter}
    /\ await' = [await EXCEPT ![t] = seqcounter]
    /\ UNCHANGED <<result, expired, spoiled>>

-----------------------------------------------------------------------------
(* sync_request, async_request, __send *)

ClientCalls(t) ==
    /\ t \in Client /\ pc[t] = "idle"
    /\ seqcounter < MaxCall
    /\ Issue(t)
    /\ Goto(t, "send")
    /\ UNCHANGED <<msg, stack, recvVars, closeVars, sendVars, netVars>>

(* a handler that calls back: a nested sync_request of the same thread *)
HandlerCalls(t) ==
    /\ pc[t] = "handler"
    /\ seqcounter < MaxCall /\ Len(stack[t]) <= MaxDepth
    /\ Issue(t)
    /\ Goto(t, "send")
    /\ UNCHANGED <<msg, stack, recvVars, closeVars, sendVars, netVars>>

Enqueue(m) ==
    /\ sendQueue' = Append(sendQueue, m)
    /\ sendWaiting' = FALSE
    /\ UNCHANGED <<sendLoop, sender, sending, sendExc, handed>>

(* what the request of t asks for: HANDLE_CLOSE inside of close() *)
RequestOf(t) == IF stack[t] # <<>> /\ Top(t).op # "handle"
                  THEN CloseReq(await[t]) ELSE Call(await[t])

(* mutant: the send thread is not notified *)
SendRequestSilently(t) ==
    /\ pc[t] = "send" /\ sendLoop
    /\ sendQueue' = Append(sendQueue, RequestOf(t))
    /\ Goto(t, "loop")
    /\ UNCHANGED <<sendLoop, sender, sending, sendExc, sendWaiting, handed,
                   await, msg, stack, tableVars, recvVars, closeVars, netVars>>

SendRequest(t) ==
    /\ pc[t] = "send"
    /\ IF sendLoop
         THEN /\ Enqueue(RequestOf(t))
              /\ Goto(t, "loop")
              /\ UNCHANGED tableVars
         ELSE /\ callbacks' = callbacks \ {await[t]}
              /\ Goto(t, "raise_eof")
              /\ UNCHANGED <<sendVars, seqcounter, result, expired, spoiled>>
    /\ UNCHANGED <<await, msg, stack, recvVars, closeVars, netVars>>

(* __dispatch_request: the handler is done, its result or exception is sent;
   the EOFError of __send leaves serve() *)
SendReply(t) ==
    /\ pc[t] = "reply"
    /\ Pop(t)
    /\ IF sendLoop
         THEN Enqueue(Reply(Top(t).arg)) /\ Goto(t, "loop")
         ELSE UNCHANGED sendVars /\ Goto(t, "raise_eof")
    /\ UNCHANGED <<msg, tableVars, recvVars, closeVars, netVars>>

(* any __handle_* method that is done: what it evaluates is data, and that it
   may call back is HandlerCalls *)
HandlerReturns(t) ==
    /\ pc[t] = "handler"
    /\ Goto(t, "reply")
    /\ UNCHANGED <<await, msg, stack, tableVars, recvVars, closeVars, sendVars, netVars>>

-----------------------------------------------------------------------------
(* AsyncResult.wait and the loop of serve_all *)

WaitDone(t) ==
    /\ pc[t] = "loop" /\ Predicate(t)
    /\ Goto(t, CASE result[await[t]] = Unset -> "raise_timeout"
                 [] result[await[t]] = SendFailed -> "raise_eof"
                 [] OTHER -> IF stack[t] = <<>> THEN "idle"
                             ELSE IF Top(t).op = "handle" THEN "handler" ELSE "cleanup")
    /\ await' = [await EXCEPT ![t] = NoSeq]
    /\ UNCHANGED <<msg, stack, tableVars, recvVars, closeVars, sendVars, netVars>>

(* serve_all: while not self.closed; its finally calls close() *)
ServeAllEnds(t) ==
    /\ t \in Server /\ pc[t] = "loop" /\ await[t] = NoSeq /\ closed
    /\ Push(t, "close", NoSeq)
    /\ Goto(t, "closetest")
    /\ UNCHANGED <<msg, tableVars, recvVars, closeVars, sendVars, netVars>>

-----------------------------------------------------------------------------
(* serve: become the receiver, or wait on __recv_event until nobody is *)

BecomeReceiver(t) ==
    /\ receiving' = TRUE
    /\ Goto(t, "poll")
    /\ recvWaiters' = recvWaiters \ {t}

WaitForReceiver(t) ==
    /\ recvWaiters' = recvWaiters \cup {t}
    /\ Goto(t, "blocked")
    /\ UNCHANGED receiving

(* mutant: _receiving is not looked at *)
ServeEnterUnchecked(t) ==
    /\ pc[t] = "loop" /\ ~Predicate(t)
    /\ BecomeReceiver(t)
    /\ UNCHANGED <<poller, wakeups, await, msg, stack, tableVars, closeVars, sendVars, netVars>>

ServeEnter(t) ==
    /\ pc[t] = "loop" /\ ~Predicate(t)
    /\ t \in Server /\ await[t] = NoSeq => ~closed
    /\ IF receiving THEN WaitForReceiver(t) ELSE BecomeReceiver(t)
    /\ UNCHANGED <<poller, wakeups, await, msg, stack, tableVars, closeVars, sendVars, netVars>>

(* wait_for: notified or timed out, can_receive_or_predicate is evaluated again *)
ServeWoken(t) ==
    /\ pc[t] = "blocked"
    /\ t \notin recvWaiters \/ await[t] \in expired
    /\ IF Predicate(t)
         THEN /\ Goto(t, "loop")
              /\ recvWaiters' = recvWaiters \ {t}
              /\ UNCHANGED receiving
         ELSE IF receiving THEN WaitForReceiver(t) ELSE BecomeReceiver(t)
    /\ UNCHANGED <<poller, wakeups, await, msg, stack, tableVars, closeVars, sendVars, netVars>>

-----------------------------------------------------------------------------
(* Stream.poll and channel.recv of the receiver *)

Received(t, m) ==
    /\ msg' = [msg EXCEPT ![t] = m]
    /\ Goto(t, "release")

PollEnter(t) ==
    /\ pc[t] = "poll"
    /\ CASE Predicate(t) -> Received(t, NoMsg) /\ UNCHANGED poller
         [] ~Predicate(t) /\ ~sockOpen -> Received(t, EOF) /\ UNCHANGED poller
         [] OTHER -> poller' = t /\ Goto(t, "polling") /\ UNCHANGED msg
    /\ UNCHANGED <<receiving, recvWaiters, wakeups, await, stack, tableVars,
                   closeVars, sendVars, netVars>>

(* a frame is there; on a stream closed meanwhile the read raises EOFError *)
PollData(t) ==
    /\ pc[t] = "polling" /\ in # <<>>
    /\ poller' = Nobody
    /\ IF sockOpen
         THEN Received(t, Head(in)) /\ in' = Tail(in)
         ELSE Received(t, EOF) /\ UNCHANGED in
    /\ UNCHANGED <<receiving, recvWaiters, wakeups, await, stack, tableVars, closeVars,
                   sendVars, sockOpen, out, peerPending, peerSent, peerEof>>

(* the peer has closed: the read closes the stream and raises EOFError *)
PollEOF(t) ==
    /\ pc[t] = "polling" /\ in = <<>> /\ peerEof
    /\ poller' = Nobody
    /\ Received(t, EOF)
    /\ sockOpen' = FALSE
    /\ UNCHANGED <<receiving, recvWaiters, wakeups, await, stack, tableVars, closeVars,
                   sendVars, out, in, peerPending, peerSent, peerEof>>

(* mutant: a byte is read whatever woke the poll *)
PollWokenReads(t) ==
    /\ pc[t] = "polling"
    /\ wakeups > 0 \/ await[t] \in expired
    /\ wakeups' = wakeups - 1
    /\ poller' = Nobody
    /\ Received(t, NoMsg)
    /\ UNCHANGED <<receiving, recvWaiters, await, stack, tableVars, closeVars, sendVars, netVars>>

(* a byte 'N' on the socket pair, or the deadline *)
PollWoken(t) ==
    /\ pc[t] = "polling"
    /\ \/ wakeups > 0 /\ wakeups' = wakeups - 1
       \/ await[t] \in expired /\ UNCHANGED wakeups
    /\ poller' = Nobody
    /\ Received(t, NoMsg)
    /\ UNCHANGED <<receiving, recvWaiters, await, stack, tableVars, closeVars, sendVars, netVars>>

(* mutant: serve returns when its predicate has come true, with a message in hand *)
ReleaseOnPredicate(t) ==
    /\ pc[t] = "release"
    /\ receiving' = FALSE /\ recvWaiters' = {}
    /\ Goto(t, CASE msg[t] = NoMsg \/ Predicate(t) -> "loop"
                 [] msg[t] = EOF -> "eof" [] OTHER -> "dispatch")
    /\ msg' = [msg EXCEPT ![t] = IF Predicate(t) THEN NoMsg ELSE @]
    /\ UNCHANGED <<poller, wakeups, await, stack, tableVars, closeVars, sendVars, netVars>>

(* finally: _receiving = False, notify_all *)
Release(t) ==
    /\ pc[t] = "release"
    /\ receiving' = FALSE /\ recvWaiters' = {}
    /\ Goto(t, CASE msg[t] = NoMsg -> "loop" [] msg[t] = EOF -> "eof" [] OTHER -> "dispatch")
    /\ UNCHANGED <<poller, wakeups, await, msg, stack, tableVars, closeVars, sendVars, netVars>>

-----------------------------------------------------------------------------
(* __dispatch: a reply resolves its request and everyone is notified; a
   request runs its handler.  The requests a netref's factory makes while a reply
   is unboxed are those of Netref *)

(* mutant: the reply is given to the request this thread is waiting for *)
DispatchReplyToSelf(t) ==
    /\ pc[t] = "dispatch" /\ msg[t].type = "reply"
    /\ Resolve(IF await[t] # NoSeq THEN await[t] ELSE msg[t].seq, msg[t].seq)
    /\ msg' = [msg EXCEPT ![t] = NoMsg]
    /\ Goto(t, "notify")
    /\ UNCHANGED <<await, stack, seqcounter, expired, spoiled, recvVars, closeVars, sendVars, netVars>>

DispatchReply(t) ==
    /\ pc[t] = "dispatch" /\ msg[t].type = "reply"
    /\ Resolve(msg[t].seq, msg[t].seq)
    /\ msg' = [msg EXCEPT ![t] = NoMsg]
    /\ Goto(t, "notify")
    /\ UNCHANGED <<await, stack, seqcounter, expired, spoiled, recvVars, closeVars, sendVars, netVars>>

(* __unbox or vinegar.load raises before the callback is popped: the exception
   leaves serve() on the thread that received the reply, whose it is or not, and
   nobody is notified *)
UnboxFails(t) ==
    /\ pc[t] = "dispatch" /\ msg[t].type = "reply"
    /\ spoiled' = spoiled \cup {msg[t].seq}
    /\ msg' = [msg EXCEPT ![t] = NoMsg]
    /\ Goto(t, "raise_attr")
    /\ UNCHANGED <<await, stack, seqcounter, callbacks, result, expired, recvVars,
                   closeVars, sendVars, netVars>>

DispatchRequest(t) ==
    /\ pc[t] = "dispatch" /\ msg[t].type = "request"
    /\ Push(t, "handle", msg[t].seq)
    /\ msg' = [msg EXCEPT ![t] = NoMsg]
    /\ Goto(t, IF msg[t].kind = "close" THEN "cleanup" ELSE "handler")
    /\ UNCHANGED <<tableVars, recvVars, closeVars, sendVars, netVars>>

(* Stream.notify: a byte for the poller if its predicate has become true *)
WakePoller == wakeups' = wakeups + (IF poller # Nobody /\ Predicate(poller) THEN 1 ELSE 0)

(* mutant: the poller is not woken *)
NotifyWaitersOnly(t) ==
    /\ pc[t] = "notify"
    /\ Goto(t, "notify_all")
    /\ UNCHANGED <<recvVars, await, msg, stack, tableVars, closeVars, sendVars, netVars>>

NotifyStream(t) ==
    /\ pc[t] = "notify"
    /\ WakePoller
    /\ Goto(t, "notify_all")
    /\ UNCHANGED <<receiving, recvWaiters, poller, await, msg, stack, tableVars, closeVars,
                   sendVars, netVars>>

NotifyAll(t) ==
    /\ pc[t] = "notify_all"
    /\ recvWaiters' = {}
    /\ Goto(t, "loop")
    /\ UNCHANGED <<receiving, poller, wakeups, await, msg, stack, tableVars, closeVars,
                   sendVars, netVars>>

-----------------------------------------------------------------------------
(* exceptions leaving sync_request, a handler, serve or close *)

Raise(t) ==
    /\ pc[t] \in {"raise_eof", "raise_timeout", "raise_attr"}
    /\ IF stack[t] = <<>>
         THEN IF t \in Client
                THEN /\ Goto(t, "idle")
                     /\ await' = [await EXCEPT ![t] = NoSeq]
                     /\ UNCHANGED stack
                ELSE Push(t, "close", NoSeq) /\ Goto(t, "closetest")
         ELSE /\ Goto(t, IF Top(t).op = "handle" THEN "reply" ELSE "cleanup")
              /\ await' = [await EXCEPT ![t] = NoSeq]
              /\ UNCHANGED stack
    /\ UNCHANGED <<msg, tableVars, recvVars, closeVars, sendVars, netVars>>

-----------------------------------------------------------------------------
(* close, __handle_close, __cleanup, stop_sending *)

ClientCloses(t) ==
    /\ t \in MayClose /\ pc[t] = "idle"
    /\ ~closed
    /\ Push(t, "close", NoSeq)
    /\ Goto(t, "closetest")
    /\ UNCHANGED <<msg, tableVars, recvVars, closeVars, sendVars, netVars>>

(* serve: except EOFError: self.close(), raise *)
CloseOnEOF(t) ==
    /\ pc[t] = "eof"
    /\ Push(t, "close_and_raise", NoSeq)
    /\ msg' = [msg EXCEPT ![t] = NoMsg]
    /\ Goto(t, "closetest")
    /\ UNCHANGED <<tableVars, recvVars, closeVars, sendVars, netVars>>

(* the end of close(): the EOFError of serve goes on, or the caller returns *)
CloseEnds(t) ==
    /\ Pop(t)
    /\ Goto(t, CASE Top(t).op = "close_and_raise" -> "raise_eof"
                 [] Top(t).op = "close" /\ t \in Client -> "idle"
                 [] OTHER -> "end")

CloseTest(t) ==
    /\ pc[t] = "closetest"
    /\ IF closed THEN CloseEnds(t) ELSE Goto(t, "closeset") /\ UNCHANGED <<await, stack>>
    /\ UNCHANGED <<msg, tableVars, recvVars, closeVars, sendVars, netVars>>

(* __closed = True, sync_request(HANDLE_CLOSE) *)
CloseSet(t) ==
    /\ pc[t] = "closeset"
    /\ closed' = TRUE
    /\ Issue(t)
    /\ Goto(t, "send")
    /\ UNCHANGED <<msg, stack, alive, disconnects, worker, recvVars, sendVars, netVars>>

(* __cleanup: __closed = True, channel.close() replaces the socket and waits
   until the peer has closed, reading away what still arrives *)
CleanupChannel(t) ==
    /\ pc[t] = "cleanup"
    /\ closed' = TRUE
    /\ sockOpen' = FALSE
    /\ Goto(t, IF sockOpen THEN "drain" ELSE "disconnect")
    /\ UNCHANGED <<await, msg, stack, alive, disconnects, worker, tableVars, recvVars,
                   sendVars, out, in, peerPending, peerSent, peerEof>>

CleanupDrain(t) ==
    /\ pc[t] = "drain" /\ peerEof
    /\ in' = <<>>
    /\ Goto(t, "disconnect")
    /\ UNCHANGED <<await, msg, stack, closeVars, tableVars, recvVars, sendVars,
                   sockOpen, out, peerPending, peerSent, peerEof>>

(* an exception of __cleanup: caught by the dispatch of HANDLE_CLOSE, or
   raised by the finally of close() to its caller *)
CleanupFails(t) ==
    IF Top(t).op = "handle"
      THEN Goto(t, "reply") /\ UNCHANGED <<await, stack>>
      ELSE Goto(t, "raise_attr") /\ Pop(t)

(* self.__local_root.on_disconnect(self): AttributeError when it is None *)
CleanupRoot(t) ==
    /\ pc[t] = "disconnect"
    /\ IF alive
         THEN /\ disconnects' = disconnects + 1
              /\ Goto(t, "stop")
              /\ UNCHANGED <<await, stack>>
         ELSE CleanupFails(t) /\ UNCHANGED disconnects
    /\ UNCHANGED <<msg, closed, alive, worker, tableVars, recvVars, sendVars, netVars>>

(* mutant: the send thread is not joined *)
StopSendingNoJoin(t) ==
    /\ pc[t] = "stop"
    /\ worker' = FALSE
    /\ sendLoop' = FALSE /\ sendWaiting' = FALSE
    /\ Goto(t, "clear")
    /\ UNCHANGED <<await, msg, stack, closed, alive, disconnects, sendQueue, sender,
                   sending, sendExc, handed, tableVars, recvVars, netVars>>

StopSending(t) ==
    /\ pc[t] = "stop"
    /\ worker' = FALSE
    /\ sendLoop' = FALSE /\ sendWaiting' = FALSE
    /\ Goto(t, IF worker THEN "join" ELSE "clear")
    /\ UNCHANGED <<await, msg, stack, closed, alive, disconnects, sendQueue, sender,
                   sending, sendExc, handed, tableVars, recvVars, netVars>>

JoinSender(t) ==
    /\ pc[t] = "join" /\ sender = "end"
    /\ Goto(t, "clear")
    /\ UNCHANGED <<await, msg, stack, closeVars, tableVars, recvVars, sendVars, netVars>>

(* the tables are emptied, __local_root = None, del __HANDLERS *)
CleanupClear(t) ==
    /\ pc[t] = "clear"
    /\ callbacks' = {}
    /\ alive' = FALSE
    /\ CASE ~alive -> CleanupFails(t)
         [] alive /\ Top(t).op = "handle" -> Goto(t, "reply") /\ UNCHANGED <<await, stack>>
         [] OTHER -> CloseEnds(t)
    /\ UNCHANGED <<msg, seqcounter, result, expired, spoiled, closed, disconnects, worker,
                   recvVars, sendVars, netVars>>

-----------------------------------------------------------------------------
(* __send_thread: the queue is emptied even after the loop has been stopped;
   after a failed send every message left is reported to its callback *)

SenderTake ==
    /\ sender = "take"
    /\ CASE sendQueue # <<>> ->
              /\ sending' = Head(sendQueue)
              /\ sendQueue' = Tail(sendQueue)
              /\ sender' = IF sendExc THEN "fail" ELSE "send"
              /\ UNCHANGED <<sendLoop, sendWaiting>>
         [] sendQueue = <<>> /\ (~sendLoop \/ sendExc) ->
              /\ sender' = "end"
              /\ sendLoop' = FALSE
              /\ UNCHANGED <<sendQueue, sending, sendWaiting>>
         [] OTHER ->
              /\ sender' = "wait"
              /\ sendWaiting' = TRUE
              /\ UNCHANGED <<sendQueue, sending, sendLoop>>
    /\ UNCHANGED <<sendExc, handed, threadVars, tableVars, recvVars, closeVars, netVars>>

SenderWoken ==
    /\ sender = "wait" /\ ~sendWaiting
    /\ sender' = "take"
    /\ UNCHANGED <<sendQueue, sendLoop, sending, sendExc, sendWaiting, handed,
                   threadVars, tableVars, recvVars, closeVars, netVars>>

SenderSends ==
    /\ sender = "send" /\ sockOpen
    /\ sender' = "take" /\ sending' = NoMsg
    /\ out' = Append(out, sending)
    /\ handed' = handed \cup (IF sending.type = "request" THEN {sending.seq} ELSE {})
    /\ UNCHANGED <<sendQueue, sendLoop, sendExc, sendWaiting, threadVars, tableVars,
                   recvVars, closeVars, sockOpen, in, peerPending, peerSent, peerEof>>

(* the stream is closed, or the peer is gone and write() closes the stream *)
SenderFails ==
    /\ sender = "send" /\ (~sockOpen \/ peerEof)
    /\ sender' = "fail" /\ sendExc' = TRUE
    /\ sockOpen' = FALSE
    /\ UNCHANGED <<sendQueue, sendLoop, sending, sendWaiting, handed, threadVars, tableVars,
                   recvVars, closeVars, out, in, peerPending, peerSent, peerEof>>

(* mutant: only the failing message is reported, the rest of the queue is dropped *)
SenderReportsOne ==
    /\ sender = "fail"
    /\ Resolve(sending.seq, SendFailed)
    /\ sending' = NoMsg /\ sendQueue' = <<>>
    /\ sender' = "notify"
    /\ UNCHANGED <<seqcounter, expired, spoiled, sendLoop, sendExc, sendWaiting, handed,
                   threadVars, recvVars, closeVars, netVars>>

(* __seq_request_callback(exc, seq, True, exc), whatever kind of message seq is of *)
SenderReports ==
    /\ sender = "fail"
    /\ Resolve(sending.seq, SendFailed)
    /\ sending' = NoMsg
    /\ sender' = "notify"
    /\ UNCHANGED <<seqcounter, expired, spoiled, sendQueue, sendLoop, sendExc, sendWaiting, handed,
                   threadVars, recvVars, closeVars, netVars>>

SenderNotifies ==
    /\ \/ /\ sender = "notify" /\ sender' = "notify_all"
          /\ WakePoller /\ UNCHANGED recvWaiters
       \/ /\ sender = "notify_all" /\ sender' = "take"
          /\ recvWaiters' = {} /\ UNCHANGED wakeups
    /\ UNCHANGED <<receiving, poller, sendQueue, sendLoop, sending, sendExc, sendWaiting, handed,
                   threadVars, tableVars, closeVars, netVars>>

-----------------------------------------------------------------------------
(* the environment: deadlines, the network and the peer *)

Expire(s) ==
    /\ MayExpire /\ s < seqcounter /\ s \notin expired
    /\ expired' = expired \cup {s}
    /\ UNCHANGED <<seqcounter, callbacks, result, spoiled, threadVars, recvVars, closeVars,
                   sendVars, netVars>>

PeerStep(o, i, pending, sent, eof) ==
    /\ ~peerEof
    /\ out' = o /\ in' = i /\ peerPending' = pending /\ peerSent' = sent /\ peerEof' = eof
    /\ UNCHANGED <<sockOpen, threadVars, tableVars, recvVars, closeVars, sendVars>>

(* HANDLE_CLOSE makes the peer close its channel, it is never answered *)
PeerReceives ==
    /\ out # <<>>
    /\ PeerStep(Tail(out), in,
                IF Head(out).type = "request" THEN peerPending \cup {Head(out).seq}
                                              ELSE peerPending,
                peerSent, Head(out).kind = "close")

PeerAnswers(s) ==
    /\ s \in peerPending
    /\ PeerStep(out, Append(in, Reply(s)), peerPending \ {s}, peerSent, FALSE)

PeerAsks(r) ==
    /\ r \notin peerSent /\ Closing \notin peerSent
    /\ PeerStep(out, Append(in, Call(r)), peerPending, peerSent \cup {r}, FALSE)

(* the peer calls close(): it still serves until it sees that we have closed *)
PeerAsksClose(r) ==
    /\ "request" \in PeerCloses
    /\ r \notin peerSent /\ Closing \notin peerSent
    /\ PeerStep(out, Append(in, CloseReq(r)), peerPending,
                peerSent \cup {r, Closing}, FALSE)

(* the peer closes its socket: because we did, or on its own *)
PeerShuts ==
    /\ ~sockOpen \/ "eof" \in PeerCloses
    /\ PeerStep(out, in, peerPending, peerSent, TRUE)

-----------------------------------------------------------------------------
ThreadStep(t) ==
    \/ SendRequest(t) \/ SendReply(t) \/ HandlerReturns(t)
    \/ WaitDone(t) \/ ServeAllEnds(t)
    \/ ServeEnter(t) \/ ServeWoken(t)
    \/ PollEnter(t) \/ PollData(t) \/ PollEOF(t) \/ PollWoken(t) \/ Release(t)
    \/ DispatchReply(t) \/ DispatchRequest(t) \/ NotifyStream(t) \/ NotifyAll(t)
    \/ Raise(t) \/ CloseOnEOF(t) \/ CloseTest(t) \/ CloseSet(t)
    \/ CleanupChannel(t) \/ CleanupDrain(t) \/ CleanupRoot(t)
    \/ StopSending(t) \/ JoinSender(t) \/ CleanupClear(t)

SenderStep ==
    \/ SenderTake \/ SenderWoken \/ SenderSends \/ SenderFails
    \/ SenderReports \/ SenderNotifies

Next ==
    \/ \E t \in Thread : \/ ThreadStep(t)
                         \/ ClientCalls(t) \/ HandlerCalls(t) \/ ClientCloses(t)
                         \/ UnboxFails(t)
    \/ SenderStep
    \/ \E s \in SeqNo : Expire(s) \/ PeerAnswers(s)
    \/ PeerReceives \/ PeerShuts
    \/ \E r \in PeerRequest : PeerAsks(r) \/ PeerAsksClose(r)

Spec == Init /\ [][Next]_vars

-----------------------------------------------------------------------------
Label == {"idle", "loop", "send", "handler", "reply", "blocked", "poll", "polling",
          "release", "dispatch", "notify", "notify_all", "eof", "raise_eof",
          "raise_timeout", "raise_attr", "closetest", "closeset", "cleanup", "drain",
          "disconnect", "stop", "join", "clear", "end"}

ThreadTypeOK ==
    /\ pc \in [Thread -> Label]
    /\ await \in [Thread -> SeqNo \cup {NoSeq}]
    /\ msg \in [Thread -> Message \cup {NoMsg, EOF}]
    /\ stack \in [Thread -> Seq(Frame)]

TableTypeOK ==
    /\ seqcounter \in 0 .. MaxSeq
    /\ callbacks \subseteq SeqNo /\ expired \subseteq SeqNo
    /\ result \in [SeqNo -> SeqNo \cup {Unset, SendFailed}]
    /\ spoiled \subseteq AnySeq

RecvTypeOK ==
    /\ receiving \in BOOLEAN /\ recvWaiters \subseteq Thread
    /\ poller \in Thread \cup {Nobody} /\ wakeups \in Nat

CloseTypeOK ==
    closed \in BOOLEAN /\ alive \in BOOLEAN /\ disconnects \in Nat /\ worker \in BOOLEAN

SendTypeOK ==
    /\ sendQueue \in Seq(Message) /\ sendLoop \in BOOLEAN
    /\ sender \in {"take", "wait", "send", "fail", "notify", "notify_all", "end"}
    /\ sending \in Message \cup {NoMsg} /\ sendExc \in BOOLEAN /\ sendWaiting \in BOOLEAN
    /\ handed \subseteq AnySeq

NetTypeOK ==
    /\ sockOpen \in BOOLEAN /\ out \in Seq(Message) /\ in \in Seq(Message)
    /\ peerPending \subseteq AnySeq /\ peerSent \subseteq PeerRequest \cup {Closing}
    /\ peerEof \in BOOLEAN

(* Types of the threads, the connection's attributes and the network. *)
TypeOK ==
    /\ ThreadTypeOK /\ TableTypeOK /\ RecvTypeOK
    /\ CloseTypeOK /\ SendTypeOK /\ NetTypeOK

Receivers == {t \in Thread : pc[t] \in {"poll", "polling", "release"}}

(* Only one thread at a time is inside channel.poll and channel.recv, so frames
   are never torn apart, and _receiving says exactly whether there is one. *)
SingleReceiver ==
    /\ \A t, u \in Receivers : t = u
    /\ receiving = (Receivers # {})

(* A request gets its own reply, or the failure of a send, whichever thread
   dispatches which message: never the reply of another request, never one it
   was not sent for, and then nothing in flight can answer it again. *)
OwnReply ==
    \A s \in SeqNo :
        /\ result[s] \in {Unset, SendFailed, s}
        /\ result[s] = s => /\ s \in handed
                            /\ s \notin callbacks \cup peerPending
                            /\ Reply(s) \notin {in[i] : i \in DOMAIN in}

(* A result that has been set is never set again, by a late or second outcome. *)
ResultIsFinal ==
    [][\A s \in SeqNo : result[s] # Unset => result'[s] = result[s]]_vars

(* what has become of a request, as its AsyncResult and __request_callbacks tell *)
Fate(s) ==
    CASE result[s] = s          -> "answered"
      [] result[s] = SendFailed -> "failed"
      [] result[s] = Unset      -> IF s \in callbacks THEN "open"
                                   ELSE IF s < seqcounter THEN "dropped" ELSE "unused"

Table == INSTANCE RequestTable WITH
    Request   <- SeqNo,
    status    <- [s \in SeqNo |-> Fate(s)],
    late      <- expired,
    sent      <- handed,
    connected <- sockOpen

(* Whatever the threads, the send thread and the peer do, a request ends at most
   once and for a reason: answered only after it was given to the peer, failed only
   on a stream that is gone, forgotten only after its deadline or with the
   connection; and what has ended stays as it is, also when a late reply, a second
   one, or the failed send of a reply of the same number comes. *)
ImplementsTable == Table!Spec

Requests(q) == {q[i].seq : i \in {j \in DOMAIN q : q[j].type = "request"}}
Answers(q)  == {q[i].seq : i \in {j \in DOMAIN q : q[j].type = "reply"}}
BeingSent == Requests(sendQueue) \cup (IF sending = NoMsg THEN {} ELSE Requests(<<sending>>))
             \cup {await[t] : t \in {u \in Thread : pc[u] = "send"}}

(* No request is stranded by the send path: one whose callback is still
   registered was given to the channel, or is on its way to the send thread,
   also when a send fails or the connection is being closed. *)
NoStrandedSend == callbacks \subseteq handed \cup BeingSent

(* While the socket is open nothing in flight is lost: a request whose callback
   is registered is on its way, with the peer, or its reply is in some thread's
   hands, unless that thread could not unbox it. *)
NoLostRequest ==
    sockOpen =>
        callbacks \subseteq BeingSent \cup Requests(out) \cup peerPending \cup Answers(in)
            \cup {msg[t].seq : t \in {u \in Thread : msg[u] \notin {NoMsg, EOF}}}
            \cup (IF peerEof THEN handed ELSE {}) \cup spoiled

(* "closes the connection, releasing all held resources": once the roots are gone
   the socket is closed, the send thread has ended and no callback is left but
   those of callers about to be refused by __send.  Two threads may both clean
   up, when each of them finds __closed FALSE or the peer asks for the end as
   well; this is about the connections that only one of them cleans up. *)
ClosedReleases ==
    ~alive /\ disconnects = 1 =>
        /\ ~sockOpen
        /\ sender = "end"
        /\ callbacks \subseteq {await[t] : t \in {u \in Thread : pc[u] = "send"}}

(* No thread is left waiting: every sync_request and close returns or raises,
   whichever thread received, dispatched or failed the message it waits for, so
   that in the end no call is under way; and serve_all has ended on every thread
   if the connection has been closed.  The callback of a reply that could not be
   unboxed stays: as long as the connection is there its caller, and he alone,
   waits on. *)
ThreadsReturn ==
    <>[](/\ \A t \in Client : pc[t] = "idle" \/ (~closed /\ await[t] \in spoiled)
         /\ closed => \A t \in Server : pc[t] = "end")
=============================================================================
