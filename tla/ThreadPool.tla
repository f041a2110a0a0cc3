----------------------------- MODULE ThreadPool -----------------------------
(***************************************************************************)
(* ThreadPoolServer (rpyc/utils/server.py): connections are handed around  *)
(* by the number of their descriptor.  The thread of start() accepts them  *)
(* and registers the number as inactive, the polling thread moves numbers  *)
(* that became readable to the queue, a worker takes a number, serves up   *)
(* to request_batch_size requests and gives it back.                       *)
(*                                                                         *)
(* The kernel may hand out a number again as soon as its socket is closed, *)
(* and a socket is closed inside of Connection.poll, when it meets the end *)
(* of the stream, before the worker has taken the number out of fd_to_conn.*)
(*                                                                         *)
(* close() is called from outside, by start() when its loop has ended, by  *)
(* a service or on_disconnect on a worker and by on_disconnect on the      *)
(* polling thread; the last two cannot join themselves.                    *)
(***************************************************************************)
EXTENDS Integers, Sequences, FiniteSets

CONSTANTS Client,    \* clients, each with one connection
          Fd,        \* descriptor numbers of the process
          NbThreads, \* self.nbthreads
          BatchSize, \* request_batch_size
          MaxRequest,\* bound: requests of each client
          EarlyReuse,\* the kernel hands out a number that the pool still knows
          MayClose   \* bound: the sets of threads whose code calls close(), each once

NoConn == "no connection"
NoFd   == "no descriptor"
Stop   == "stop"      \* the None that close() puts into the queue

Worker        == 1 .. NbThreads  \* self.workers, in their order
User          == 0               \* a thread outside of the pool
PollingThread == NbThreads + 1   \* self.polling_thread
StartThread   == NbThreads + 2   \* the thread of start()
Thread        == 0 .. NbThreads + 2

ASSUME ThreadPoolAssumption ==
    /\ BatchSize \in Nat \ {0} /\ MaxRequest \in [Client -> Nat \ {0}]
    /\ NbThreads \in Nat /\ EarlyReuse \in BOOLEAN /\ MayClose \subseteq SUBSET (Thread \ {StartThread})
    /\ NoConn \notin Client /\ NoFd \notin Fd /\ Stop \notin Fd

VARIABLES
    active,   \* self.active
    fd,       \* the descriptor of each client's connection while it is open
    fdToConn, \* self.fd_to_conn
    inactive, \* the numbers registered with poll_object
    queue,    \* self._active_connection_queue
    main,     \* where the accepting thread is
    inHand,   \* the connection it has built
    poller,   \* where the polling thread is
    events,   \* what poll() returned and has not been handled
    pc,       \* where each worker is
    held,     \* the number a worker serves
    batch,    \* requests it has served in this turn
    polling,  \* self.polling_thread is not None
    closing,  \* where each thread is in close()
    pending,  \* requests a client has sent that have not been served
    sent,     \* requests a client has sent
    gone,     \* clients that have closed their end
    killed    \* history: connections closed by this side first

tableVars  == <<fdToConn, inactive, queue>>
workerVars == <<pc, held, batch>>
pollVars   == <<poller, events>>
mainVars   == <<main, inHand>>
clientVars == <<pending, sent, gone>>
closeVars  == <<active, polling, closing>>
vars == <<closeVars, fd, tableVars, workerVars, pollVars, mainVars, clientVars, killed>>

Init ==
    /\ active = TRUE /\ polling = TRUE /\ closing = [k \in Thread |-> "no"]
    /\ fd = [c \in Client |-> NoFd]
    /\ fdToConn = [f \in Fd |-> NoConn] /\ inactive = {} /\ queue = <<>>
    /\ main = "accept" /\ inHand = NoConn
    /\ poller = "poll" /\ events = {}
    /\ pc = [w \in Worker |-> "loop"] /\ held = [w \in Worker |-> NoFd]
    /\ batch = [w \in Worker |-> 0]
    /\ pending = [c \in Client |-> 0] /\ sent = [c \in Client |-> 0] /\ gone = {}
    /\ killed = {}

-----------------------------------------------------------------------------
(* Connection.close of c, if it has not been closed before: its number is free *)
CloseConn(c) == fd' = IF c = NoConn THEN fd ELSE [fd EXCEPT ![c] = NoFd]

(* _drop_connection: whatever connection has the number now *)
DropConnection(f) ==
    /\ fdToConn' = [fdToConn EXCEPT ![f] = NoConn]
    /\ CloseConn(fdToConn[f])
    /\ killed' = killed \cup ({c \in {fdToConn[f]} : c # NoConn /\ fd[c] # NoFd} \ gone)

(* where a number is: in the queue, with a worker or among the inactive ones *)
Queued(f)  == {i \in DOMAIN queue : queue[i] = f}
Holders(f) == {w \in Worker : held[w] = f}
InPlace(f) == f \in inactive \/ Queued(f) # {} \/ Holders(f) # {}

(* close(), up to the place where it takes the polling thread *)
BeginClose(k) ==
    /\ closing[k] = "no"
    /\ k # StartThread =>
         \E S \in MayClose : {j \in Thread : j = k \/ closing[j] # "no"} \subseteq S \cup {StartThread}
    /\ active' = FALSE /\ closing' = [closing EXCEPT ![k] = "take"]
    /\ UNCHANGED polling

-----------------------------------------------------------------------------
(* the thread of start(): _accept_method *)

(* a closed number is handed out again, unless EarlyReuse once the pool has let go of it *)
Free == {f \in Fd : /\ \A c \in Client : fd[c] # f
                    /\ EarlyReuse \/ ~(InPlace(f) \/ fdToConn[f] # NoConn)}

Accept(c) ==
    /\ main = "accept" /\ active
    /\ fd[c] = NoFd /\ sent[c] = 0 /\ c \notin gone
    /\ \E f \in Free : fd' = [fd EXCEPT ![c] = f]
    /\ sent' = [sent EXCEPT ![c] = 1] /\ pending' = [pending EXCEPT ![c] = 1]
    /\ inHand' = c
    /\ main' = "record"
    /\ UNCHANGED <<closeVars, tableVars, workerVars, pollVars, gone, killed>>

(* getpeername() raises for a client that has already gone: except Exception *)
RefuseConn ==
    /\ main = "record" /\ inHand \in gone
    /\ CloseConn(inHand)
    /\ main' = "accept" /\ inHand' = NoConn
    /\ UNCHANGED <<closeVars, tableVars, workerVars, pollVars, clientVars, killed>>

RecordConn ==
    /\ main = "record"
    /\ fdToConn' = [fdToConn EXCEPT ![fd[inHand]] = inHand]
    /\ main' = "register"
    /\ UNCHANGED <<closeVars, fd, inactive, queue, workerVars, pollVars, inHand,
                   clientVars, killed>>

RegisterConn ==
    /\ main = "register"
    /\ inactive' = inactive \cup {fd[inHand]}
    /\ main' = "accept" /\ inHand' = NoConn
    /\ UNCHANGED <<closeVars, fd, fdToConn, queue, workerVars, pollVars,
                   clientVars, killed>>

-----------------------------------------------------------------------------
(* the polling thread *)

OpenOn(f) == {c \in Client : fd[c] = f}

(* "h": the client has gone, or the number is not open; "r": there is something to read *)
Event(f) ==
    (IF OpenOn(f) = {} \/ OpenOn(f) \cap gone # {} THEN {"h"} ELSE {})
        \cup (IF \E c \in OpenOn(f) : pending[c] > 0 \/ c \in gone THEN {"r"} ELSE {})

Poll ==
    /\ poller = "poll"
    /\ IF active
         THEN \E evts \in [inactive -> {"h", "r", "none"}] :
                /\ \A f \in inactive : IF Event(f) = {} THEN evts[f] = "none" ELSE evts[f] \in Event(f)
                /\ \E f \in inactive : evts[f] # "none"
                /\ events' = {<<f, evts[f]>> : f \in {g \in inactive : evts[g] # "none"}}
                /\ poller' = "handle"
         ELSE poller' = "end" /\ UNCHANGED events
    /\ UNCHANGED <<closeVars, fd, tableVars, workerVars, mainVars, clientVars, killed>>

(* mutant: the number is not unregistered *)
HandlePollResultOnly ==
    /\ poller = "handle"
    /\ \E e \in events :
         /\ events' = events \ {e}
         /\ poller' = IF events = {e} THEN "poll" ELSE "handle"
         /\ IF e[2] = "h"
              THEN DropConnection(e[1]) /\ UNCHANGED queue
              ELSE queue' = Append(queue, e[1]) /\ UNCHANGED <<fdToConn, fd, killed>>
    /\ UNCHANGED <<closeVars, inactive, workerVars, mainVars, clientVars>>

(* _handle_poll_result: unregister, then drop or enqueue *)
HandlePollResult ==
    /\ poller = "handle"
    /\ \E e \in events :
         /\ events' = events \ {e}
         /\ poller' = IF events = {e} THEN "poll" ELSE "handle"
         /\ inactive' = inactive \ {e[1]}
         /\ IF e[2] = "h"
              THEN DropConnection(e[1]) /\ UNCHANGED queue
              ELSE queue' = Append(queue, e[1]) /\ UNCHANGED <<fdToConn, fd, killed>>
    /\ UNCHANGED <<closeVars, workerVars, mainVars, clientVars>>

(* the same, and on_disconnect of the connection it drops closes the server *)
CloseInPoller ==
    /\ BeginClose(PollingThread)
    /\ poller = "handle" /\ poller' = "close"
    /\ \E e \in events :
         /\ e[2] = "h" /\ \E c \in OpenOn(e[1]) : fdToConn[e[1]] = c
         /\ events' = events \ {e}
         /\ inactive' = inactive \ {e[1]}
         /\ DropConnection(e[1])
    /\ UNCHANGED <<queue, workerVars, mainVars, clientVars>>

-----------------------------------------------------------------------------
(* the workers *)

Work(w, l) == pc' = [pc EXCEPT ![w] = l]

Loop(w) ==
    /\ pc[w] = "loop"
    /\ Work(w, IF active THEN "get" ELSE "end")
    /\ UNCHANGED <<closeVars, fd, tableVars, held, batch, pollVars, mainVars,
                   clientVars, killed>>

Get(w) ==
    /\ pc[w] = "get" /\ queue # <<>>
    /\ queue' = Tail(queue)
    /\ IF Head(queue) = Stop
         THEN Work(w, "loop") /\ UNCHANGED held
         ELSE Work(w, "serve") /\ held' = [held EXCEPT ![w] = Head(queue)]
    /\ UNCHANGED <<closeVars, fd, fdToConn, inactive, batch, pollVars, mainVars,
                   clientVars, killed>>

(* fd_to_conn[fd].poll() serves a request *)
ServeRequest(w) ==
    LET c == fdToConn[held[w]] IN
    /\ pc[w] = "serve" /\ batch[w] < BatchSize
    /\ c # NoConn /\ fd[c] # NoFd /\ pending[c] > 0
    /\ pending' = [pending EXCEPT ![c] = @ - 1]
    /\ batch' = [batch EXCEPT ![w] = @ + 1]
    /\ UNCHANGED <<closeVars, fd, tableVars, pc, held, pollVars, mainVars,
                   sent, gone, killed>>

(* it returns False: the number goes back to the inactive ones *)
NothingToServe(w) ==
    LET c == fdToConn[held[w]] IN
    /\ pc[w] = "serve" /\ batch[w] < BatchSize
    /\ c # NoConn /\ fd[c] # NoFd /\ pending[c] = 0 /\ c \notin gone
    /\ Work(w, "register")
    /\ UNCHANGED <<closeVars, fd, tableVars, held, batch, pollVars, mainVars,
                   clientVars, killed>>

(* mutant: the number is not registered again *)
AddNothing(w) ==
    /\ pc[w] = "register"
    /\ held' = [held EXCEPT ![w] = NoFd] /\ batch' = [batch EXCEPT ![w] = 0]
    /\ Work(w, "loop")
    /\ UNCHANGED <<closeVars, fd, tableVars, pollVars, mainVars,
                   clientVars, killed>>

AddInactive(w) ==
    /\ pc[w] = "register"
    /\ inactive' = inactive \cup {held[w]}
    /\ held' = [held EXCEPT ![w] = NoFd] /\ batch' = [batch EXCEPT ![w] = 0]
    /\ Work(w, "loop")
    /\ UNCHANGED <<closeVars, fd, fdToConn, queue, pollVars, mainVars,
                   clientVars, killed>>

(* mutant: a connection with nothing to serve is taken for one at its end *)
MeetsEndOrIdle(w) ==
    LET c == fdToConn[held[w]] IN
    /\ pc[w] = "serve" /\ batch[w] < BatchSize
    /\ c # NoConn /\ pending[c] = 0
    /\ Work(w, "drop")
    /\ UNCHANGED <<closeVars, fd, tableVars, held, batch, pollVars, mainVars,
                   clientVars, killed>>

(* it raises EOFError: serve() has closed the connection and its socket *)
MeetsEnd(w) ==
    LET c == fdToConn[held[w]] IN
    /\ pc[w] = "serve" /\ batch[w] < BatchSize
    /\ c # NoConn /\ (fd[c] = NoFd \/ (pending[c] = 0 /\ c \in gone))
    /\ CloseConn(c)
    /\ Work(w, "drop")
    /\ UNCHANGED <<closeVars, tableVars, held, batch, pollVars, mainVars,
                   clientVars, killed>>

Drop(w) ==
    /\ pc[w] = "drop"
    /\ DropConnection(held[w])
    /\ held' = [held EXCEPT ![w] = NoFd] /\ batch' = [batch EXCEPT ![w] = 0]
    /\ Work(w, "loop")
    /\ UNCHANGED <<closeVars, inactive, queue, pollVars, mainVars, clientVars>>

(* mutant: after a full batch the number is not put back *)
ForgetBack(w) ==
    /\ \/ pc[w] = "serve" /\ (batch[w] = BatchSize \/ fdToConn[held[w]] = NoConn)
       \/ pc[w] = "failed"
    /\ held' = [held EXCEPT ![w] = NoFd] /\ batch' = [batch EXCEPT ![w] = 0]
    /\ Work(w, "loop")
    /\ UNCHANGED <<closeVars, fd, tableVars, pollVars,
                   mainVars, clientVars, killed>>

(* a full batch, or an exception (KeyError when the number is not known) *)
PutBack(w) ==
    /\ \/ pc[w] = "serve" /\ (batch[w] = BatchSize \/ fdToConn[held[w]] = NoConn)
       \/ pc[w] = "failed"
    /\ queue' = Append(queue, held[w])
    /\ held' = [held EXCEPT ![w] = NoFd] /\ batch' = [batch EXCEPT ![w] = 0]
    /\ Work(w, "loop")
    /\ UNCHANGED <<closeVars, fd, fdToConn, inactive, pollVars,
                   mainVars, clientVars, killed>>

-----------------------------------------------------------------------------
(* close() *)

CloseFromOutside ==
    /\ BeginClose(User)
    /\ UNCHANGED <<fd, tableVars, workerVars, pollVars, mainVars, clientVars, killed>>

(* the finally of start() *)
CloseAtEnd ==
    /\ main = "accept" /\ ~active /\ BeginClose(StartThread)
    /\ UNCHANGED <<fd, tableVars, workerVars, pollVars, mainVars, clientVars, killed>>

(* a request whose service closes the server *)
CloseInService(w) ==
    LET c == fdToConn[held[w]] IN
    /\ BeginClose(w)
    /\ pc[w] = "serve" /\ batch[w] < BatchSize
    /\ c # NoConn /\ fd[c] # NoFd /\ pending[c] > 0
    /\ pending' = [pending EXCEPT ![c] = @ - 1]
    /\ batch' = [batch EXCEPT ![w] = @ + 1]
    /\ Work(w, "close")
    /\ UNCHANGED <<fd, tableVars, held, pollVars, mainVars, sent, gone, killed>>

(* poll() meets the end of the stream and on_disconnect closes the server *)
CloseInDisconnect(w) ==
    LET c == fdToConn[held[w]] IN
    /\ BeginClose(w)
    /\ pc[w] = "serve" /\ batch[w] < BatchSize
    /\ c # NoConn /\ fd[c] # NoFd /\ pending[c] = 0 /\ c \in gone
    /\ CloseConn(c)
    /\ Work(w, "closed")
    /\ UNCHANGED <<tableVars, held, batch, pollVars, mainVars, clientVars, killed>>

(* the thread k leaves close(), for RuntimeError if it has raised: a service turns
   it into the reply, poll() of a worker and _handle_poll_result raise it *)
LeaveClose(k, how) ==
    /\ closing' = [closing EXCEPT ![k] = how]
    /\ IF k \in Worker THEN Work(k, IF pc[k] = "close" THEN "serve" ELSE "failed")
                       ELSE UNCHANGED pc
    /\ IF k # PollingThread THEN UNCHANGED pollVars
         ELSE /\ events' = IF how = "raised" THEN {} ELSE events
              /\ poller' = IF events' = {} THEN "poll" ELSE "handle"

(* join() of the thread that runs it raises RuntimeError *)
TakePoller(k) ==
    /\ closing[k] = "take" /\ polling' = FALSE
    /\ IF polling /\ k = PollingThread
         THEN LeaveClose(k, "raised")
         ELSE /\ closing' = [closing EXCEPT ![k] = IF polling THEN "join_poller" ELSE "stop"]
              /\ UNCHANGED <<pc, pollVars>>
    /\ UNCHANGED <<active, fd, tableVars, held, batch, mainVars, clientVars, killed>>

(* mutant: one None less than there are workers *)
StopTooFew(k) ==
    /\ closing[k] = "stop" \/ (closing[k] = "join_poller" /\ poller = "end")
    /\ queue' = queue \o [i \in 1 .. NbThreads - 1 |-> Stop]
    /\ closing' = [closing EXCEPT ![k] = "join_workers"]
    /\ UNCHANGED <<active, polling, fd, fdToConn, inactive, workerVars, pollVars, mainVars,
                   clientVars, killed>>

StopWorkers(k) ==
    /\ closing[k] = "stop" \/ (closing[k] = "join_poller" /\ poller = "end")
    /\ queue' = queue \o [i \in 1 .. NbThreads |-> Stop]
    /\ closing' = [closing EXCEPT ![k] = "join_workers"]
    /\ UNCHANGED <<active, polling, fd, fdToConn, inactive, workerVars, pollVars, mainVars,
                   clientVars, killed>>

(* in the order of self.workers, up to itself if the thread is one of them *)
JoinWorkers(k) ==
    /\ closing[k] = "join_workers"
    /\ \A v \in Worker : pc[v] = "end" \/ (k \in Worker /\ k <= v)
    /\ LeaveClose(k, IF k \in Worker THEN "raised" ELSE "end")
    /\ UNCHANGED <<active, polling, fd, tableVars, held, batch, mainVars, clientVars, killed>>

-----------------------------------------------------------------------------
(* the clients *)

Request(c) ==
    /\ sent[c] \in 1 .. MaxRequest[c] - 1 /\ c \notin gone
    /\ sent' = [sent EXCEPT ![c] = @ + 1]
    /\ pending' = [pending EXCEPT ![c] = @ + 1]
    /\ UNCHANGED <<closeVars, fd, tableVars, workerVars, pollVars, mainVars,
                   gone, killed>>

Leave(c) ==
    /\ sent[c] > 0 /\ c \notin gone
    /\ gone' = gone \cup {c}
    /\ UNCHANGED <<closeVars, fd, tableVars, workerVars, pollVars, mainVars,
                   pending, sent, killed>>

MainStep == (\E c \in Client : Accept(c)) \/ RefuseConn \/ RecordConn \/ RegisterConn \/ CloseAtEnd

WorkerStep(w) ==
    \/ Loop(w) \/ Get(w) \/ ServeRequest(w) \/ NothingToServe(w) \/ AddInactive(w)
    \/ MeetsEnd(w) \/ Drop(w) \/ PutBack(w) \/ CloseInService(w) \/ CloseInDisconnect(w)

PollerStep == Poll \/ HandlePollResult \/ CloseInPoller

CloseStep(k) == TakePoller(k) \/ StopWorkers(k) \/ JoinWorkers(k)

Next ==
    \/ MainStep
    \/ PollerStep
    \/ \E w \in Worker : WorkerStep(w)
    \/ CloseFromOutside
    \/ \E k \in Thread : CloseStep(k)
    \/ \E c \in Client : Request(c) \/ Leave(c)

(* Every thread that can run is scheduled. *)
Fairness ==
    /\ WF_vars(MainStep) /\ WF_vars(PollerStep)
    /\ \A w \in Worker : WF_vars(WorkerStep(w))
    /\ \A k \in Thread : WF_vars(CloseStep(k))

Spec == Init /\ [][Next]_vars
FairSpec == Spec /\ Fairness

-----------------------------------------------------------------------------
TypeOK ==
    /\ active \in BOOLEAN /\ polling \in BOOLEAN
    /\ closing \in [Thread -> {"no", "take", "join_poller", "stop", "join_workers", "end", "raised"}]
    /\ fd \in [Client -> Fd \cup {NoFd}]
    /\ fdToConn \in [Fd -> Client \cup {NoConn}] /\ inactive \subseteq Fd
    /\ queue \in Seq(Fd \cup {Stop})
    /\ main \in {"accept", "record", "register"} /\ inHand \in Client \cup {NoConn}
    /\ poller \in {"poll", "handle", "close", "end"} /\ events \subseteq Fd \X {"h", "r"}
    /\ pc \in [Worker -> {"loop", "get", "serve", "register", "drop", "close", "closed", "failed", "end"}]
    /\ held \in [Worker -> Fd \cup {NoFd}] /\ batch \in [Worker -> 0 .. BatchSize]
    /\ pending \in [Client -> Nat] /\ sent \in [Client -> Nat]
    /\ gone \subseteq Client /\ killed \subseteq Client

Single(S) == \A x, y \in S : x = y

(* A connection is in exactly one place: two workers never serve it at once and
   none is forgotten, whatever the poller, the workers and the clients do. *)
OnePlace ==
    \A f \in Fd :
        /\ Single(Queued(f)) /\ Single(Holders(f))
        /\ Queued(f) = {} \/ Holders(f) = {}
        /\ f \in inactive => Queued(f) = {} /\ Holders(f) = {}
        /\ fdToConn[f] # NoConn /\ ~(main = "register" /\ fd[inHand] = f) => InPlace(f)

(* "the connection has been closed by the remote end. Close it on our side":
   a connection is dropped only after its client has gone. *)
OnlyGoneAreDropped == killed = {}

(* In the end, unless the server is closed, every request has been served and
   the connection of every client that has gone is dropped: no client starves and
   none is forgotten, however many share the workers. *)
ClientsAreHandled ==
    <>[](active => \A c \in Client : /\ pending[c] = 0 \/ fd[c] = NoFd
                                     /\ c \in gone => fd[c] = NoFd)

(* on_disconnect on the polling thread waits for a worker whose service waits
   for the polling thread *)
WaitForEachOther ==
    /\ closing[PollingThread] = "join_workers"
    /\ \E w \in Worker : closing[w] = "join_poller"

(* close() comes to its end wherever it is called, and with it every thread of the
   pool: a thread of the pool gets RuntimeError where it would join itself, with the
   rest unjoined, and the close() of start() then does what it has left.  Except: a
   worker and the polling thread both call it, and the worker is first. *)
CloseReturns ==
    <>[](\/ active
         \/ /\ poller = "end" /\ \A w \in Worker : pc[w] = "end"
            /\ \A k \in Thread : closing[k] \in {"no", "end", "raised"}
         \/ WaitForEachOther)
=============================================================================
