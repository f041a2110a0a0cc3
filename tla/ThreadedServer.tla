--------------------------- MODULE ThreadedServer ---------------------------
(***************************************************************************)
(* ThreadedServer (rpyc/utils/server.py): the thread that runs start()     *)
(* accepts clients and starts a worker for each; any thread, a worker      *)
(* included when a service closes its own server, may call close().        *)
(*                                                                         *)
(* clients and active are read and written without a lock; __workers and   *)
(* __terminated under __cond.  A client is named by its socket: the socket *)
(* an authenticator wraps it in takes its place.  Registration is off here *)
(* and is the subject of Registry.                                         *)
(***************************************************************************)
EXTENDS Integers, FiniteSets

CONSTANTS Client,   \* clients, and the workers that serve them
          User,     \* threads that call close()
          Main,     \* the thread that runs start()
          MayAuth,  \* there is an authenticator
          Closers   \* clients whose service may call close()

ASSUME ThreadedServerAssumption ==
    /\ MayAuth \in BOOLEAN /\ Closers \subseteq Client
    /\ Main \notin Client \cup User /\ Client \cap User = {}

Thread == Client \cup User \cup {Main}
NoClient == "no client"

VARIABLES
    active,     \* self.active
    closed,     \* self._closed
    listener,   \* "bound", "listening" or "closed"
    clients,    \* self.clients
    workers,    \* __workers
    terminated, \* __terminated
    main,       \* where start() is
    inHand,     \* the socket accept() works on
    pc,         \* where a worker is
    call,       \* where a thread is inside of close()
    todo,       \* the copy of clients that close() goes through
    joining,    \* the workers a thread is about to join
    sock,       \* the server's socket of each client
    peer,       \* the client's end
    lost        \* history: workers whose getpeername() raised

serverVars == <<active, closed, listener, clients>>
poolVars   == <<workers, terminated, joining>>
closeVars  == <<call, todo>>
netVars    == <<sock, peer>>
vars == <<serverVars, poolVars, closeVars, netVars, main, inHand, pc, lost>>

Init ==
    /\ active = FALSE /\ closed = FALSE /\ listener = "bound"
    /\ clients = {} /\ workers = {} /\ terminated = {}
    /\ main = "listen" /\ inHand = NoClient
    /\ pc = [c \in Client |-> "none"]
    /\ call = [t \in Thread |-> "none"]
    /\ todo = [t \in Thread |-> {}] /\ joining = [t \in Thread |-> {}]
    /\ sock = [c \in Client |-> "none"] /\ peer = [c \in Client |-> "none"]
    /\ lost = {}

-----------------------------------------------------------------------------
(* start() and accept() *)

(* _listen; listen() raises on a listener that has been closed *)
Listen ==
    /\ main = "listen"
    /\ IF listener = "closed"
         THEN main' = "end" /\ UNCHANGED <<active, listener>>
         ELSE main' = "accept" /\ active' = TRUE /\ listener' = "listening"
    /\ UNCHANGED <<closed, clients, poolVars, closeVars, netVars, inHand, pc, lost>>

(* a client, an error of the closed listener, or active found to be False *)
Accept ==
    /\ main = "accept"
    /\ \/ /\ active
          /\ \E c \in Client :
               /\ sock[c] = "backlog"
               /\ inHand' = c
               /\ sock' = [sock EXCEPT ![c] = "open"]
          /\ main' = "accepted"
       \/ (~active \/ listener = "closed") /\ main' = "close" /\ UNCHANGED <<inHand, sock>>
    /\ UNCHANGED <<serverVars, poolVars, closeVars, peer, pc, lost>>

(* if not self.active: return; the socket is dropped and closed *)
Accepted ==
    /\ main = "accepted"
    /\ IF active
         THEN main' = "add" /\ UNCHANGED <<inHand, sock>>
         ELSE /\ main' = "close" /\ inHand' = NoClient
              /\ sock' = [sock EXCEPT ![inHand] = "closed"]
    /\ UNCHANGED <<serverVars, poolVars, closeVars, peer, pc, lost>>

AddClient ==
    /\ main = "add"
    /\ clients' = clients \cup {inHand}
    /\ main' = "reap"
    /\ UNCHANGED <<active, closed, listener, poolVars, closeVars, netVars, inHand, pc, lost>>

Reap ==
    /\ main = "reap"
    /\ joining' = [joining EXCEPT ![Main] = terminated]
    /\ terminated' = {}
    /\ main' = "spawn"
    /\ UNCHANGED <<serverVars, workers, closeVars, netVars, inHand, pc, lost>>

Joined(t) == \A c \in joining[t] : pc[c] = "end"

(* mutant: the worker is started before the lock is taken *)
SpawnUnlocked ==
    \/ /\ main = "spawn" /\ Joined(Main)
       /\ pc' = [pc EXCEPT ![inHand] = "start"]
       /\ main' = "record"
       /\ UNCHANGED <<serverVars, poolVars, closeVars, netVars, inHand, lost>>
    \/ /\ main = "record"
       /\ workers' = workers \cup {inHand}
       /\ inHand' = NoClient
       /\ main' = "accept"
       /\ UNCHANGED <<serverVars, terminated, joining, closeVars, netVars, pc, lost>>

(* with __cond: the worker is started and recorded *)
Spawn ==
    /\ main = "spawn" /\ Joined(Main)
    /\ pc' = [pc EXCEPT ![inHand] = "start"]
    /\ workers' = workers \cup {inHand}
    /\ joining' = [joining EXCEPT ![Main] = {}]
    /\ inHand' = NoClient
    /\ main' = "accept"
    /\ UNCHANGED <<serverVars, terminated, closeVars, netVars, lost>>

-----------------------------------------------------------------------------
(* close() *)

Enter(t) == call' = [call EXCEPT ![t] = "test"]

UserCloses(t) ==
    /\ t \in User /\ call[t] = "none"
    /\ Enter(t)
    /\ UNCHANGED <<serverVars, poolVars, todo, netVars, main, inHand, pc, lost>>

(* the finally of start() *)
MainCloses ==
    /\ main = "close" /\ main' = "closing"
    /\ Enter(Main)
    /\ UNCHANGED <<serverVars, poolVars, todo, netVars, inHand, pc, lost>>

ServiceCloses(c) ==
    /\ c \in Closers /\ pc[c] = "serve" /\ call[c] = "none"
    /\ Enter(c)
    /\ UNCHANGED <<serverVars, poolVars, todo, netVars, main, inHand, pc, lost>>

CloseTest(t) ==
    /\ call[t] = "test"
    /\ active' = IF closed THEN active ELSE FALSE
    /\ call' = [call EXCEPT ![t] = IF closed THEN "wait" ELSE "listener"]
    /\ UNCHANGED <<closed, listener, clients, poolVars, todo, netVars, main, inHand, pc, lost>>

(* connections nobody has accepted are reset *)
CloseListener(t) ==
    /\ call[t] = "listener"
    /\ listener' = "closed"
    /\ sock' = [c \in Client |-> IF sock[c] = "backlog" THEN "closed" ELSE sock[c]]
    /\ call' = [call EXCEPT ![t] = "copy"]
    /\ UNCHANGED <<active, closed, clients, poolVars, todo, peer, main, inHand, pc, lost>>

CopyClients(t) ==
    /\ call[t] = "copy"
    /\ todo' = [todo EXCEPT ![t] = clients]
    /\ call' = [call EXCEPT ![t] = "each"]
    /\ UNCHANGED <<serverVars, poolVars, netVars, main, inHand, pc, lost>>

(* shut down, read until the client has closed or 5 seconds are over, close *)
CloseClient(t) ==
    /\ call[t] = "each"
    /\ \E c \in todo[t] :
         /\ todo' = [todo EXCEPT ![t] = @ \ {c}]
         /\ sock' = [sock EXCEPT ![c] = "closed"]
    /\ UNCHANGED <<serverVars, poolVars, call, peer, main, inHand, pc, lost>>

ClearClients(t) ==
    /\ call[t] = "each" /\ todo[t] = {}
    /\ clients' = {}
    /\ call' = [call EXCEPT ![t] = "set"]
    /\ UNCHANGED <<active, closed, listener, poolVars, todo, netVars, main, inHand, pc, lost>>

SetClosed(t) ==
    /\ call[t] = "set"
    /\ closed' = TRUE
    /\ call' = [call EXCEPT ![t] = "wait"]
    /\ UNCHANGED <<active, listener, clients, poolVars, todo, netVars, main, inHand, pc, lost>>

CloseReturns(t) ==
    /\ call' = [call EXCEPT ![t] = "end"]
    /\ main' = IF t = Main THEN "end" ELSE main

(* mutant: a thread that is a worker goes on to wait for the workers *)
CloseInWorkerWaits(t) ==
    /\ call[t] = "wait" /\ t \in workers
    /\ joining' = [joining EXCEPT ![t] = workers]
    /\ call' = [call EXCEPT ![t] = "join"]
    /\ UNCHANGED <<serverVars, workers, terminated, todo, netVars, main, inHand, pc, lost>>

(* a worker must not wait for itself *)
CloseInWorker(t) ==
    /\ call[t] = "wait" /\ t \in workers \cup terminated
    /\ CloseReturns(t)
    /\ UNCHANGED <<serverVars, poolVars, todo, netVars, inHand, pc, lost>>

(* wait_for(not __workers, 2 seconds), then the swap of __terminated *)
WaitForWorkers(t) ==
    /\ call[t] = "wait" /\ t \notin workers \cup terminated
    /\ joining' = [joining EXCEPT ![t] = terminated]
    /\ terminated' = {}
    /\ call' = [call EXCEPT ![t] = "join"]
    /\ UNCHANGED <<serverVars, workers, todo, netVars, main, inHand, pc, lost>>

JoinWorkers(t) ==
    /\ call[t] = "join" /\ Joined(t)
    /\ CloseReturns(t)
    /\ UNCHANGED <<serverVars, poolVars, todo, netVars, inHand, pc, lost>>

-----------------------------------------------------------------------------
(* _authenticate_and_serve_client on the worker of c *)

InClose(c) == call[c] \notin {"none", "end"}

Work(c, l) == pc' = [pc EXCEPT ![c] = l]

(* getpeername() raises on a socket that is no longer connected *)
Start(c) ==
    /\ pc[c] = "start"
    /\ IF sock[c] = "closed" \/ peer[c] = "reset"
         THEN Work(c, "finish") /\ lost' = lost \cup {c}
         ELSE Work(c, IF MayAuth THEN "auth" ELSE "serve") /\ UNCHANGED lost
    /\ UNCHANGED <<serverVars, poolVars, closeVars, netVars, main, inHand>>

Authenticate(c) ==
    /\ pc[c] = "auth"
    /\ \/ Work(c, "serve")
       \/ Work(c, "finally")
    /\ UNCHANGED <<serverVars, poolVars, closeVars, netVars, main, inHand, lost>>

(* serve_all and conn.close(): until either end has closed *)
ServeEnds(c) ==
    /\ pc[c] = "serve" /\ ~InClose(c)
    /\ peer[c] # "open" \/ sock[c] = "closed"
    /\ sock' = [sock EXCEPT ![c] = "closed"]
    /\ Work(c, "finally")
    /\ UNCHANGED <<serverVars, poolVars, closeVars, peer, main, inHand, lost>>

(* shutdown, read until the client has closed, close *)
FinallyCloses(c) ==
    /\ pc[c] = "finally"
    /\ peer[c] # "open" \/ sock[c] = "closed"
    /\ sock' = [sock EXCEPT ![c] = "closed"]
    /\ Work(c, "discard")
    /\ UNCHANGED <<serverVars, poolVars, closeVars, peer, main, inHand, lost>>

(* mutant: the socket stays in clients *)
DiscardNothing(c) ==
    /\ pc[c] = "discard"
    /\ Work(c, "finish")
    /\ UNCHANGED <<serverVars, poolVars, closeVars, netVars, main, inHand, lost>>

Discard(c) ==
    /\ pc[c] = "discard"
    /\ clients' = clients \ {c}
    /\ Work(c, "finish")
    /\ UNCHANGED <<active, closed, listener, poolVars, closeVars, netVars, main, inHand, lost>>

(* with __cond: if current in __workers *)
Finish(c) ==
    /\ pc[c] = "finish"
    /\ IF c \in workers
         THEN workers' = workers \ {c} /\ terminated' = terminated \cup {c}
         ELSE UNCHANGED <<workers, terminated>>
    /\ Work(c, "end")
    /\ UNCHANGED <<serverVars, joining, closeVars, netVars, main, inHand, lost>>

-----------------------------------------------------------------------------
(* the clients *)

Connect(c) ==
    /\ sock[c] = "none" /\ listener = "listening"
    /\ sock' = [sock EXCEPT ![c] = "backlog"]
    /\ peer' = [peer EXCEPT ![c] = "open"]
    /\ UNCHANGED <<serverVars, poolVars, closeVars, main, inHand, pc, lost>>

Disconnect(c) ==
    /\ peer[c] = "open"
    /\ \E how \in {"closed", "reset"} : peer' = [peer EXCEPT ![c] = how]
    /\ UNCHANGED <<serverVars, poolVars, closeVars, sock, main, inHand, pc, lost>>

(* Server.start and Server.accept *)
StartStep == Listen \/ Accept \/ Accepted \/ AddClient \/ MainCloses

MainStep == StartStep \/ Reap \/ Spawn

(* Server.close *)
BaseCloseStep(t) ==
    \/ CloseTest(t) \/ CloseListener(t) \/ CopyClients(t) \/ CloseClient(t)
    \/ ClearClients(t) \/ SetClosed(t)

CloseStep(t) == BaseCloseStep(t) \/ CloseInWorker(t) \/ WaitForWorkers(t) \/ JoinWorkers(t)

(* Server._authenticate_and_serve_client, up to what it does with clients *)
ServeStep(c) == Start(c) \/ Authenticate(c) \/ ServeEnds(c) \/ FinallyCloses(c)

WorkerStep(c) == ServeStep(c) \/ Discard(c) \/ Finish(c)

-----------------------------------------------------------------------------
Alive(c) == pc[c] \notin {"none", "end"}

(* __workers is exactly the workers that run, so close() never waits for a
   worker that is gone; one that has ended is joined by exactly one thread. *)
WorkersAreAlive ==
    /\ workers = {c \in Client : Alive(c)}
    /\ \A t \in Thread : joining[t] \cap (workers \cup terminated) = {}
    /\ \A t, u \in Thread : t # u => joining[t] \cap joining[u] = {}
=============================================================================
