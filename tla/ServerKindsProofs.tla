------------------------- MODULE ServerKindsProofs -------------------------
(***************************************************************************)
(* The servers that accept on one thread, for any clients, users and       *)
(* services that close the server: __workers is what runs, and a client    *)
(* that has been served leaves nothing behind.                             *)
(***************************************************************************)
EXTENDS ServerKinds, TLAPS

WorkerPlaces == {"none", "start", "auth", "serve", "finally", "discard", "finish", "end"}
ClosePlaces  == {"none", "test", "listener", "copy", "each", "set", "wait", "join", "end"}

(* the types of what the invariants are about *)
ServerTypes ==
    /\ pc \in [Client -> WorkerPlaces] /\ call \in [Thread -> ClosePlaces]
    /\ sock \in [Client -> {"none", "backlog", "open", "closed"}]
    /\ clients \subseteq Client /\ workers \subseteq Client /\ terminated \subseteq Client
    /\ joining \in [Thread -> SUBSET Client] /\ scenario \in Scenario

(* The thread of start(): what it has in hand between accept() and the worker is a
   client that nobody serves yet, and it closes the server only when it is there. *)
MainInv ==
    /\ main \in {"accepted", "add", "reap", "spawn"} =>
          inHand \in Client /\ pc[inHand] = "none" /\ sock[inHand] \in {"open", "closed"}
    /\ main \in {"serving", "forked"} => inHand \in Client
    /\ main = "forked" => kind = "forking"
    /\ main = "serving" => kind = "oneshot"
    /\ main = "spawn" => kind = "threaded"
    /\ main \notin {"closing", "shutting"} => call[Main] \in {"none", "end"}
    /\ \A c \in Client : sock[c] \in {"none", "backlog"} => pc[c] = "none"

Ended == {c \in Client : pc[c] = "end"}

(* Whoever is about to be joined has ended. *)
WorkerInv ==
    kind = "threaded" =>
        /\ WorkersAreAlive
        /\ terminated \subseteq Ended /\ \A t \in Thread : joining[t] \subseteq Ended

(* From the end of its service on the socket of a client is closed, and from there on
   it is not in clients; but a parent process knows of it until it drops it. *)
EndInv ==
    \A c \in Client :
        /\ pc[c] \in {"discard", "finish", "end"} /\ c \notin lost => sock[c] = "closed"
        /\ kind # "forking" /\ pc[c] \in {"finish", "end"} /\ c \notin lost => c \notin clients
        /\ kind = "forking" /\ pc[c] # "none" /\ c \in clients => main = "forked" /\ inHand = c

ServerInv == ServerTypes /\ MainInv /\ WorkerInv /\ EndInv

-----------------------------------------------------------------------------
(* close() may close any socket and forget all clients, at any moment *)
LEMMA ClosingKeeps ==
    ASSUME ServerInv, call' \in [Thread -> ClosePlaces],
           UNCHANGED <<pc, workers, terminated, joining, inHand, lost, scenario>>,
           clients' \in {clients, {}},
           sock' \in [Client -> {"none", "backlog", "open", "closed"}],
           \A c \in Client : sock'[c] \in {sock[c], "closed"},
           \/ main' = main /\ (main \in {"closing", "shutting"} \/ call'[Main] = call[Main])
           \/ /\ main \notin {"forked", "serving"}
              /\ main' \in {"accept", "closing", "close", "end"}
              /\ main' = "closing" \/ call'[Main] \in {"none", "end"}
    PROVE  ServerInv'
<1> USE DEF ServerInv
<1>1. ServerTypes'
  BY DEF ServerTypes
<1>2. kind' = kind
  BY DEF kind
<1>3. MainInv'
  BY <1>2 DEF MainInv, ServerTypes
<1>4. WorkerInv'
  BY <1>2 DEF WorkerInv, WorkersAreAlive, Alive, Ended
<1>5. EndInv'
  BY <1>2 DEF EndInv, ServerTypes
<1> QED
  BY <1>1, <1>3, <1>4, <1>5

(* the worker, greenlet or process of a client goes on, and is not at its end *)
LEMMA ServiceKeeps ==
    ASSUME ServerInv, NEW c \in Client, NEW l \in WorkerPlaces \ {"none", "end"},
           pc[c] \notin {"none", "end"}, pc' = [pc EXCEPT ![c] = l],
           UNCHANGED <<workers, terminated, joining, call, main, inHand, scenario>>,
           clients' = clients \/ clients' = clients \ {c},
           lost' = lost \/ lost' = lost \cup {c},
           sock' = sock \/ sock' = [sock EXCEPT ![c] = "closed"],
           l \in {"discard", "finish"} /\ c \notin lost' => sock'[c] = "closed",
           l = "finish" /\ c \notin lost' => c \notin clients'
    PROVE  ServerInv'
<1> USE DEF ServerInv
<1>0. pc[c] # "none" /\ pc[c] # "end" /\ l # "none" /\ l # "end"
  OBVIOUS
<1>1. ServerTypes'
  BY DEF ServerTypes
<1>2. kind' = kind
  BY DEF kind
<1>3. \A u \in Client : pc'[u] = (IF u = c THEN l ELSE pc[u])
  BY DEF ServerTypes
<1>4. \A u \in Client : sock'[u] = sock[u] \/ (u = c /\ sock'[u] = "closed")
  BY DEF ServerTypes
<1>5. MainInv'
  BY <1>0, <1>2, <1>3, <1>4 DEF MainInv
<1>6. WorkerInv'
  <2>1. Ended' = Ended /\ {u \in Client : Alive(u)}' = {u \in Client : Alive(u)}
    BY <1>0, <1>3 DEF Ended, Alive
  <2> QED
    BY <1>2, <2>1 DEF WorkerInv, WorkersAreAlive
<1>7. EndInv'
  BY <1>0, <1>2, <1>3, <1>4 DEF EndInv
<1> QED
  BY <1>1, <1>5, <1>6, <1>7

(* it ends, and leaves __workers if it is there *)
LEMMA EndingKeeps ==
    ASSUME ServerInv, NEW c \in Client,
           pc[c] \in {"discard", "finish"}, pc[c] = "finish" \/ kind = "forking",
           pc' = [pc EXCEPT ![c] = "end"],
           UNCHANGED <<clients, joining, lost, scenario>>,
           IF kind = "threaded" /\ c \in workers
             THEN workers' = workers \ {c} /\ terminated' = terminated \cup {c}
             ELSE UNCHANGED <<workers, terminated>>,
           sock' = sock \/ sock' = [sock EXCEPT ![c] = "closed"],
           call' \in [Thread -> ClosePlaces],
           \/ UNCHANGED <<main, inHand, call>>
           \/ main = "serving" /\ main' = "shutting"
    PROVE  ServerInv'
<1> USE DEF ServerInv
<1>0. pc[c] # "none" /\ pc[c] # "end"
  OBVIOUS
<1>1. ServerTypes'
  BY DEF ServerTypes, WorkerPlaces
<1>2. kind' = kind
  BY DEF kind
<1>3. \A u \in Client : pc'[u] = (IF u = c THEN "end" ELSE pc[u])
  BY DEF ServerTypes
<1>4. \A u \in Client : sock'[u] = sock[u] \/ (u = c /\ sock'[u] = "closed")
  BY DEF ServerTypes
<1>5. MainInv'
  BY <1>0, <1>2, <1>3, <1>4 DEF MainInv
<1>6. WorkerInv'
  <2> SUFFICES ASSUME kind = "threaded" PROVE WorkerInv'
    BY <1>2 DEF WorkerInv
  <2>1. c \in workers
    BY <1>0 DEF WorkerInv, WorkersAreAlive, Alive
  <2>2. workers' = workers \ {c} /\ terminated' = terminated \cup {c} /\ joining' = joining
    BY <2>1
  <2>3. Ended' = Ended \cup {c} /\ {u \in Client : Alive(u)}' = {u \in Client : Alive(u)} \ {c}
    BY <1>0, <1>3 DEF Ended, Alive
  <2>4. \A t \in Thread : c \notin joining[t]
    BY <2>1 DEF WorkerInv, WorkersAreAlive
  <2> QED
    BY <1>2, <2>2, <2>3, <2>4 DEF WorkerInv, WorkersAreAlive
<1>7. EndInv'
  BY <1>0, <1>2, <1>3, <1>4 DEF EndInv, MainInv
<1> QED
  BY <1>1, <1>5, <1>6, <1>7

(* a client is handed to whoever will serve it *)
LEMMA BeginningKeeps ==
    ASSUME ServerInv, main \in {"reap", "spawn"},
           kind = "threaded" <=> main = "spawn",
           pc' = [pc EXCEPT ![inHand] = "start"],
           UNCHANGED <<clients, sock, terminated, call, lost, scenario>>,
           IF kind = "threaded"
             THEN workers' = workers \cup {inHand} /\ joining' = [joining EXCEPT ![Main] = {}]
             ELSE UNCHANGED <<workers, joining>>,
           IF kind = "forking" THEN main' = "forked" /\ inHand' = inHand
           ELSE main' = "accept" \/ (kind = "oneshot" /\ main' = "serving" /\ inHand' = inHand)
    PROVE  ServerInv'
<1> USE DEF ServerInv
<1>0. inHand \in Client /\ pc[inHand] = "none" /\ sock[inHand] \in {"open", "closed"}
  BY DEF MainInv
<1>1. ServerTypes'
  BY <1>0 DEF ServerTypes, WorkerPlaces
<1>2. kind' = kind
  BY DEF kind
<1>3. \A u \in Client : pc'[u] = (IF u = inHand THEN "start" ELSE pc[u])
  BY DEF ServerTypes
<1>4. MainInv'
  BY <1>0, <1>2, <1>3 DEF MainInv
<1>5. WorkerInv'
  <2> SUFFICES ASSUME kind = "threaded" PROVE WorkerInv'
    BY <1>2 DEF WorkerInv
  <2>1. Ended' = Ended /\ {u \in Client : Alive(u)}' = {u \in Client : Alive(u)} \cup {inHand}
    BY <1>0, <1>3 DEF Ended, Alive
  <2>2. inHand \notin terminated /\ \A t \in Thread : inHand \notin joining[t]
    BY <1>0 DEF WorkerInv, Ended
  <2>3. \A t \in Thread : joining'[t] = joining[t] \/ joining'[t] = {}
    BY DEF ServerTypes
  <2> QED
    BY <1>2, <2>1, <2>2, <2>3 DEF WorkerInv, WorkersAreAlive
<1>6. EndInv'
  BY <1>0, <1>2, <1>3 DEF EndInv
<1> QED
  BY <1>1, <1>4, <1>5, <1>6

-----------------------------------------------------------------------------
(* the steps of close(), on whatever thread *)
LEMMA CloseStepKeeps ==
    ASSUME ServerInv, NEW t \in Thread,
           KindCloseStep(t)
    PROVE  ServerInv'
<1> USE ThreadedServerAssumption
<1>0. Main \in Thread /\ ServerTypes /\ MainInv
  BY DEF Thread, ServerInv
<1>1. ASSUME BaseCloseStep(t), UNCHANGED scenario PROVE ServerInv'
  <2>1. CASE CloseTest(t) \/ CopyClients(t) \/ SetClosed(t)
    <3>1. call[t] \notin {"none", "end"} /\ call' \in [Thread -> ClosePlaces]
      BY <1>0, <2>1 DEF CloseTest, CopyClients, SetClosed, ServerTypes, ClosePlaces
    <3>2. main \in {"closing", "shutting"} \/ call'[Main] = call[Main]
      BY <1>0, <2>1, <3>1 DEF CloseTest, CopyClients, SetClosed, ServerTypes, MainInv
    <3> QED
      BY <1>0, <1>1, <2>1, <3>1, <3>2, ClosingKeeps
         DEF CloseTest, CopyClients, SetClosed, serverVars, poolVars, netVars, ServerTypes
  <2>2. CASE CloseListener(t)
    <3>1. call[t] \notin {"none", "end"} /\ call' \in [Thread -> ClosePlaces]
      BY <1>0, <2>2 DEF CloseListener, ServerTypes, ClosePlaces
    <3>2. main \in {"closing", "shutting"} \/ call'[Main] = call[Main]
      BY <1>0, <2>2, <3>1 DEF CloseListener, ServerTypes, MainInv
    <3>3. /\ sock' \in [Client -> {"none", "backlog", "open", "closed"}]
          /\ \A c \in Client : sock'[c] \in {sock[c], "closed"}
      BY <1>0, <2>2 DEF CloseListener, ServerTypes
    <3> QED
      BY <1>1, <2>2, <3>1, <3>2, <3>3, ClosingKeeps DEF CloseListener, poolVars
  <2>3. CASE CloseClient(t)
    <3>1. /\ sock' \in [Client -> {"none", "backlog", "open", "closed"}]
          /\ \A c \in Client : sock'[c] \in {sock[c], "closed"}
      BY <1>0, <2>3 DEF CloseClient, ServerTypes
    <3> QED
      BY <1>0, <1>1, <2>3, <3>1, ClosingKeeps DEF CloseClient, serverVars, poolVars, ServerTypes
  <2>4. CASE ClearClients(t)
    <3>1. call[t] \notin {"none", "end"} /\ call' \in [Thread -> ClosePlaces]
      BY <1>0, <2>4 DEF ClearClients, ServerTypes, ClosePlaces
    <3>2. main \in {"closing", "shutting"} \/ call'[Main] = call[Main]
      BY <1>0, <2>4, <3>1 DEF ClearClients, ServerTypes, MainInv
    <3> QED
      BY <1>0, <1>1, <2>4, <3>1, <3>2, ClosingKeeps DEF ClearClients, poolVars, netVars, ServerTypes
  <2> QED
    BY <1>1, <2>1, <2>2, <2>3, <2>4 DEF BaseCloseStep
<1>2. ASSUME CloseReturns(t), call[t] \in {"wait", "join"},
             UNCHANGED <<pc, workers, terminated, joining, inHand, lost, scenario, clients, sock>>
      PROVE  ServerInv'
  <2>1. call' \in [Thread -> ClosePlaces] /\ call'[t] = "end"
    BY <1>0, <1>2 DEF CloseReturns, ServerTypes, ClosePlaces
  <2>2. CASE t = Main
    <3>1. main \in {"closing", "shutting"} /\ main' = "end"
      BY <1>0, <1>2, <2>2 DEF CloseReturns, MainInv
    <3> QED
      BY <1>0, <1>2, <2>1, <2>2, <3>1, ClosingKeeps DEF ServerTypes
  <2>3. CASE t # Main
    <3>1. main' = main /\ call'[Main] = call[Main]
      BY <1>0, <1>2, <2>3 DEF CloseReturns, ServerTypes
    <3> QED
      BY <1>0, <1>2, <2>1, <3>1, ClosingKeeps DEF ServerTypes
  <2> QED
    BY <2>2, <2>3
<1>3. CASE Base(BaseCloseStep(t))
  BY <1>1, <1>3 DEF Base
<1>4. CASE BaseCloseReturns(t)
  BY <1>2, <1>4 DEF BaseCloseReturns, serverVars, poolVars, netVars
<1>5. CASE Base(CloseInWorker(t) \/ JoinWorkers(t))
  BY <1>2, <1>5 DEF Base, CloseInWorker, JoinWorkers, serverVars, poolVars, netVars
<1>6. CASE kind = "threaded" /\ Base(WaitForWorkers(t))
  <2> USE DEF ServerInv
  <2>1. /\ joining' = [joining EXCEPT ![t] = terminated] /\ terminated' = {}
        /\ call[t] = "wait" /\ call' = [call EXCEPT ![t] = "join"]
        /\ UNCHANGED <<clients, workers, sock, main, inHand, pc, lost, scenario>>
    BY <1>6 DEF Base, WaitForWorkers, serverVars, netVars
  <2>2. ServerTypes'
    BY <2>1 DEF ServerTypes, ClosePlaces
  <2>3. kind' = kind
    BY <2>1 DEF kind
  <2>4. MainInv'
    BY <1>0, <2>1, <2>3 DEF MainInv, ServerTypes
  <2>5. WorkerInv'
    <3>1. /\ \A c \in Client : c \in workers => c \notin terminated
          /\ \A u \in Thread : joining'[u] = IF u = t THEN terminated ELSE joining[u]
      BY <1>0, <1>6, <2>1 DEF WorkerInv, WorkersAreAlive, Ended, Alive, ServerTypes
    <3>2. Ended' = Ended /\ {c \in Client : Alive(c)}' = {c \in Client : Alive(c)}
      BY <2>1 DEF Ended, Alive
    <3>3. terminated \subseteq Client
      BY <1>0 DEF ServerTypes
    <3> QED
      BY <1>6, <2>1, <2>3, <3>1, <3>2, <3>3 DEF WorkerInv, WorkersAreAlive
  <2>6. EndInv'
    BY <2>1, <2>3 DEF EndInv
  <2> QED
    BY <2>2, <2>4, <2>5, <2>6
<1> QED
  BY <1>3, <1>4, <1>5, <1>6 DEF KindCloseStep, CloseStep, Base

(* somebody calls close(), a service too, or a client goes *)
LEMMA CallKeeps ==
    ASSUME ServerInv, UNCHANGED scenario,
           \/ \E t \in User : UserCloses(t)
           \/ \E c \in Client : ServiceCloses(c) \/ Disconnect(c)
    PROVE  ServerInv'
<1>0. ServerTypes /\ Main \in Thread /\ Client \subseteq Thread /\ User \subseteq Thread
  BY DEF ServerInv, Thread
<1>1. ASSUME NEW t \in Client \cup User, Enter(t),
             UNCHANGED <<pc, clients, workers, terminated, joining, sock, main, inHand, lost>>
      PROVE  ServerInv'
  <2>1. call' \in [Thread -> ClosePlaces] /\ call'[Main] = call[Main]
    BY <1>0, <1>1, ThreadedServerAssumption DEF Enter, ServerTypes, ClosePlaces
  <2> QED
    BY <1>0, <1>1, <2>1, ClosingKeeps DEF ServerTypes
<1>2. CASE \E t \in User : UserCloses(t)
  BY <1>1, <1>2 DEF UserCloses, serverVars, poolVars, netVars
<1>3. CASE \E c \in Client : ServiceCloses(c)
  BY <1>1, <1>3 DEF ServiceCloses, serverVars, poolVars, netVars
<1>4. CASE \E c \in Client : Disconnect(c)
  BY <1>0, <1>4, ClosingKeeps DEF Disconnect, serverVars, poolVars, closeVars, ServerTypes
<1> QED
  BY <1>2, <1>3, <1>4

(* a client connects *)
LEMMA ConnectKeeps ==
    ASSUME ServerInv, NEW c \in Client, Base(Connect(c))
    PROVE  ServerInv'
<1> USE DEF ServerInv
<1>1. /\ sock[c] = "none" /\ sock' = [sock EXCEPT ![c] = "backlog"]
      /\ UNCHANGED <<clients, workers, terminated, joining, call, main, inHand, pc, lost, scenario>>
  BY DEF Base, Connect, serverVars, poolVars, closeVars
<1>2. ServerTypes' /\ pc[c] = "none"
  BY <1>1 DEF ServerTypes, MainInv
<1>3. kind' = kind /\ \A u \in Client : sock'[u] = IF u = c THEN "backlog" ELSE sock[u]
  BY <1>1 DEF kind, ServerTypes
<1>4. MainInv'
  BY <1>1, <1>2, <1>3 DEF MainInv
<1>5. WorkerInv'
  BY <1>1, <1>3 DEF WorkerInv, WorkersAreAlive, Alive, Ended
<1>6. EndInv'
  BY <1>1, <1>2, <1>3 DEF EndInv
<1> QED
  BY <1>2, <1>4, <1>5, <1>6

-----------------------------------------------------------------------------
(* accept() and what it leads to, up to the worker *)
LEMMA AcceptKeeps ==
    ASSUME ServerInv, UNCHANGED scenario, Accept \/ Accepted \/ AddClient
    PROVE  ServerInv'
<1> USE DEF ServerInv
<1>0. ServerTypes /\ MainInv /\ kind' = kind /\ main # "forked" /\ main # "serving"
  BY DEF kind, Accept, Accepted, AddClient
<1>1. UNCHANGED <<pc, workers, terminated, joining, call, lost, scenario>>
  BY DEF Accept, Accepted, AddClient, poolVars, closeVars
<1>2. WorkerInv'
  BY <1>0, <1>1 DEF WorkerInv, WorkersAreAlive, Alive, Ended
<1>3. CASE \E c \in Client : /\ main = "accept" /\ sock[c] = "backlog" /\ inHand' = c
                             /\ sock' = [sock EXCEPT ![c] = "open"]
                             /\ main' = "accepted" /\ clients' = clients
  <2>1. PICK c \in Client : /\ main = "accept" /\ sock[c] = "backlog" /\ inHand' = c
                            /\ sock' = [sock EXCEPT ![c] = "open"]
                            /\ main' = "accepted" /\ clients' = clients
    BY <1>3
  <2>2. pc[c] = "none" /\ \A u \in Client : sock'[u] = IF u = c THEN "open" ELSE sock[u]
    BY <1>0, <2>1 DEF MainInv, ServerTypes
  <2>3. ServerTypes'
    BY <1>1, <2>1 DEF ServerTypes
  <2>4. MainInv'
    BY <1>0, <1>1, <2>1, <2>2 DEF MainInv
  <2>5. EndInv'
    BY <1>0, <1>1, <2>1, <2>2 DEF EndInv
  <2> QED
    BY <1>2, <2>3, <2>4, <2>5
<1>4. CASE /\ main' = "close" /\ clients' = clients
           /\ (sock' = sock \/ sock' = [sock EXCEPT ![inHand] = "closed"])
  <2>1. /\ sock' \in [Client -> {"none", "backlog", "open", "closed"}]
        /\ \A c \in Client : sock'[c] \in {sock[c], "closed"}
    BY <1>4 DEF ServerTypes
  <2>2. ServerTypes'
    BY <1>1, <1>4, <2>1 DEF ServerTypes
  <2>3. MainInv'
    BY <1>0, <1>1, <1>4, <2>1, Zenon DEF MainInv, Accept, Accepted, AddClient
  <2>4. EndInv'
    BY <1>0, <1>1, <1>4, <2>1 DEF EndInv
  <2> QED
    BY <1>2, <2>2, <2>3, <2>4
<1>5. CASE main \in {"accepted", "add"} /\ main' \in {"add", "reap"} /\ UNCHANGED <<inHand, sock>>
           /\ clients' \in {clients, clients \cup {inHand}}
  <2>1. inHand \in Client /\ pc[inHand] = "none"
    BY <1>0, <1>5 DEF MainInv
  <2>2. ServerTypes'
    BY <1>1, <1>5, <2>1 DEF ServerTypes
  <2>3. MainInv'
    BY <1>0, <1>1, <1>5 DEF MainInv
  <2>4. EndInv'
    BY <1>0, <1>1, <1>5, <2>1 DEF EndInv
  <2> QED
    BY <1>2, <2>2, <2>3, <2>4
<1> QED
  BY <1>3, <1>4, <1>5 DEF Accept, Accepted, AddClient, serverVars, netVars

(* start() begins, ends, and joins the workers that have ended *)
LEMMA StartKeeps ==
    ASSUME ServerInv, UNCHANGED scenario,
           Listen \/ MainCloses \/ ShutOnMain \/ (kind = "threaded" /\ Reap)
    PROVE  ServerInv'
<1>0. ServerTypes /\ MainInv /\ Main \in Thread
  BY DEF ServerInv, Thread
<1>1. CASE Listen
  BY <1>0, <1>1, ClosingKeeps DEF Listen, poolVars, closeVars, netVars, ServerTypes, MainInv
<1>2. CASE MainCloses
  <2>1. call' \in [Thread -> ClosePlaces]
    BY <1>0, <1>2 DEF MainCloses, Enter, ServerTypes, ClosePlaces
  <2> QED
    BY <1>0, <1>2, <2>1, ClosingKeeps DEF MainCloses, serverVars, poolVars, netVars, ServerTypes
<1>3. CASE ShutOnMain
  <2>1. call' \in [Thread -> ClosePlaces] /\ call'[Main] = "none"
    BY <1>0, <1>3 DEF ShutOnMain, ServerTypes, ClosePlaces
  <2> QED
    BY <1>0, <1>3, <2>1, ClosingKeeps DEF ShutOnMain, serverVars, poolVars, netVars, ServerTypes
<1>4. CASE kind = "threaded" /\ Reap
  <2> USE DEF ServerInv
  <2>1. /\ joining' = [joining EXCEPT ![Main] = terminated] /\ terminated' = {}
        /\ main = "reap" /\ main' = "spawn"
        /\ UNCHANGED <<clients, workers, sock, call, inHand, pc, lost, scenario>>
    BY <1>4 DEF Reap, serverVars, closeVars, netVars
  <2>2. ServerTypes' /\ kind' = kind
    BY <1>0, <2>1 DEF ServerTypes, kind
  <2>3. MainInv'
    BY <1>0, <1>4, <2>1, <2>2 DEF MainInv
  <2>4. WorkerInv'
    <3>1. /\ \A c \in Client : c \in workers => c \notin terminated
          /\ \A u \in Thread : joining'[u] = IF u = Main THEN terminated ELSE joining[u]
      BY <1>0, <1>4, <2>1 DEF WorkerInv, WorkersAreAlive, Ended, Alive, ServerTypes
    <3>2. Ended' = Ended /\ {c \in Client : Alive(c)}' = {c \in Client : Alive(c)}
      BY <2>1 DEF Ended, Alive
    <3>3. terminated \subseteq Client
      BY <1>0 DEF ServerTypes
    <3> QED
      BY <1>4, <2>1, <2>2, <3>1, <3>2, <3>3 DEF WorkerInv, WorkersAreAlive
  <2>5. EndInv'
    BY <1>0, <2>1, <2>2 DEF EndInv
  <2> QED
    BY <2>2, <2>3, <2>4, <2>5
<1> QED
  BY <1>1, <1>2, <1>3, <1>4

(* the parent of a process that serves lets its client go *)
LEMMA ParentKeeps ==
    ASSUME ServerInv, Base(ParentDrops)
    PROVE  ServerInv'
<1> USE DEF ServerInv
<1>1. /\ main = "forked" /\ main' = "accept" /\ clients' = clients \ {inHand}
      /\ UNCHANGED <<sock, workers, terminated, joining, call, pc, lost, scenario>>
  BY DEF Base, ParentDrops, poolVars, closeVars, netVars
<1>2. ServerTypes' /\ kind' = kind /\ kind = "forking"
  BY <1>1 DEF ServerTypes, MainInv, kind
<1>3. MainInv'
  BY <1>1, <1>2 DEF MainInv
<1>4. WorkerInv'
  BY <1>2 DEF WorkerInv
<1>5. EndInv'
  BY <1>1, <1>2 DEF EndInv
<1> QED
  BY <1>2, <1>3, <1>4, <1>5

(* the thread of start() *)
LEMMA MainStepKeeps == ServerInv /\ KindMainStep => ServerInv'
<1> SUFFICES ASSUME ServerInv, KindMainStep PROVE ServerInv'
  OBVIOUS
<1>0. MainInv /\ ServerTypes
  BY DEF ServerInv
<1>1. CASE Base(StartStep)
  BY <1>1, AcceptKeeps, StartKeeps DEF Base, StartStep
<1>2. CASE kind = "threaded" /\ Base(Reap)
  BY <1>2, StartKeeps DEF Base
<1>3. CASE kind = "threaded" /\ Base(Spawn)
  BY <1>3, BeginningKeeps DEF Base, Spawn, serverVars, closeVars, netVars
<1>4. CASE kind # "threaded" /\ Base(SpawnGreenlet)
  BY <1>4, BeginningKeeps DEF Base, SpawnGreenlet, serverVars, poolVars, closeVars, netVars
<1>5. CASE kind # "threaded" /\ Base(ServeOnMain)
  BY <1>5, BeginningKeeps DEF Base, ServeOnMain, serverVars, poolVars, closeVars, netVars
<1>6. CASE kind # "threaded" /\ Base(Fork)
  BY <1>6, BeginningKeeps DEF Base, Fork, serverVars, poolVars, closeVars, netVars
<1>7. CASE kind # "threaded" /\ Base(ServedOnMain)
  <2>1. inHand \in Client /\ call' \in [Thread -> ClosePlaces]
    BY <1>0, <1>7 DEF Base, ServedOnMain, Enter, MainInv, ServerTypes, ClosePlaces
  <2> QED
    BY <1>7, <2>1, EndingKeeps DEF Base, ServedOnMain, Work, serverVars, poolVars, netVars
<1>8. CASE Base(ShutOnMain)
  BY <1>8, StartKeeps DEF Base
<1>9. CASE Base(ParentDrops)
  BY <1>9, ParentKeeps
<1> QED
  BY <1>1, <1>2, <1>3, <1>4, <1>5, <1>6, <1>7, <1>8, <1>9
     DEF KindMainStep, MainStep, StartStep, Base

(* whoever serves a client *)
LEMMA WorkerStepKeeps ==
    ASSUME ServerInv, NEW c \in Client, KindWorkerStep(c)
    PROVE  ServerInv'
<1>0. ServerTypes /\ MainInv /\ WorkerInv /\ EndInv
  BY DEF ServerInv
<1>1. CASE Base(Start(c))
  <2>1. CASE sock[c] = "closed" \/ peer[c] = "reset"
    <3>1. pc' = [pc EXCEPT ![c] = "finish"] /\ lost' = lost \cup {c} /\ "finish" \in WorkerPlaces
      BY <1>1, <2>1 DEF Base, Start, Work, WorkerPlaces
    <3> QED
      BY <1>1, <3>1, ServiceKeeps DEF Base, Start, serverVars, poolVars, closeVars, netVars
  <2>2. CASE ~(sock[c] = "closed" \/ peer[c] = "reset")
    <3>1. \E l \in {"auth", "serve"} : pc' = [pc EXCEPT ![c] = l] /\ lost' = lost
      BY <1>1, <2>2 DEF Base, Start, Work
    <3>2. {"auth", "serve"} \subseteq WorkerPlaces \ {"none", "end"}
      BY DEF WorkerPlaces
    <3> QED
      BY <1>1, <3>1, <3>2, ServiceKeeps DEF Base, Start, serverVars, poolVars, closeVars, netVars
  <2> QED
    BY <2>1, <2>2
<1>2. CASE Base(Authenticate(c))
  <2>1. \E l \in {"serve", "finally"} : pc' = [pc EXCEPT ![c] = l]
    BY <1>2 DEF Base, Authenticate, Work
  <2>2. {"serve", "finally"} \subseteq WorkerPlaces \ {"none", "end"}
    BY DEF WorkerPlaces
  <2> QED
    BY <1>2, <2>1, <2>2, ServiceKeeps
       DEF Base, Authenticate, serverVars, poolVars, closeVars, netVars
<1>3. CASE Base(ServeEnds(c))
  <2>1. pc' = [pc EXCEPT ![c] = "finally"] /\ "finally" \in WorkerPlaces
    BY <1>3 DEF Base, ServeEnds, Work, WorkerPlaces
  <2> QED
    BY <1>3, <2>1, ServiceKeeps DEF Base, ServeEnds, serverVars, poolVars, closeVars
<1>4. CASE Base(FinallyCloses(c))
  <2>1. pc' = [pc EXCEPT ![c] = "discard"] /\ "discard" \in WorkerPlaces /\ sock'[c] = "closed"
    BY <1>0, <1>4 DEF Base, FinallyCloses, Work, WorkerPlaces, ServerTypes
  <2> QED
    BY <1>4, <2>1, ServiceKeeps DEF Base, FinallyCloses, serverVars, poolVars, closeVars
<1>5. CASE Base(Discard(c))
  <2>1. pc' = [pc EXCEPT ![c] = "finish"] /\ "finish" \in WorkerPlaces
    BY <1>5 DEF Base, Discard, Work, WorkerPlaces
  <2>2. c \notin lost => sock[c] = "closed"
    BY <1>0, <1>5 DEF Base, Discard, EndInv
  <2> QED
    BY <1>5, <2>1, <2>2, ServiceKeeps DEF Base, Discard, poolVars, closeVars, netVars
<1>6. CASE kind = "threaded" /\ Base(Finish(c))
  BY <1>0, <1>6, EndingKeeps DEF Base, Finish, Work, serverVars, closeVars, netVars, ServerTypes
<1>7. CASE kind # "threaded" /\ Base(GreenletEnds(c))
  BY <1>0, <1>7, EndingKeeps
     DEF Base, GreenletEnds, Work, serverVars, poolVars, closeVars, netVars, ServerTypes
<1>8. CASE kind = "forking" /\ ChildExits(c)
  BY <1>0, <1>8, EndingKeeps
     DEF ChildExits, Work, serverVars, poolVars, closeVars, ServerTypes
<1> QED
  BY <1>1, <1>2, <1>3, <1>4, <1>5, <1>6, <1>7, <1>8
     DEF KindWorkerStep, WorkerStep, ServeStep, Base

(* nothing has been accepted at first *)
LEMMA ServerInit == KindInit => ServerInv
<1> SUFFICES ASSUME KindInit PROVE ServerInv
  OBVIOUS
<1>1. ServerTypes
  BY DEF KindInit, Init, ServerTypes, WorkerPlaces, ClosePlaces
<1>2. MainInv
  BY DEF KindInit, Init, MainInv, Thread
<1>3. WorkerInv
  BY DEF KindInit, Init, WorkerInv, WorkersAreAlive, Alive, Ended
<1>4. EndInv
  BY DEF KindInit, Init, EndInv
<1> QED
  BY <1>1, <1>2, <1>3, <1>4 DEF ServerInv

(* every step of every kind of server *)
LEMMA ServerStep == ServerInv /\ [KindNext]_kindVars => ServerInv'
<1> SUFFICES ASSUME ServerInv, [KindNext]_kindVars PROVE ServerInv'
  OBVIOUS
<1>1. CASE KindMainStep
  BY <1>1, MainStepKeeps
<1>2. CASE HandleSigchld \/ UNCHANGED kindVars
  <2>1. UNCHANGED <<vars, scenario>>
    BY <1>2 DEF HandleSigchld, kindVars
  <2> QED
    BY <2>1 DEF vars, serverVars, poolVars, closeVars, netVars, ServerInv, ServerTypes, MainInv,
                WorkerInv, WorkersAreAlive, Alive, Ended, EndInv, kind
<1>3. CASE \E t \in Thread : KindCloseStep(t)
  BY <1>3, CloseStepKeeps
<1>4. CASE \/ \E u \in scenario.users : Base(UserCloses(u))
           \/ \E c \in Client : Base(Disconnect(c)) \/ Base(ServiceCloses(c))
  BY <1>4, CallKeeps DEF Base, UserCloses
<1>5. CASE \E c \in Client : KindWorkerStep(c)
  BY <1>5, WorkerStepKeeps
<1>6. CASE \E c \in scenario.clients : Base(Connect(c))
  <2>1. PICK c \in scenario.clients : Base(Connect(c))
    BY <1>6
  <2>2. c \in Client
    BY ServerKindsAssumption DEF ServerInv, ServerTypes
  <2> QED
    BY <2>1, <2>2, ConnectKeeps
<1> QED
  BY <1>1, <1>2, <1>3, <1>4, <1>5, <1>6 DEF KindNext

(* __workers of a ThreadedServer is exactly the workers that run, whoever calls
   close() meanwhile, and one that has ended is joined by one thread only. *)
THEOREM WorkersAreWhatRuns == KindSpec => []ThreadedWorkersAreAlive
<1>1. ServerInv => ThreadedWorkersAreAlive
  BY DEF ServerInv, WorkerInv, ThreadedWorkersAreAlive
<1> QED
  BY <1>1, ServerInit, ServerStep, PTL DEF KindSpec

(* Whoever has served a client, on a thread, in a greenlet or in a process, leaves
   neither an open socket nor an entry in clients behind, unless getpeername() raised. *)
THEOREM NothingIsLeft == KindSpec => []EndedLeavesNothing
<1>1. ServerInv => EndedLeavesNothing
  BY DEF ServerInv, EndInv, EndedLeavesNothing
<1> QED
  BY <1>1, ServerInit, ServerStep, PTL DEF KindSpec
=============================================================================
