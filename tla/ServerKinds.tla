---------------------------- MODULE ServerKinds ----------------------------
(***************************************************************************)
(* The servers of rpyc/utils/server.py that share start(), accept() and    *)
(* close() of Server and differ in what they do with an accepted client:   *)
(* ThreadedServer starts a worker, GeventServer a greenlet that nobody     *)
(* waits for, OneShotServer serves it on the thread of start() and then    *)
(* closes itself, ForkingServer serves it in a child process.              *)
(*                                                                         *)
(* A child has copies of clients, of active and of _closed, and the only   *)
(* state it shares with its parent is the connection: its server is gone   *)
(* for the parent once the listener it inherited is closed, so a close()   *)
(* that its service calls there has no effect on anything modelled here.   *)
(***************************************************************************)
EXTENDS ThreadedServer

CONSTANT Scenario  \* bound: kinds of servers, the clients that connect and the users
                   \* that call close()

ASSUME ServerKindsAssumption ==
    Scenario \subseteq [kind : {"threaded", "gevent", "oneshot", "forking"},
                        clients : SUBSET Client, users : SUBSET User]

VARIABLES
    scenario, \* the class of the server and who takes part, chosen initially
    handler,  \* ForkingServer: SIGCHLD is handled by _handle_sigchld
    pending,  \* a SIGCHLD has been sent and not been handled: signals do not count
    zombies   \* children that have ended and have not been waited for

kind == scenario.kind

childVars == <<handler, pending, zombies>>
kindVars == <<vars, scenario, childVars>>

KindInit ==
    /\ Init
    /\ scenario \in Scenario
    /\ handler = (kind = "forking") /\ pending = FALSE /\ zombies = {}

Base(step) == step /\ UNCHANGED <<scenario, childVars>>

-----------------------------------------------------------------------------
(* GeventServer._accept_method *)

SpawnGreenlet ==
    /\ kind = "gevent" /\ main = "reap"
    /\ pc' = [pc EXCEPT ![inHand] = "start"]
    /\ inHand' = NoClient
    /\ main' = "accept"
    /\ UNCHANGED <<serverVars, poolVars, closeVars, netVars, lost>>

GreenletEnds(c) ==
    /\ kind = "gevent" /\ pc[c] = "finish"
    /\ Work(c, "end")
    /\ UNCHANGED <<serverVars, poolVars, closeVars, netVars, main, inHand, lost>>

-----------------------------------------------------------------------------
(* OneShotServer._accept_method *)

ServeOnMain ==
    /\ kind = "oneshot" /\ main = "reap"
    /\ pc' = [pc EXCEPT ![inHand] = "start"]
    /\ main' = "serving"
    /\ UNCHANGED <<serverVars, poolVars, closeVars, netVars, inHand, lost>>

(* mutant: start() goes on to the next client *)
ServedOnMainGoesOn ==
    /\ main = "serving" /\ pc[inHand] = "finish"
    /\ Work(inHand, "end")
    /\ inHand' = NoClient
    /\ main' = "accept"
    /\ UNCHANGED <<serverVars, poolVars, closeVars, netVars, lost>>

(* finally: self.close() *)
ServedOnMain ==
    /\ main = "serving" /\ pc[inHand] = "finish"
    /\ Work(inHand, "end")
    /\ inHand' = NoClient
    /\ main' = "shutting"
    /\ Enter(Main)
    /\ UNCHANGED <<serverVars, poolVars, todo, netVars, lost>>

(* back in start(), whose loop ends and which calls close() once more *)
ShutOnMain ==
    /\ main = "shutting" /\ call[Main] = "wait"
    /\ call' = [call EXCEPT ![Main] = "none"]
    /\ main' = "accept"
    /\ UNCHANGED <<serverVars, poolVars, todo, netVars, inHand, pc, lost>>

-----------------------------------------------------------------------------
(* ForkingServer._accept_method: parent and child *)

Fork ==
    /\ kind = "forking" /\ main = "reap"
    /\ pc' = [pc EXCEPT ![inHand] = "start"]
    /\ main' = "forked"
    /\ UNCHANGED <<serverVars, poolVars, closeVars, netVars, inHand, lost>>

(* the parent closes its own descriptor, the connection stays *)
ParentDrops ==
    /\ main = "forked"
    /\ clients' = clients \ {inHand}
    /\ inHand' = NoClient
    /\ main' = "accept"
    /\ UNCHANGED <<active, closed, listener, poolVars, closeVars, netVars, pc, lost>>

(* os._exit(0); what the child did to clients it did to its own copy *)
ChildExits(c) ==
    /\ pc[c] \in {"discard", "finish"}
    /\ Work(c, "end")
    /\ pending' = TRUE
    /\ zombies' = zombies \cup {c}
    /\ sock' = [sock EXCEPT ![c] = "closed"]
    /\ UNCHANGED <<serverVars, poolVars, closeVars, peer, main, inHand, lost, scenario, handler>>

(* mutant: one child for each signal *)
HandleOneChild ==
    /\ handler /\ pending
    /\ pending' = FALSE
    /\ \/ zombies = {} /\ UNCHANGED zombies
       \/ \E c \in zombies : zombies' = zombies \ {c}
    /\ UNCHANGED <<vars, scenario, handler>>

(* _handle_sigchld, on the main thread: waitpid for every child that has ended *)
HandleSigchld ==
    /\ handler /\ pending
    /\ pending' = FALSE
    /\ zombies' = {}
    /\ UNCHANGED <<vars, scenario, handler>>

-----------------------------------------------------------------------------
(* the end of close(): a ForkingServer restores the former handler, which
   raises ValueError on every thread but the main one *)
BaseCloseReturns(t) ==
    /\ call[t] = "wait"
    /\ t = Main => main # "shutting"
    /\ CloseReturns(t)
    /\ handler' = (handler /\ t # Main)
    /\ UNCHANGED <<serverVars, poolVars, todo, netVars, inHand, pc, lost, scenario, pending, zombies>>

-----------------------------------------------------------------------------
KindMainStep ==
    IF kind = "threaded" THEN Base(MainStep)
    ELSE Base(\/ StartStep \/ SpawnGreenlet \/ ServeOnMain \/ ServedOnMain \/ ShutOnMain
              \/ Fork \/ ParentDrops)

KindCloseStep(t) ==
    IF kind = "threaded" THEN Base(CloseStep(t))
    ELSE Base(BaseCloseStep(t)) \/ BaseCloseReturns(t)

KindWorkerStep(c) ==
    CASE kind = "threaded" -> Base(WorkerStep(c))
      [] kind = "forking"  -> Base(ServeStep(c)) \/ ChildExits(c)
      [] OTHER             -> Base(ServeStep(c) \/ Discard(c) \/ GreenletEnds(c))

KindNext ==
    \/ KindMainStep \/ HandleSigchld
    \/ \E t \in Thread : KindCloseStep(t)
    \/ \E u \in scenario.users : Base(UserCloses(u))
    \/ \E c \in Client : KindWorkerStep(c) \/ Base(Disconnect(c))
    \/ \E c \in scenario.clients : Base(Connect(c))
    \/ \E c \in Client : kind # "forking" /\ Base(ServiceCloses(c))

(* Every thread and process that can run is scheduled; clients owe nothing. *)
KindFairness ==
    /\ WF_kindVars(KindMainStep) /\ WF_kindVars(HandleSigchld)
    /\ \A t \in Thread : WF_kindVars(KindCloseStep(t))
    /\ \A c \in Client : WF_kindVars(KindWorkerStep(c))

KindSpec == KindInit /\ [][KindNext]_kindVars /\ KindFairness

-----------------------------------------------------------------------------
(* __workers of a ThreadedServer is exactly the workers that run, so close()
   never waits for a worker that is gone; one that has ended is joined by
   exactly one thread. *)
ThreadedWorkersAreAlive == kind = "threaded" => WorkersAreAlive

(* Whoever has served a client leaves nothing behind when it ends: the socket is
   closed and no longer in clients, unless getpeername() raised before the try. *)
EndedLeavesNothing ==
    \A c \in Client : pc[c] = "end" /\ c \notin lost =>
        /\ sock[c] = "closed"
        /\ main # "forked" => c \notin clients

(* close() returns to every caller, a service's worker included, and start()
   ends once it has returned to one, whoever is still being served.  The start()
   of a OneShotServer, which "terminates after that", ends when it has served a
   client, one that accept() took while close() copied clients included. *)
ClosesEnd ==
    <>[](/\ \A t \in Thread : call[t] \in {"none", "end"}
         /\ (\E t \in User : call[t] = "end") => main \in {"end", "serving"}
         /\ (kind = "oneshot" /\ \E c \in Client : pc[c] = "end") => main = "end")

(* No child of a ForkingServer stays a zombie, although two that end together
   may send one signal, until close() has taken the handler away. *)
ChildrenAreReaped == <>[](handler => zombies = {})
=============================================================================
