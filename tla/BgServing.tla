------------------------------ MODULE BgServing ------------------------------
(***************************************************************************)
(* BgServingThread (rpyc/utils/helpers.py): a thread that serves a         *)
(* connection in the background, paused, resumed and stopped by other      *)
(* threads and by the handlers it runs itself.                             *)
(*                                                                         *)
(* All of it happens under one condition; its lock is released by a wait   *)
(* and while the thread serves, so a step is what a thread does between    *)
(* two of those.  serve() is the one of Connection: it returns after a     *)
(* message, or when notify() finds its predicate true.                     *)
(***************************************************************************)
EXTENDS Integers

CONSTANTS User,       \* threads that may call pause, resume and stop
          MayPause,   \* users that call pause
          MayResume,  \* users that call resume
          MayStop,    \* users that call stop
          MaxCalls,   \* bound: calls of users and handlers
          HandlerCalls, \* what a handler may call: subset of {"pause", "resume", "stop"}
          Active      \* the argument active of the constructor

ASSUME BgServingAssumption ==
    /\ MayPause \subseteq User /\ MayResume \subseteq User /\ MayStop \subseteq User
    /\ MaxCalls \in Nat /\ Active \in BOOLEAN
    /\ "bg" \notin User

VARIABLES
    bg,        \* where the serving thread is
    pc,        \* where each user is
    waiters,   \* who waits on __condition and has not been notified
    terminate, \* __terminate
    depth,     \* __depth
    running,   \* __running
    thread,    \* __thread is not None
    kicked,    \* conn.notify() has been called since serve() blocked
    calls      \* number of calls made

vars == <<bg, pc, waiters, terminate, depth, running, thread, kicked, calls>>

Init ==
    /\ bg = "loop"
    /\ pc = [u \in User |-> "idle"]
    /\ waiters = {}
    /\ terminate = FALSE
    /\ depth = IF Active THEN 1 ELSE 0
    /\ running = TRUE
    /\ thread = TRUE
    /\ kicked = FALSE
    /\ calls = 0

Goto(u, l) == pc' = [pc EXCEPT ![u] = l]

(* notify_all, then a wait_for that is not over yet *)
NotifyAndWait(u) == waiters' = {u}
Wait(u) == waiters' = waiters \cup {u}
NotifyAll == waiters' = {}

-----------------------------------------------------------------------------
(* _bg_server *)

(* its finally *)
End ==
    /\ bg' = "end"
    /\ terminate' = TRUE /\ running' = FALSE /\ depth' = 0
    /\ NotifyAll

BgLoop ==
    /\ bg = "loop"
    /\ \/ /\ terminate
          /\ End
       \/ /\ ~terminate /\ depth > 0
          /\ bg' = "enter"
          /\ UNCHANGED <<waiters, terminate, depth, running>>
       \/ /\ ~terminate /\ depth = 0
          /\ bg' = "wait"
          /\ running' = FALSE
          /\ NotifyAndWait("bg")
          /\ UNCHANGED <<terminate, depth>>
    /\ UNCHANGED <<pc, thread, kicked, calls>>

BgWoken ==
    /\ bg = "wait" /\ "bg" \notin waiters
    /\ \/ /\ terminate
          /\ End
       \/ /\ ~terminate /\ depth > 0
          /\ bg' = "enter"
          /\ running' = TRUE
          /\ NotifyAll
          /\ UNCHANGED <<terminate, depth>>
       \/ /\ ~terminate /\ depth = 0
          /\ Wait("bg")
          /\ UNCHANGED <<bg, terminate, depth, running>>
    /\ UNCHANGED <<pc, thread, kicked, calls>>

(* mutant: serve() is called without the predicate *)
ServeEnterBlind ==
    /\ bg = "enter"
    /\ bg' = "blocked" /\ kicked' = FALSE
    /\ UNCHANGED <<pc, waiters, terminate, depth, running, thread, calls>>

(* serve(predicate=_terminate_or_pause): the predicate is evaluated first *)
ServeEnter ==
    /\ bg = "enter"
    /\ IF terminate \/ depth = 0
         THEN bg' = "loop" /\ UNCHANGED kicked
         ELSE bg' = "blocked" /\ kicked' = FALSE
    /\ UNCHANGED <<pc, waiters, terminate, depth, running, thread, calls>>

ServeNotified ==
    /\ bg = "blocked" /\ kicked
    /\ bg' = "loop"
    /\ UNCHANGED <<pc, waiters, terminate, depth, running, thread, kicked, calls>>

(* a request of the peer is dispatched *)
ServeRequest ==
    /\ bg = "blocked"
    /\ bg' = "handler"
    /\ UNCHANGED <<pc, waiters, terminate, depth, running, thread, kicked, calls>>

HandlerReturns ==
    /\ bg = "handler"
    /\ bg' = "loop"
    /\ UNCHANGED <<pc, waiters, terminate, depth, running, thread, kicked, calls>>

(* serve raises, EOFError for one; the exception goes to the callback *)
ServeRaises ==
    /\ bg = "blocked"
    /\ End
    /\ UNCHANGED <<pc, thread, kicked, calls>>

(* pause, resume and stop of the serving thread itself never wait *)
HandlerPauses ==
    /\ bg = "handler" /\ "pause" \in HandlerCalls /\ calls < MaxCalls
    /\ ~terminate /\ depth > 0
    /\ depth' = depth - 1
    /\ calls' = calls + 1
    /\ UNCHANGED <<bg, pc, waiters, terminate, running, thread, kicked>>

HandlerResumes ==
    /\ bg = "handler" /\ "resume" \in HandlerCalls /\ calls < MaxCalls
    /\ ~terminate
    /\ depth' = depth + 1
    /\ calls' = calls + 1
    /\ UNCHANGED <<bg, pc, waiters, terminate, running, thread, kicked>>

HandlerStops ==
    /\ bg = "handler" /\ "stop" \in HandlerCalls /\ calls < MaxCalls
    /\ terminate' = TRUE
    /\ calls' = calls + 1
    /\ UNCHANGED <<bg, pc, waiters, depth, running, thread, kicked>>

-----------------------------------------------------------------------------
(* pause *)

CallOf(u, may) == u \in may /\ pc[u] = "idle" /\ calls < MaxCalls /\ calls' = calls + 1

(* mutant: the connection is not notified *)
PauseSilently(u) ==
    /\ CallOf(u, MayPause) /\ ~terminate /\ depth > 0
    /\ depth' = depth - 1
    /\ IF depth = 1 /\ running
         THEN NotifyAndWait(u) /\ Goto(u, "pausing")
         ELSE UNCHANGED <<waiters, pc>>
    /\ UNCHANGED <<bg, terminate, running, thread, kicked>>

(* mutant: pause does not wait for the serving thread *)
PauseNoWait(u) ==
    /\ CallOf(u, MayPause) /\ ~terminate /\ depth > 0
    /\ depth' = depth - 1
    /\ IF depth = 1 THEN kicked' = TRUE /\ NotifyAll ELSE UNCHANGED <<kicked, waiters>>
    /\ UNCHANGED <<bg, pc, terminate, running, thread>>

Pause(u) ==
    /\ CallOf(u, MayPause) /\ ~terminate /\ depth > 0
    /\ depth' = depth - 1
    /\ IF depth = 1
         THEN /\ kicked' = TRUE
              /\ IF running THEN NotifyAndWait(u) /\ Goto(u, "pausing")
                            ELSE NotifyAll /\ UNCHANGED pc
         ELSE UNCHANGED <<waiters, kicked, pc>>
    /\ UNCHANGED <<bg, terminate, running, thread>>

PauseWoken(u) ==
    /\ pc[u] = "pausing" /\ u \notin waiters
    /\ IF terminate \/ ~running
         THEN Goto(u, "idle") /\ UNCHANGED waiters
         ELSE Wait(u) /\ UNCHANGED pc
    /\ UNCHANGED <<bg, terminate, depth, running, thread, kicked, calls>>

-----------------------------------------------------------------------------
(* resume: after a pause that is still under way it waits for its end *)

DeepenAndWait(u) ==
    /\ depth' = depth + 1
    /\ IF running THEN Goto(u, "idle") /\ UNCHANGED waiters
                  ELSE Goto(u, "resuming") /\ NotifyAndWait(u)

Resume(u) ==
    /\ CallOf(u, MayResume) /\ ~terminate
    /\ IF depth = 0 /\ running
         THEN Goto(u, "unpausing") /\ Wait(u) /\ UNCHANGED depth
         ELSE DeepenAndWait(u)
    /\ UNCHANGED <<bg, terminate, running, thread, kicked>>

ResumeProceeds(u) ==
    /\ pc[u] = "unpausing" /\ u \notin waiters
    /\ CASE terminate -> Goto(u, "idle") /\ UNCHANGED <<waiters, depth>>
         [] ~terminate /\ running -> Wait(u) /\ UNCHANGED <<pc, depth>>
         [] OTHER -> DeepenAndWait(u)
    /\ UNCHANGED <<bg, terminate, running, thread, kicked, calls>>

ResumeWoken(u) ==
    /\ pc[u] = "resuming" /\ u \notin waiters
    /\ IF terminate \/ running
         THEN Goto(u, "idle") /\ UNCHANGED waiters
         ELSE Wait(u) /\ UNCHANGED pc
    /\ UNCHANGED <<bg, terminate, depth, running, thread, kicked, calls>>

-----------------------------------------------------------------------------
(* stop: the first one joins the thread *)

Stop(u) ==
    /\ CallOf(u, MayStop)
    /\ terminate' = TRUE
    /\ IF terminate THEN UNCHANGED <<waiters, kicked>> ELSE NotifyAll /\ kicked' = TRUE
    /\ Goto(u, IF thread THEN "joining" ELSE "idle")
    /\ thread' = FALSE
    /\ UNCHANGED <<bg, depth, running>>

StopJoined(u) ==
    /\ pc[u] = "joining" /\ bg = "end"
    /\ Goto(u, "idle")
    /\ UNCHANGED <<bg, waiters, terminate, depth, running, thread, kicked, calls>>

-----------------------------------------------------------------------------
BgStep ==
    \/ BgLoop \/ BgWoken \/ ServeEnter \/ ServeNotified \/ HandlerReturns

UserStep(u) ==
    PauseWoken(u) \/ ResumeProceeds(u) \/ ResumeWoken(u) \/ StopJoined(u)

Next ==
    \/ BgStep
    \/ ServeRequest \/ ServeRaises \/ HandlerPauses \/ HandlerResumes \/ HandlerStops
    \/ \E u \in User : UserStep(u) \/ Pause(u) \/ Resume(u) \/ Stop(u)

Spec == Init /\ [][Next]_vars

(* Threads are scheduled and handlers return; nobody has to call anything,
   and the peer has to send nothing. *)
FairSpec == Spec /\ WF_vars(BgStep) /\ \A u \in User : WF_vars(UserStep(u))

-----------------------------------------------------------------------------
FlagTypeOK ==
    /\ terminate \in BOOLEAN /\ running \in BOOLEAN
    /\ thread \in BOOLEAN /\ kicked \in BOOLEAN

PositionTypeOK ==
    /\ bg \in {"loop", "enter", "blocked", "handler", "wait", "end"}
    /\ pc \in [User -> {"idle", "pausing", "unpausing", "resuming", "joining"}]
    /\ waiters \subseteq User \cup {"bg"}
    /\ depth \in Nat /\ calls \in Nat

(* Types of the flags and of the threads' positions. *)
TypeOK == FlagTypeOK /\ PositionTypeOK

(* When every pause() has returned, without an exception, and nobody has
   resumed, the background thread is not taking messages off the connection. *)
PausedIsQuiet ==
    depth = 0 /\ ~terminate /\ (\A u \in User : pc[u] # "pausing") => bg # "blocked"

(* The thread does not sleep in serve() on a pause or a stop it has not been
   told of. *)
ServeIsWoken == bg = "blocked" /\ (terminate \/ depth = 0) => kicked

(* the call waits for the thread to pause, or to run, and another call has
   already had the contrary *)
TakenBack(u) ==
    \/ pc[u] \in {"pausing", "unpausing"} /\ depth > 0
    \/ pc[u] = "resuming" /\ depth = 0

(* Every call of pause, resume or stop returns, unless it is taken back before
   the thread acts on it: that one waits until the thread changes once more. *)
CallsReturn == \A u \in User : pc[u] # "idle" ~> pc[u] = "idle" \/ TakenBack(u)
=============================================================================
