------------------------------ MODULE Registry ------------------------------
(***************************************************************************)
(* The registry (rpyc/utils/registry.py) and the RPyC servers that         *)
(* register with it (Server._bg_register and Server.close).                *)
(*                                                                         *)
(* A server sends REGISTER, waits for the reply and does so again when the *)
(* interval is over, or soon when nobody replied.  close() is called by    *)
(* start() when it ends, and by users beside it: the first joins that      *)
(* thread, and each sends UNREGISTER, which nobody acknowledges.  Datagrams*)
(* may be lost, and delayed and duplicated.  The clock ticks once per      *)
(* REREGISTER_INTERVAL; ages above the pruning timeout are all alike.      *)
(***************************************************************************)
EXTENDS Integers, Sequences, FiniteSets

CONSTANTS Server,    \* addresses of servers
          Name,      \* names of services
          Aliases,   \* [Server -> SUBSET Name]
          Prune,     \* the pruning timeout, in intervals
          MaxMissed, \* bound: intervals in a row in which no REGISTER gets through
          MaxStarts, \* bound: starts of a server
          MaxNet,    \* bound: datagrams of a server under way
          Closer,    \* callers of close(): start() at its end, and users
          ClosedBy,  \* bound: [Server -> SUBSET Closer], those of a server
          MayBreak,  \* somebody may send a command that is not a str
          MayLose,   \* datagrams may be lost
          MayDelay   \* datagrams may be overtaken and duplicated

ASSUME RegistryAssumption ==
    /\ Aliases \in [Server -> SUBSET Name]
    /\ Prune \in Nat /\ MaxMissed \in Nat /\ MaxStarts \in Nat /\ MaxNet \in Nat
    /\ ClosedBy \in [Server -> SUBSET Closer]
    /\ MayLose \in BOOLEAN /\ MayDelay \in BOOLEAN /\ MayBreak \in BOOLEAN

Absent == -1
Stale  == Prune + 1

Entry == Name \X Server

VARIABLES
    services, \* the age of each entry of self.services, or Absent
    view,     \* what a subclass knows from on_service_added and on_service_removed
    work,     \* where the thread of the registry is
    active,   \* self.active of each server
    thread,   \* where its registration thread is
    due,      \* t >= tnext, of a server that runs
    closing,  \* where each close() of it is
    starts,   \* how often it was started
    missed,   \* intervals since a REGISTER was acknowledged, while it runs
    acked,    \* history: acknowledged since its start, while it runs
    ack,      \* a reply to the pending REGISTER is there
    net       \* datagrams of each server to the registry

registryVars == <<services, view, work>>
serverVars   == <<active, thread, due, closing, starts, missed, acked>>
vars == <<registryVars, serverVars, ack, net>>

Init ==
    /\ services = [e \in Entry |-> Absent] /\ view = {} /\ work = "accept"
    /\ active = [s \in Server |-> FALSE] /\ thread = [s \in Server |-> "none"]
    /\ due = [s \in Server |-> FALSE]
    /\ closing = [s \in Server |-> [k \in Closer |-> "no"]]
    /\ starts = [s \in Server |-> 0] /\ missed = [s \in Server |-> 0]
    /\ acked = [s \in Server |-> FALSE] /\ ack = [s \in Server |-> FALSE]
    /\ net = [s \in Server |-> <<>>]

-----------------------------------------------------------------------------
(* the registry *)

Registered == {e \in Entry : services[e] # Absent}
Names == {e[1] : e \in Registered}

(* _add_service for every name; a new entry is announced *)
CmdRegister(s) ==
    LET new == {<<n, s>> : n \in Aliases[s]} IN
    /\ services' = [e \in Entry |-> IF e \in new THEN 0 ELSE services[e]]
    /\ view' = view \cup (new \ Registered)

(* _remove_service of a set of entries; each removal is announced *)
Remove(gone) ==
    /\ services' = [e \in Entry |-> IF e \in gone THEN Absent ELSE services[e]]
    /\ view' = view \ gone

(* every name the registry knows, whoever has it *)
CmdUnregister(s) == Remove({<<n, s>> : n \in Names})

(* mutant: stale entries are not returned, but kept *)
QueryKeeps(n) == n \in Names /\ UNCHANGED vars

(* mutant: the removal of a stale entry is not announced *)
QuerySilently(n) ==
    /\ services' = [e \in Entry |-> IF e[1] = n /\ services[e] = Stale THEN Absent ELSE services[e]]
    /\ UNCHANGED <<view, work, serverVars, ack, net>>

(* cmd_query: stale entries of the name are dropped, the others returned *)
Query(n) ==
    /\ work = "accept" /\ n \in Names
    /\ Remove({e \in Registered : e[1] = n /\ services[e] = Stale})
    /\ UNCHANGED <<work, serverVars, ack, net>>

(* cmd.lower() of what is no str raises outside the try blocks of _work: it ends, and
   start() with it *)
CommandBreaks ==
    /\ MayBreak /\ work # "end"
    /\ work' = "end"
    /\ UNCHANGED <<services, view, serverVars, ack, net>>

Found(n) == {s \in Server : services[<<n, s>>] \in 0 .. Prune}

-----------------------------------------------------------------------------
(* the network *)

(* the reply to a REGISTER, which is not sent again when it is lost *)
Acknowledge(s) ==
    \/ ack' = [ack EXCEPT ![s] = TRUE]
    \/ MayLose /\ UNCHANGED ack

Receive(s, i, rest) ==
    /\ work = "accept"
    /\ net' = [net EXCEPT ![s] = rest]
    /\ IF net[s][i] = "REGISTER"
         THEN CmdRegister(s) /\ Acknowledge(s)
         ELSE /\ IF net[s][i] = "OUTDATED" THEN CmdRegister(s) ELSE CmdUnregister(s)
              /\ UNCHANGED ack
    /\ UNCHANGED <<work, serverVars>>

Without(q, i) == [j \in 1 .. Len(q) - 1 |-> q[IF j < i THEN j ELSE j + 1]]

Deliver(s) == net[s] # <<>> /\ Receive(s, 1, Tail(net[s]))

DeliverLate(s) ==
    /\ MayDelay
    /\ \E i \in DOMAIN net[s] : Receive(s, i, Without(net[s], i)) \/ Receive(s, i, net[s])

(* the socket of the registry is closed: nobody receives what is sent to it *)
Discard(s) ==
    /\ work = "end" /\ net[s] # <<>>
    /\ net' = [net EXCEPT ![s] = Tail(@)]
    /\ UNCHANGED <<registryVars, serverVars, ack>>

Lose(s) ==
    /\ MayLose
    /\ \E i \in DOMAIN net[s] : net' = [net EXCEPT ![s] = Without(@, i)]
    /\ UNCHANGED <<registryVars, serverVars, ack>>

(* register() ends, and closes the socket: nobody hears a reply any more *)
SocketClosed(s) ==
    net' = [net EXCEPT ![s] = [i \in DOMAIN @ |-> IF @[i] = "REGISTER" THEN "OUTDATED" ELSE @[i]]]

Post(s, m) == Len(net[s]) < MaxNet /\ net' = [net EXCEPT ![s] = Append(@, m)]

-----------------------------------------------------------------------------
(* Server: start() and _bg_register *)

(* all its close() calls have sent their UNREGISTER *)
IsClosed(s) ==
    /\ \E k \in Closer : closing[s][k] = "end"
    /\ \A k \in Closer : closing[s][k] \in {"no", "end"}

(* a server is started at the address of a former one when that is gone *)

Start(s) ==
    /\ starts[s] < MaxStarts
    /\ starts[s] = 0 \/ IsClosed(s)
    /\ starts' = [starts EXCEPT ![s] = @ + 1]
    /\ active' = [active EXCEPT ![s] = TRUE]
    /\ closing' = [closing EXCEPT ![s] = [k \in Closer |-> "no"]]
    /\ thread' = [thread EXCEPT ![s] = "loop"]
    /\ due' = [due EXCEPT ![s] = TRUE]
    /\ missed' = [missed EXCEPT ![s] = 0] /\ acked' = [acked EXCEPT ![s] = FALSE]
    /\ UNCHANGED <<registryVars, ack, net>>

BgLoop(s) ==
    /\ thread[s] = "loop" /\ (due[s] \/ ~active[s])
    /\ thread' = [thread EXCEPT ![s] = IF active[s] THEN "send" ELSE "end"]
    /\ UNCHANGED <<registryVars, active, due, closing, starts, missed, acked, ack, net>>

BgSend(s) ==
    /\ thread[s] = "send"
    /\ Post(s, "REGISTER")
    /\ thread' = [thread EXCEPT ![s] = "await"]
    /\ UNCHANGED <<registryVars, active, due, closing, starts, missed, acked, ack>>

(* mutant: the attempt counts whether it was acknowledged or not *)
BgTimeoutDone(s) ==
    /\ thread[s] = "await" /\ ~ack[s]
    /\ thread' = [thread EXCEPT ![s] = "loop"]
    /\ due' = [due EXCEPT ![s] = FALSE]
    /\ missed' = [missed EXCEPT ![s] = 0]
    /\ SocketClosed(s)
    /\ UNCHANGED <<registryVars, active, closing, starts, acked, ack>>

(* did_register: tnext = t + interval *)
BgAcknowledged(s) ==
    /\ thread[s] = "await" /\ ack[s]
    /\ thread' = [thread EXCEPT ![s] = "loop"]
    /\ due' = [due EXCEPT ![s] = FALSE]
    /\ missed' = [missed EXCEPT ![s] = 0] /\ acked' = [acked EXCEPT ![s] = active[s]]
    /\ ack' = [ack EXCEPT ![s] = FALSE] /\ SocketClosed(s)
    /\ UNCHANGED <<registryVars, active, closing, starts>>

(* no registry acknowledged: again soon *)
BgTimeout(s) ==
    /\ thread[s] = "await" /\ ~ack[s]
    /\ thread' = [thread EXCEPT ![s] = "loop"]
    /\ SocketClosed(s)
    /\ UNCHANGED <<registryVars, active, due, closing, starts, missed, acked, ack>>

-----------------------------------------------------------------------------
(* Server.close *)

(* The first of them takes the registration thread to join it: self.register_thread
   is None for the others, which do not wait.  A call returns at once if another has
   come to its end and set _closed, which is some time after its UNREGISTER. *)
Close(s, k) ==
    /\ k \in ClosedBy[s] /\ starts[s] # 0 /\ closing[s][k] = "no"
    /\ active' = [active EXCEPT ![s] = FALSE]
    /\ closing' = [closing EXCEPT ![s][k] =
                      IF \A c \in Closer : closing[s][c] = "no" THEN "join" ELSE "send"]
    /\ due' = [due EXCEPT ![s] = FALSE]
    /\ missed' = [missed EXCEPT ![s] = 0] /\ acked' = [acked EXCEPT ![s] = FALSE]
    /\ UNCHANGED <<registryVars, thread, starts, ack, net>>

(* mutant: the registration thread is not joined *)
UnregisterAtOnce(s, k) ==
    /\ closing[s][k] \in {"join", "send"}
    /\ Post(s, "UNREGISTER")
    /\ closing' = [closing EXCEPT ![s][k] = "end"]
    /\ UNCHANGED <<registryVars, active, thread, due, starts, missed, acked, ack>>

(* register_thread.join(), of the one that has it *)
MayUnregister(s, k) ==
    closing[s][k] = "send" \/ (closing[s][k] = "join" /\ thread[s] = "end")

Unregister(s, k) ==
    /\ MayUnregister(s, k)
    /\ Post(s, "UNREGISTER")
    /\ closing' = [closing EXCEPT ![s][k] = "end"]
    /\ UNCHANGED <<registryVars, active, thread, due, starts, missed, acked, ack>>

-----------------------------------------------------------------------------
(* Ages beyond Prune are one value: nothing tells them apart. *)
Older(a) == IF a \in {Absent, Stale} THEN a ELSE a + 1

(* An interval goes by.  register() waits much shorter than that for its reply;
   a server that runs has failed to register for at most MaxMissed intervals. *)
Tick ==
    /\ \A s \in Server : thread[s] \notin {"send", "await"}
    /\ \A s \in Server : active[s] /\ due[s] => missed[s] < MaxMissed
    /\ services' = [e \in Entry |-> Older(services[e])]
    /\ missed' = [s \in Server |-> IF active[s] /\ due[s] THEN missed[s] + 1 ELSE 0]
    /\ due' = [s \in Server |-> active[s]]
    /\ UNCHANGED <<view, work, active, thread, closing, starts, acked, ack, net>>

ServerStep(s) ==
    \/ BgLoop(s) \/ BgSend(s) \/ BgAcknowledged(s) \/ BgTimeout(s)
    \/ \E k \in Closer : Unregister(s, k)

Next ==
    \/ \E s \in Server : \/ Start(s) \/ ServerStep(s)
                         \/ \E k \in Closer : Close(s, k)
                         \/ Deliver(s) \/ DeliverLate(s) \/ Discard(s) \/ Lose(s)
    \/ \E n \in Name : Query(n)
    \/ CommandBreaks
    \/ Tick

Spec == Init /\ [][Next]_vars

-----------------------------------------------------------------------------
TypeOK ==
    /\ services \in [Entry -> Absent .. Stale] /\ view \subseteq Entry
    /\ work \in {"accept", "recv", "end"}
    /\ active \in [Server -> BOOLEAN]
    /\ thread \in [Server -> {"none", "loop", "send", "await", "end"}]
    /\ due \in [Server -> BOOLEAN]
    /\ closing \in [Server -> [Closer -> {"no", "join", "send", "end"}]]
    /\ starts \in [Server -> 0 .. MaxStarts] /\ missed \in [Server -> 0 .. MaxMissed]
    /\ acked \in [Server -> BOOLEAN] /\ ack \in [Server -> BOOLEAN]
    /\ net \in [Server -> Seq({"REGISTER", "OUTDATED", "UNREGISTER"})]

(* A subclass that keeps the set of servers it was told about in the callbacks
   has exactly the entries of the registry, through keepalives, pruning and
   UNREGISTERs of servers nobody knows. *)
ObserverAgrees == view = Registered

(* A server that runs and was acknowledged is found under each of its names,
   as long as it gets through once in the pruning timeout.  (If it is started again
   the UNREGISTER of its former life must not be overtaken by its new REGISTER.) *)
Discoverable ==
    \A s \in Server : active[s] /\ acked[s] => \A n \in Aliases[s] : s \in Found(n)

(* close() has been called, and the one that joins the registration thread has *)
Joined(s) ==
    /\ \E k \in Closer : closing[s][k] # "no"
    /\ \A k \in Closer : closing[s][k] # "join"

Sends(s, m) == Len(net'[s]) > Len(net[s]) /\ net'[s][Len(net'[s])] = m

(* No REGISTER follows the UNREGISTER of the close() that joins the registration
   thread, until the server is started again: none is under way, or begins, then.
   (The UNREGISTER of a close() beside it, which joins nobody, may be followed.) *)
UnregisterIsLast == [][\A s \in Server : Joined(s) => ~Sends(s, "REGISTER")]_vars

(* In the end the registry is empty, and for ever, if all servers are closed for
   good, even if an UNREGISTER was lost or overtaken by a REGISTER, unless the
   registry itself has ended; and no close() is left waiting for a registration
   that nobody answers. *)
GhostsEnd ==
    <>[](/\ \A s \in Server, k \in Closer : closing[s][k] \notin {"join", "send"}
         /\ (\A s \in Server : starts[s] = 0 \/ Joined(s)) => Registered = {} \/ work = "end")
=============================================================================
