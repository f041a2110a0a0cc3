---------------------------- MODULE RegistryTCP ----------------------------
(***************************************************************************)
(* The registry over either transport.  With UDPRegistryServer and         *)
(* UDPRegistryClient a command is a datagram, as in Registry.  With        *)
(* TCPRegistryServer and TCPRegistryClient each command has a connection   *)
(* of its own, which the single thread of the registry accepts, reads,     *)
(* executes and answers before it accepts the next: nothing is repeated or *)
(* overtaken on the way, but a connection may be refused, and whoever      *)
(* connects and sends nothing keeps everybody else waiting, until their    *)
(* timeouts.                                                               *)
(***************************************************************************)
EXTENDS Registry

CONSTANTS TcpServer, \* bound: the servers that are started if the transport is TCP
          MaxVisit   \* bound: connections that send no command

ASSUME RegistryTCPAssumption == TcpServer \subseteq Server /\ MaxVisit \in Nat

VARIABLES
    transport, \* "udp" or "tcp"
    connected  \* TCP: _connected_sockets that nobody will answer

allVars == <<vars, transport, connected>>

TransportInit ==
    /\ Init /\ transport \in {"udp", "tcp"}
    /\ connected = 0

-----------------------------------------------------------------------------
(* TCPRegistryServer: accept, recv, the command, send *)
TcpDeliver(s) == Deliver(s) /\ UNCHANGED connected

TcpQuery(n) == Query(n) /\ UNCHANGED connected

(* a connection on which nothing has been sent yet: recv() blocks *)
AcceptSilent ==
    /\ work = "accept" /\ connected < MaxVisit
    /\ work' = "recv"
    /\ UNCHANGED <<services, view, serverVars, ack, net, connected>>

(* mutant: recv() is called again on a connection that has brought no command *)
NoCommandWaits == work = "recv" /\ UNCHANGED <<vars, connected>>

(* it is closed, or what it sends is not the packet of a command, or of a command that
   the registry does not have: _work goes on without a reply *)
NoCommand ==
    /\ work = "recv"
    /\ work' = "accept" /\ connected' = connected + 1
    /\ UNCHANGED <<services, view, serverVars, ack, net>>

(* TCPRegistryClient: the backlog is full or nobody listens, register() returns False *)
RegisterRefused(s) ==
    /\ thread[s] = "send"
    /\ thread' = [thread EXCEPT ![s] = "loop"]
    /\ UNCHANGED <<registryVars, active, due, closing, starts, missed, acked, ack, net, connected>>

(* unregister() only logs that it could not connect *)
UnregisterRefused(s, k) ==
    /\ MayUnregister(s, k)
    /\ closing' = [closing EXCEPT ![s][k] = "end"]
    /\ UNCHANGED <<registryVars, active, thread, due, starts, missed, acked, ack, net, connected>>

-----------------------------------------------------------------------------
Udp(step) == transport = "udp" /\ step /\ UNCHANGED <<transport, connected>>
Tcp(step) == transport = "tcp" /\ step /\ UNCHANGED transport

TcpServerStep(s) ==
    \/ ServerStep(s) /\ UNCHANGED connected
    \/ RegisterRefused(s)
    \/ \E k \in Closer : UnregisterRefused(s, k)

TcpStep ==
    \/ \E s \in TcpServer :
          \/ TcpServerStep(s) \/ TcpDeliver(s)
          \/ (Start(s) \/ (\E k \in Closer : Close(s, k)) \/ Discard(s)) /\ UNCHANGED connected
    \/ \E n \in Name : TcpQuery(n)
    \/ AcceptSilent \/ NoCommand
    \/ (CommandBreaks \/ Tick) /\ UNCHANGED connected

TransportNext == Udp(Next) \/ Tcp(TcpStep)

(* Servers run, what has been sent is delivered or lost in the end, time goes by
   and clients go on asking; who connects to the registry sends or closes. *)
TransportFairness ==
    /\ \A s \in Server : /\ WF_allVars(Udp(ServerStep(s)) \/ Tcp(TcpServerStep(s)))
                         /\ WF_allVars(Udp(Deliver(s)) \/ Tcp(TcpDeliver(s)))
                         /\ WF_allVars(Udp(Discard(s)) \/ Tcp(Discard(s) /\ UNCHANGED connected))
    /\ \A n \in Name : WF_allVars(Udp(Query(n)) \/ Tcp(TcpQuery(n)))
    /\ WF_allVars(Udp(Tick) \/ Tcp(Tick /\ UNCHANGED connected))
    /\ WF_allVars(Tcp(NoCommand))

TransportSpec == TransportInit /\ [][TransportNext]_allVars /\ TransportFairness
=============================================================================
