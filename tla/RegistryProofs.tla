--------------------------- MODULE RegistryProofs ---------------------------
(* For any number of servers, names and aliases, whatever the transport loses,
   repeats, overtakes or refuses: who listens to the callbacks of the registry
   knows exactly what is registered, no REGISTER follows the UNREGISTER of the
   close() that joins the registration thread, and a server that gets through often
   enough is found. *)
EXTENDS RegistryTCP, TLAPS

(* ages of entries are ages, and only entries are announced *)
Ages == services \in [Entry -> Absent .. Stale] /\ view \subseteq Entry

AgreeInv == Ages /\ ObserverAgrees

(* what the registry keeps is changed by its commands and by time alone *)
LEMMA ServersDoNotRegister ==
    ASSUME NEW s \in Server,
           \/ Start(s) \/ ServerStep(s) \/ (\E k \in Closer : Close(s, k))
           \/ Lose(s) \/ Discard(s)
           \/ RegisterRefused(s) \/ (\E k \in Closer : UnregisterRefused(s, k))
    PROVE  UNCHANGED registryVars
  BY DEF Start, ServerStep, BgLoop, BgSend, BgAcknowledged, BgTimeout, Unregister, Close, Lose,
         Discard, RegisterRefused, UnregisterRefused, registryVars

(* a step that leaves the registry alone *)
LEMMA StutterKeeps == AgreeInv /\ UNCHANGED <<services, view>> => AgreeInv'
  BY DEF AgreeInv, Ages, ObserverAgrees, Registered

(* each removal is announced *)
LEMMA RemoveKeeps ==
    ASSUME AgreeInv, NEW gone, Remove(gone)
    PROVE  AgreeInv'
<1>1. Absent \in Absent .. Stale
  BY RegistryAssumption DEF Absent, Stale
<1>2. Ages'
  BY <1>1 DEF AgreeInv, Ages, Remove
<1>3. view' = Registered'
  BY DEF AgreeInv, Ages, ObserverAgrees, Registered, Remove
<1> QED
  BY <1>2, <1>3 DEF AgreeInv, ObserverAgrees

(* each new entry is announced, and no other *)
LEMMA RegisterKeeps ==
    ASSUME AgreeInv, NEW s \in Server, CmdRegister(s)
    PROVE  AgreeInv'
<1> DEFINE new == {<<n, s>> : n \in Aliases[s]}
<1>1. new \subseteq Entry
  BY RegistryAssumption DEF Entry
<1>2. 0 \in Absent .. Stale /\ 0 # Absent
  BY RegistryAssumption DEF Absent, Stale
<1>3. /\ services' = [e \in Entry |-> IF e \in new THEN 0 ELSE services[e]]
      /\ view' = view \cup (new \ Registered)
  BY DEF CmdRegister
<1> HIDE DEF new
<1>4. Ages'
  BY <1>1, <1>2, <1>3 DEF AgreeInv, Ages
<1>5. view' = Registered'
  BY <1>1, <1>2, <1>3 DEF AgreeInv, Ages, ObserverAgrees, Registered
<1> QED
  BY <1>4, <1>5 DEF AgreeInv, ObserverAgrees

(* no entry comes or goes as time goes by *)
LEMMA TickKeeps ==
    ASSUME AgreeInv, Tick
    PROVE  AgreeInv'
<1>1. \A a \in Absent .. Stale : Older(a) \in Absent .. Stale /\ (Older(a) = Absent <=> a = Absent)
  BY RegistryAssumption DEF Older, Absent, Stale
<1>2. services' = [e \in Entry |-> Older(services[e])] /\ view' = view
  BY DEF Tick
<1>3. Ages'
  BY <1>1, <1>2 DEF AgreeInv, Ages
<1>4. Registered' = Registered
  BY <1>1, <1>2 DEF AgreeInv, Ages, Registered
<1> QED
  BY <1>2, <1>3, <1>4 DEF AgreeInv, ObserverAgrees

(* a command that is executed, early, late or again *)
LEMMA ReceiveKeeps ==
    ASSUME AgreeInv, NEW s \in Server, NEW i, NEW rest, Receive(s, i, rest)
    PROVE  AgreeInv'
<1>1. CmdRegister(s) \/ CmdUnregister(s)
  BY DEF Receive
<1> QED
  BY <1>1, RegisterKeeps, RemoveKeeps DEF CmdUnregister

(* every step of either transport *)
LEMMA StepKeeps == AgreeInv /\ [TransportNext]_allVars => AgreeInv'
<1> SUFFICES ASSUME AgreeInv, [TransportNext]_allVars PROVE AgreeInv'
  OBVIOUS
<1>1. CASE UNCHANGED allVars
  BY <1>1, StutterKeeps DEF allVars, vars, registryVars
<1>2. CASE Udp(Next)
  <2>1. CASE \E s \in Server : \/ Start(s) \/ ServerStep(s) \/ (\E k \in Closer : Close(s, k))
                               \/ Lose(s) \/ Discard(s)
    BY <2>1, ServersDoNotRegister, StutterKeeps DEF registryVars
  <2>2. CASE \E s \in Server : Deliver(s) \/ DeliverLate(s)
    BY <2>2, ReceiveKeeps DEF Deliver, DeliverLate
  <2>3. CASE \E n \in Name : Query(n)
    BY <2>3, RemoveKeeps DEF Query
  <2>4. CASE Tick
    BY <2>4, TickKeeps
  <2>5. CASE CommandBreaks
    BY <2>5, StutterKeeps DEF CommandBreaks
  <2> QED
    BY <1>2, <2>1, <2>2, <2>3, <2>4, <2>5 DEF Udp, Next
<1>3. CASE Tcp(TcpStep)
  <2>1. CASE \E s \in TcpServer : \/ TcpServerStep(s) \/ Start(s) \/ Discard(s)
                                  \/ \E k \in Closer : Close(s, k)
    BY <2>1, RegistryTCPAssumption, ServersDoNotRegister, StutterKeeps
       DEF TcpServerStep, registryVars
  <2>2. CASE \E s \in TcpServer : TcpDeliver(s)
    BY <2>2, RegistryTCPAssumption, ReceiveKeeps DEF TcpDeliver, Deliver
  <2>3. CASE \E n \in Name : TcpQuery(n)
    BY <2>3, RemoveKeeps DEF TcpQuery, Query
  <2>4. CASE AcceptSilent \/ NoCommand \/ CommandBreaks
    BY <2>4, StutterKeeps DEF AcceptSilent, NoCommand, CommandBreaks
  <2>5. CASE Tick
    BY <2>5, TickKeeps
  <2> QED
    BY <1>3, <2>1, <2>2, <2>3, <2>4, <2>5 DEF Tcp, TcpStep
<1> QED
  BY <1>1, <1>2, <1>3 DEF TransportNext

(* A subclass of the registry that keeps the set of servers it was told about in
   on_service_added and on_service_removed has exactly the entries of the registry. *)
THEOREM ObserverIsRight == TransportSpec => []ObserverAgrees
<1>1. TransportInit => AgreeInv
  BY RegistryAssumption
     DEF TransportInit, Init, AgreeInv, Ages, ObserverAgrees, Registered, Absent, Stale
<1>2. AgreeInv => ObserverAgrees
  BY DEF AgreeInv
<1> QED
  BY <1>1, <1>2, StepKeeps, PTL DEF TransportSpec

-----------------------------------------------------------------------------
(* the queue of a server's datagrams: q is p with some of them left out *)
Datagram == {"REGISTER", "OUTDATED", "UNREGISTER"}

Has(q, m) == \E i \in DOMAIN q : q[i] = m

InOrder(q) == \A i, j \in DOMAIN q : q[i] = "UNREGISTER" /\ q[j] = "REGISTER" => i < j

Thinned(q, p) ==
    /\ q \in Seq(Datagram) /\ Len(q) <= Len(p)
    /\ \E f \in [DOMAIN q -> DOMAIN p] :
          \A i, j \in DOMAIN q : q[i] = p[f[i]] /\ (i < j => f[i] < f[j])

(* leaving datagrams out adds none and keeps their order *)
LEMMA ThinnedKeeps ==
    ASSUME NEW p \in Seq(Datagram), NEW q, Thinned(q, p)
    PROVE  /\ \A m : Has(q, m) => Has(p, m)
           /\ InOrder(p) => InOrder(q)
<1>1. PICK f \in [DOMAIN q -> DOMAIN p] :
          \A i, j \in DOMAIN q : q[i] = p[f[i]] /\ (i < j => f[i] < f[j])
  BY DEF Thinned
<1>2. \A i \in DOMAIN q : f[i] \in DOMAIN p /\ q[i] = p[f[i]]
  BY <1>1
<1>3. ASSUME NEW m, Has(q, m) PROVE Has(p, m)
  BY <1>2, <1>3 DEF Has
<1>4. ASSUME InOrder(p), NEW i \in DOMAIN q, NEW j \in DOMAIN q,
             q[i] = "UNREGISTER", q[j] = "REGISTER"
      PROVE  i < j
  <2>1. i \in Nat /\ j \in Nat
    BY DEF Thinned
  <2>2. f[i] < f[j] /\ f[i] \in Nat /\ f[j] \in Nat
    BY <1>2, <1>4 DEF InOrder
  <2>3. ~(j < i) /\ i # j
    BY <1>1, <1>4, <2>2
  <2> QED
    BY <2>1, <2>3
<1> QED
  BY <1>3, <1>4 DEF InOrder

(* nothing is left out: the datagram was a repetition *)
LEMMA WholeIsThinned ==
    ASSUME NEW p \in Seq(Datagram)
    PROVE  Thinned(p, p)
<1> DEFINE f == [i \in DOMAIN p |-> i]
<1>1. f \in [DOMAIN p -> DOMAIN p]
  OBVIOUS
<1>2. \A i, j \in DOMAIN p : p[i] = p[f[i]] /\ (i < j => f[i] < f[j])
  OBVIOUS
<1> HIDE DEF f
<1> QED
  BY <1>1, <1>2 DEF Thinned

(* the first is left out: it was delivered in its turn *)
LEMMA TailIsThinned ==
    ASSUME NEW p \in Seq(Datagram), p # <<>>
    PROVE  Thinned(Tail(p), p)
<1> DEFINE f == [i \in DOMAIN Tail(p) |-> i + 1]
<1>1. /\ Tail(p) \in Seq(Datagram) /\ Len(Tail(p)) = Len(p) - 1 /\ Len(p) \in Nat
      /\ DOMAIN Tail(p) = 1 .. Len(p) - 1 /\ DOMAIN p = 1 .. Len(p)
      /\ \A i \in DOMAIN Tail(p) : Tail(p)[i] = p[i + 1]
  OBVIOUS
<1>2. f \in [DOMAIN Tail(p) -> DOMAIN p]
  BY <1>1
<1>3. \A i, j \in DOMAIN Tail(p) : Tail(p)[i] = p[f[i]] /\ (i < j => f[i] < f[j])
  BY <1>1
<1> HIDE DEF f
<1> QED
  BY <1>1, <1>2, <1>3 DEF Thinned

(* any one is left out: it was lost, or overtook others *)
LEMMA WithoutIsThinned ==
    ASSUME NEW p \in Seq(Datagram), NEW k \in DOMAIN p
    PROVE  Thinned(Without(p, k), p)
<1> DEFINE q == Without(p, k)
           f == [j \in 1 .. Len(p) - 1 |-> IF j < k THEN j ELSE j + 1]
<1>1. Len(p) \in Nat /\ DOMAIN p = 1 .. Len(p) /\ k \in 1 .. Len(p)
  OBVIOUS
<1>2. DOMAIN q = 1 .. Len(p) - 1
  BY DEF Without
<1>3. f \in [DOMAIN q -> DOMAIN p]
  BY <1>1, <1>2
<1>4. \A i, j \in DOMAIN q : q[i] = p[f[i]] /\ (i < j => f[i] < f[j])
  BY <1>1, <1>2 DEF Without
<1>5. \A i \in DOMAIN q : q[i] \in Datagram
  BY <1>2, <1>3, <1>4
<1>6. Len(p) - 1 \in Nat
  BY <1>1
<1>7. q \in Seq(Datagram) /\ Len(q) = Len(p) - 1
  BY <1>2, <1>5, <1>6 DEF Without
<1> HIDE DEF f, q
<1>8. Thinned(q, p)
  BY <1>1, <1>3, <1>4, <1>7 DEF Thinned
<1> QED
  BY <1>8 DEF q

(* what a command or a reply does to the registry, and where its datagram goes *)
LEMMA Receives ==
    ASSUME NEW s \in Server, NEW i, NEW rest, TypeOK, Receive(s, i, rest)
    PROVE  /\ net' = [net EXCEPT ![s] = rest]
           /\ \/ CmdRegister(s) /\ net[s][i] # "UNREGISTER"
              \/ CmdUnregister(s) /\ net[s][i] \notin {"REGISTER", "OUTDATED"}
           /\ \/ UNCHANGED ack
              \/ ack' = [ack EXCEPT ![s] = TRUE] /\ net[s][i] = "REGISTER"
           /\ UNCHANGED <<work, serverVars>>
  BY DEF Receive, Acknowledge

(* of a queue from which datagrams are delivered or lost some are left *)
LEMMA Deliveries ==
    ASSUME NEW s \in Server, TypeOK, Deliver(s) \/ DeliverLate(s)
    PROVE  \E i \in DOMAIN net[s] : \E rest :
              /\ Receive(s, i, rest) /\ Thinned(rest, net[s])
              /\ MayDelay \/ (i = 1 /\ rest = Tail(net[s]))
<1>1. net[s] \in Seq(Datagram)
  BY DEF TypeOK, Datagram
<1>2. CASE Deliver(s)
  <2>1. net[s] # <<>> /\ Receive(s, 1, Tail(net[s]))
    BY <1>2 DEF Deliver
  <2>2. 1 \in DOMAIN net[s]
    BY <1>1, <2>1
  <2>3. Thinned(Tail(net[s]), net[s])
    BY <1>1, <2>1, TailIsThinned
  <2> QED
    BY <2>1, <2>2, <2>3
<1>3. CASE DeliverLate(s)
  <2>1. PICK i \in DOMAIN net[s] : Receive(s, i, Without(net[s], i)) \/ Receive(s, i, net[s])
    BY <1>3 DEF DeliverLate
  <2>2. MayDelay
    BY <1>3 DEF DeliverLate
  <2>3. Thinned(net[s], net[s]) /\ Thinned(Without(net[s], i), net[s])
    BY <1>1, WholeIsThinned, WithoutIsThinned
  <2> QED
    BY <2>1, <2>2, <2>3
<1> QED
  BY <1>2, <1>3

(* a loss leaves some datagrams, and everything else as it was; so does a registry that
   has ended *)
LEMMA Losses ==
    ASSUME NEW s \in Server, TypeOK, Lose(s) \/ Discard(s)
    PROVE  \E rest : /\ Thinned(rest, net[s]) /\ net' = [net EXCEPT ![s] = rest]
                     /\ UNCHANGED <<registryVars, serverVars, ack>>
<1>1. net[s] \in Seq(Datagram) /\ net \in [Server -> Seq(Datagram)]
  BY DEF TypeOK, Datagram
<1>2. CASE Lose(s)
  <2>1. PICK i \in DOMAIN net[s] : net' = [net EXCEPT ![s] = Without(net[s], i)]
    BY <1>1, <1>2 DEF Lose
  <2> QED
    BY <1>1, <1>2, <2>1, WithoutIsThinned DEF Lose
<1>3. CASE Discard(s)
  <2>1. net[s] # <<>> /\ net' = [net EXCEPT ![s] = Tail(net[s])]
    BY <1>1, <1>3 DEF Discard
  <2> QED
    BY <1>1, <1>3, <2>1, TailIsThinned DEF Discard
<1> QED
  BY <1>2, <1>3

(* the socket of register() is closed: its datagrams lose their listener only *)
LEMMA Closes ==
    ASSUME NEW s \in Server, TypeOK, SocketClosed(s)
    PROVE  \E q \in Seq(Datagram) :
              /\ net' = [net EXCEPT ![s] = q] /\ Len(q) = Len(net[s])
              /\ ~Has(q, "REGISTER") /\ (Has(q, "UNREGISTER") => Has(net[s], "UNREGISTER"))
<1> DEFINE q == [i \in DOMAIN net[s] |-> IF net[s][i] = "REGISTER" THEN "OUTDATED" ELSE net[s][i]]
<1>1. net[s] \in Seq(Datagram) /\ net \in [Server -> Seq(Datagram)]
  BY DEF TypeOK, Datagram
<1>2. net' = [net EXCEPT ![s] = q]
  BY <1>1 DEF SocketClosed
<1>3. DOMAIN net[s] = 1 .. Len(net[s]) /\ Len(net[s]) \in Nat
  BY <1>1
<1>4. \A i \in DOMAIN net[s] : q[i] \in Datagram /\ q[i] # "REGISTER"
  BY <1>1 DEF Datagram
<1>5. q \in Seq(Datagram) /\ Len(q) = Len(net[s])
  <2>1. q \in [1 .. Len(net[s]) -> Datagram] /\ DOMAIN q = 1 .. Len(net[s])
    BY <1>3, <1>4
  <2> HIDE DEF q
  <2> QED
    BY <1>3, <2>1
<1>6. ~Has(q, "REGISTER") /\ (Has(q, "UNREGISTER") => Has(net[s], "UNREGISTER"))
  BY <1>4 DEF Has
<1> HIDE DEF q
<1> QED
  BY <1>2, <1>5, <1>6

(* a datagram that is sent comes after those that are under way *)
LEMMA Posts ==
    ASSUME NEW s \in Server, NEW m \in Datagram, TypeOK, Post(s, m)
    PROVE  \E q \in Seq(Datagram) :
              /\ net' = [net EXCEPT ![s] = q]
              /\ \A k \in Datagram : Has(q, k) => k = m \/ Has(net[s], k)
              /\ m = "REGISTER" /\ InOrder(net[s]) => InOrder(q)
              /\ q[Len(q)] = m
<1> DEFINE p == net[s]
           q == Append(p, m)
<1>1. p \in Seq(Datagram) /\ net \in [Server -> Seq(Datagram)]
  BY DEF TypeOK, Datagram
<1>2. net' = [net EXCEPT ![s] = q]
  BY <1>1 DEF Post
<1>3. /\ q \in Seq(Datagram) /\ Len(p) \in Nat /\ DOMAIN p = 1 .. Len(p)
      /\ DOMAIN q = 1 .. Len(p) + 1 /\ Len(q) = Len(p) + 1
      /\ \A i \in DOMAIN q : IF i = Len(p) + 1 THEN q[i] = m ELSE i \in DOMAIN p /\ q[i] = p[i]
  BY <1>1
<1> HIDE DEF p, q
<1>4. \A k \in Datagram : Has(q, k) => k = m \/ Has(p, k)
  BY <1>3 DEF Has
<1>5. ASSUME InOrder(p), m = "REGISTER"
      PROVE  InOrder(q)
  <2> SUFFICES ASSUME NEW i \in DOMAIN q, NEW j \in DOMAIN q,
                      q[i] = "UNREGISTER", q[j] = "REGISTER"
               PROVE  i < j
    BY DEF InOrder
  <2>1. i \in 1 .. Len(p) + 1 /\ j \in 1 .. Len(p) + 1 /\ i # j
    BY <1>3
  <2>2. CASE j = Len(p) + 1
    BY <1>3, <2>1, <2>2
  <2>3. CASE j # Len(p) + 1
    <3>1. j \in DOMAIN p /\ p[j] = "REGISTER"
      BY <1>3, <2>3
    <3>2. i \in DOMAIN p /\ p[i] = "UNREGISTER"
      BY <1>3, <1>5, <3>1 DEF Has
    <3> QED
      BY <1>5, <3>1, <3>2 DEF InOrder
  <2> QED
    BY <2>2, <2>3
<1>6. q[Len(q)] = m
  BY <1>3
<1> QED
  BY <1>2, <1>3, <1>4, <1>5, <1>6 DEF p

-----------------------------------------------------------------------------
(* every step of a server, of its datagrams and of a transport that refuses *)
OwnStep(s) ==
    \/ Start(s) \/ BgLoop(s) \/ BgSend(s) \/ BgAcknowledged(s) \/ BgTimeout(s)
    \/ RegisterRefused(s)
    \/ \E k \in Closer : Close(s, k) \/ Unregister(s, k) \/ UnregisterRefused(s, k)
    \/ Deliver(s) \/ DeliverLate(s) \/ Lose(s) \/ Discard(s)

(* a step of the registry alone: it accepts, comes back or ends *)
WorkStep == work' \in {"accept", "recv", "end"} /\ UNCHANGED <<services, view, serverVars, ack, net>>

(* over either transport, a step is of one server, of a query or of the clock *)
LEMMA StepsAreOwn ==
    ASSUME [TransportNext]_allVars
    PROVE  \/ \E s \in Server : OwnStep(s)
           \/ \E n \in Name : Query(n)
           \/ Tick
           \/ WorkStep
           \/ UNCHANGED vars
<1>1. CASE UNCHANGED allVars
  BY <1>1 DEF allVars
<1>2. CASE Udp(Next)
  BY <1>2 DEF Udp, Next, OwnStep, ServerStep, CommandBreaks, WorkStep
<1>3. CASE Tcp(TcpStep)
  <2>1. CASE \E s \in TcpServer : \/ TcpServerStep(s) \/ Start(s) \/ Discard(s)
                                  \/ \E k \in Closer : Close(s, k)
    BY <2>1, RegistryTCPAssumption DEF OwnStep, TcpServerStep, ServerStep
  <2>2. CASE \E s \in TcpServer : TcpDeliver(s)
    BY <2>2, RegistryTCPAssumption DEF TcpDeliver, OwnStep
  <2>3. CASE \E n \in Name : TcpQuery(n)
    BY <2>3 DEF TcpQuery
  <2>4. CASE AcceptSilent \/ NoCommand \/ CommandBreaks
    BY <2>4 DEF AcceptSilent, NoCommand, CommandBreaks, WorkStep
  <2> QED
    BY <1>3, <2>1, <2>2, <2>3, <2>4 DEF Tcp, TcpStep
<1> QED
  BY <1>1, <1>2, <1>3 DEF TransportNext

(* what servers keep *)
ServerTypes ==
    /\ active \in [Server -> BOOLEAN]
    /\ thread \in [Server -> {"none", "loop", "send", "await", "end"}]
    /\ due \in [Server -> BOOLEAN]
    /\ closing \in [Server -> [Closer -> {"no", "join", "send", "end"}]]
    /\ starts \in [Server -> 0 .. MaxStarts] /\ missed \in [Server -> 0 .. MaxMissed]
    /\ acked \in [Server -> BOOLEAN]

(* the queue of one server has become another one *)
LEMMA QueueChanges ==
    ASSUME TypeOK, NEW s \in Server, NEW q \in Seq(Datagram), net' = [net EXCEPT ![s] = q]
    PROVE  net' \in [Server -> Seq(Datagram)] /\ net'[s] = q
           /\ \A u \in Server : u # s => net'[u] = net[u]
  BY DEF TypeOK, Datagram

(* queues hold datagrams, and those of other servers stay as they are *)
LEMMA QueuesKept ==
    ASSUME TypeOK, NEW s \in Server, OwnStep(s)
    PROVE  net' \in [Server -> Seq(Datagram)] /\ \A u \in Server : u # s => net'[u] = net[u]
<1>0. UNCHANGED net \/ \E q \in Seq(Datagram) : net' = [net EXCEPT ![s] = q]
  <2>1. CASE Deliver(s) \/ DeliverLate(s)
    BY <2>1, Deliveries, Receives DEF Thinned
  <2>2. CASE Lose(s) \/ Discard(s)
    BY <2>2, Losses DEF Thinned
  <2>3. CASE BgSend(s) \/ \E k \in Closer : Unregister(s, k)
    <3>1. \E m \in Datagram : Post(s, m)
      BY <2>3 DEF BgSend, Unregister, Datagram
    <3> QED
      BY <3>1, Posts
  <2>4. CASE BgAcknowledged(s) \/ BgTimeout(s)
    BY <2>4, Closes DEF BgAcknowledged, BgTimeout
  <2>5. CASE \/ Start(s) \/ BgLoop(s) \/ RegisterRefused(s)
             \/ \E k \in Closer : Close(s, k) \/ UnregisterRefused(s, k)
    BY <2>5 DEF Start, Close, BgLoop, RegisterRefused, UnregisterRefused
  <2> QED
    BY <2>1, <2>2, <2>3, <2>4, <2>5 DEF OwnStep
<1>1. net \in [Server -> Seq(Datagram)]
  BY DEF TypeOK, Datagram
<1> QED
  BY <1>0, <1>1, QueueChanges

(* the types of what servers keep *)
LEMMA ServerTypesKept ==
    ASSUME TypeOK, NEW s \in Server, OwnStep(s)
    PROVE  ServerTypes' /\ ack' \in [Server -> BOOLEAN]
<1> USE RegistryAssumption DEF ServerTypes, TypeOK
<1>1. CASE Start(s)
  BY <1>1 DEF Start
<1>2. CASE BgLoop(s) \/ BgTimeout(s) \/ RegisterRefused(s)
  BY <1>2 DEF BgLoop, BgTimeout, RegisterRefused
<1>8. ASSUME NEW k \in Closer, Close(s, k) PROVE ServerTypes' /\ ack' \in [Server -> BOOLEAN]
  <2>1. PICK p \in {"join", "send"} : closing' = [closing EXCEPT ![s][k] = p]
    BY <1>8 DEF Close
  <2>2. closing' \in [Server -> [Closer -> {"no", "join", "send", "end"}]]
    BY <2>1
  <2> QED
    BY <1>8, <2>2 DEF Close
<1>3. CASE BgAcknowledged(s)
  BY <1>3 DEF BgAcknowledged
<1>6. CASE BgSend(s)
  BY <1>6 DEF BgSend
<1>7. ASSUME NEW k \in Closer, Unregister(s, k) \/ UnregisterRefused(s, k)
      PROVE  ServerTypes' /\ ack' \in [Server -> BOOLEAN]
  <2>1. closing' = [closing EXCEPT ![s][k] = "end"]
    BY <1>7 DEF Unregister, UnregisterRefused
  <2>2. closing' \in [Server -> [Closer -> {"no", "join", "send", "end"}]]
    BY <2>1
  <2> QED
    BY <1>7, <2>2 DEF Unregister, UnregisterRefused
<1>4. CASE Deliver(s) \/ DeliverLate(s)
  <2>1. UNCHANGED serverVars /\ (UNCHANGED ack \/ ack' = [ack EXCEPT ![s] = TRUE])
    BY <1>4, Deliveries, Receives
  <2> QED
    BY <2>1 DEF serverVars
<1>5. CASE Lose(s) \/ Discard(s)
  BY <1>5 DEF Lose, Discard, serverVars
<1> QED
  BY <1>1, <1>2, <1>3, <1>4, <1>5, <1>6, <1>7, <1>8 DEF OwnStep

(* the thread of the registry is where it was *)
LEMMA WorkKept ==
    ASSUME TypeOK, NEW s \in Server, OwnStep(s)
    PROVE  UNCHANGED work
<1>1. CASE Deliver(s) \/ DeliverLate(s)
  BY <1>1, Deliveries, Receives
<1> QED
  BY <1>1, ServersDoNotRegister DEF OwnStep, ServerStep, registryVars

(* the types of everything *)
LEMMA TypesKept ==
    ASSUME TypeOK, AgreeInv, [TransportNext]_allVars
    PROVE  TypeOK'
<1>1. Ages'
  BY StepKeeps DEF AgreeInv
<1>2. CASE \E s \in Server : OwnStep(s)
  BY <1>1, <1>2, ServerTypesKept, QueuesKept, WorkKept DEF TypeOK, Ages, ServerTypes, Datagram
<1>3. CASE \E n \in Name : Query(n)
  BY <1>1, <1>3 DEF Query, serverVars, TypeOK, Ages
<1>4. CASE Tick
  <2>1. due' \in [Server -> BOOLEAN]
    BY <1>4 DEF Tick, TypeOK
  <2>2. missed' \in [Server -> 0 .. MaxMissed]
    BY <1>4, RegistryAssumption DEF Tick, TypeOK
  <2> QED
    BY <1>1, <1>4, <2>1, <2>2 DEF Tick, TypeOK, Ages
<1>5. CASE WorkStep \/ UNCHANGED vars
  BY <1>5 DEF WorkStep, vars, registryVars, serverVars, TypeOK
<1> QED
  BY <1>2, <1>3, <1>4, <1>5, StepsAreOwn

-----------------------------------------------------------------------------
(* What the life of a server allows: close() stops it, and the registration thread has
   ended when the close() that took it is past its join; and register() has a reply
   only while it waits for one. *)
LifeInv(s) ==
    /\ Joined(s) => thread[s] = "end"
    /\ active[s] => \A k \in Closer : closing[s][k] = "no"
    /\ starts[s] = 0 => thread[s] = "none" /\ ~active[s] /\ \A k \in Closer : closing[s][k] = "no"
    /\ active[s] /\ ~due[s] => missed[s] = 0
    /\ ack[s] => thread[s] = "await"

(* A REGISTER that a running server waits for was sent after every UNREGISTER that is
   under way, and none of those is under way any more once it has been acknowledged. *)
DatagramInv(s) ==
    /\ Has(net[s], "REGISTER") => thread[s] = "await"
    /\ active[s] => InOrder(net[s])
    /\ Has(net[s], "UNREGISTER") => /\ ~(active[s] /\ acked[s])
                                    /\ ~(active[s] /\ ack[s])
                                    /\ starts[s] # 0 /\ (MayDelay => ~active[s])

(* intervals since the last acknowledged REGISTER *)
Age(s) == IF due[s] THEN missed[s] + 1 ELSE missed[s]

(* An entry is new when its REGISTER has been acknowledged, and ages with the
   intervals the server has missed. *)
FoundInv(s) == \A n \in Aliases[s] :
    /\ active[s] /\ ack[s] => services[<<n, s>>] = 0
    /\ active[s] /\ acked[s] => services[<<n, s>>] \in 0 .. Age(s)

(* A server gets through once in the pruning timeout, and what it sent before it was
   started again does not overtake what it sends afterwards. *)
Punctual == MaxMissed < Prune /\ (MayDelay => MaxStarts <= 1)

ServerInv(s) == LifeInv(s) /\ DatagramInv(s) /\ FoundInv(s)

(* nothing that concerns the server has changed *)
Untouched(u) ==
    /\ UNCHANGED <<active[u], thread[u], due[u], closing[u], starts[u], missed[u], acked[u],
                   ack[u], net[u]>>
    /\ \A n \in Name : services'[<<n, u>>] = services[<<n, u>>]

(* what has not changed is still right *)
LEMMA UntouchedKeeps ==
    ASSUME NEW u \in Server, ServerInv(u), Untouched(u)
    PROVE  ServerInv(u)'
<1>1. Aliases[u] \subseteq Name
  BY RegistryAssumption
<1>2. LifeInv(u)'
  BY DEF ServerInv, LifeInv, Joined, Untouched
<1>3. DatagramInv(u)'
  BY DEF ServerInv, DatagramInv, Untouched
<1>4. FoundInv(u)'
  BY <1>1 DEF ServerInv, FoundInv, Untouched, Age
<1> QED
  BY <1>2, <1>3, <1>4 DEF ServerInv

(* the entries of other servers are not touched by a command *)
LEMMA CommandsAreOwn ==
    ASSUME TypeOK, NEW s \in Server, CmdRegister(s) \/ CmdUnregister(s), NEW u \in Server, u # s
    PROVE  \A n \in Name : services'[<<n, u>>] = services[<<n, u>>]
<1>1. \A n \in Name : <<n, u>> \in Entry /\ \A k : <<n, u>> # <<k, s>>
  BY DEF Entry
<1> QED
  BY <1>1 DEF TypeOK, CmdRegister, CmdUnregister, Remove

(* the step of a server concerns no other one *)
LEMMA OthersUntouched ==
    ASSUME TypeOK, NEW s \in Server, OwnStep(s), NEW u \in Server, u # s
    PROVE  Untouched(u)
<1>1. net'[u] = net[u]
  BY QueuesKept
<1>2. CASE Deliver(s) \/ DeliverLate(s)
  <2>1. PICK i \in DOMAIN net[s] : \E rest : Receive(s, i, rest)
    BY <1>2, Deliveries
  <2>2. /\ CmdRegister(s) \/ CmdUnregister(s)
        /\ UNCHANGED ack \/ ack' = [ack EXCEPT ![s] = TRUE]
        /\ UNCHANGED serverVars
    BY <2>1, Receives
  <2>3. ack'[u] = ack[u]
    BY <2>2 DEF TypeOK
  <2>4. \A n \in Name : services'[<<n, u>>] = services[<<n, u>>]
    BY <2>2, CommandsAreOwn
  <2> QED
    BY <1>1, <2>2, <2>3, <2>4 DEF Untouched, serverVars
<1>3. CASE Start(s)
  BY <1>1, <1>3 DEF Start, Untouched, TypeOK, registryVars
<1>4. CASE BgLoop(s) \/ RegisterRefused(s)
  BY <1>1, <1>4 DEF BgLoop, RegisterRefused, Untouched, TypeOK, registryVars
<1>5. CASE BgSend(s)
  BY <1>1, <1>5 DEF BgSend, Untouched, TypeOK, registryVars
<1>6. CASE BgAcknowledged(s)
  BY <1>1, <1>6 DEF BgAcknowledged, Untouched, TypeOK, registryVars
<1>7. CASE BgTimeout(s)
  BY <1>1, <1>7 DEF BgTimeout, Untouched, TypeOK, registryVars
<1>8. ASSUME NEW k \in Closer, Close(s, k) \/ Unregister(s, k) \/ UnregisterRefused(s, k)
      PROVE  Untouched(u)
  <2>1. \E p : closing' = [closing EXCEPT ![s][k] = p]
    BY <1>8 DEF Close, Unregister, UnregisterRefused
  <2>2. closing'[u] = closing[u]
    BY <2>1 DEF TypeOK
  <2>3. CASE Close(s, k)
    BY <1>1, <2>2, <2>3 DEF Close, Untouched, TypeOK, registryVars
  <2>4. CASE Unregister(s, k) \/ UnregisterRefused(s, k)
    BY <1>1, <2>2, <2>4 DEF Unregister, UnregisterRefused, Untouched, registryVars
  <2> QED
    BY <1>8, <2>3, <2>4
<1>9. CASE Lose(s) \/ Discard(s)
  BY <1>1, <1>9 DEF Lose, Discard, Untouched, registryVars, serverVars
<1> QED
  BY <1>2, <1>3, <1>4, <1>5, <1>6, <1>7, <1>8, <1>9 DEF OwnStep

(* the registration thread is joined once, and has ended then *)
LEMMA CloseJoins ==
    ASSUME TypeOK, NEW s \in Server, NEW k \in Closer, Joined(s) => thread[s] = "end",
           Close(s, k) \/ Unregister(s, k) \/ UnregisterRefused(s, k)
    PROVE  /\ Joined(s)' => thread'[s] = "end"
           /\ closing'[s][k] # "no"
<1>1. closing \in [Server -> [Closer -> {"no", "join", "send", "end"}]]
  BY DEF TypeOK
<1>2. UNCHANGED thread
  BY DEF Close, Unregister, UnregisterRefused
<1>3. CASE Close(s, k)
  <2>1. CASE \A c \in Closer : closing[s][c] = "no"
    <3>1. closing' = [closing EXCEPT ![s][k] = "join"]
      BY <1>3, <2>1 DEF Close
    <3>2. closing'[s][k] = "join"
      BY <1>1, <3>1
    <3> QED
      BY <3>2 DEF Joined
  <2>2. CASE ~ \A c \in Closer : closing[s][c] = "no"
    <3>1. closing' = [closing EXCEPT ![s][k] = "send"] /\ closing[s][k] = "no"
      BY <1>3, <2>2 DEF Close
    <3>2. closing'[s][k] = "send" /\ \A c \in Closer \ {k} : closing'[s][c] = closing[s][c]
      BY <1>1, <3>1
    <3>3. Joined(s)' => Joined(s)
      BY <2>2, <3>1, <3>2 DEF Joined
    <3> QED
      BY <1>2, <3>2, <3>3
  <2> QED
    BY <2>1, <2>2
<1>4. CASE Unregister(s, k) \/ UnregisterRefused(s, k)
  <2>1. /\ closing' = [closing EXCEPT ![s][k] = "end"]
        /\ closing[s][k] = "send" \/ thread[s] = "end"
    BY <1>4 DEF Unregister, UnregisterRefused, MayUnregister
  <2>2. closing'[s][k] = "end" /\ \A c \in Closer \ {k} : closing'[s][c] = closing[s][c]
    BY <1>1, <2>1
  <2>3. CASE closing[s][k] = "send"
    <3>1. Joined(s)' => Joined(s)
      BY <2>2, <2>3 DEF Joined
    <3> QED
      BY <1>2, <2>2, <3>1
  <2> QED
    BY <1>2, <2>1, <2>2, <2>3
<1> QED
  BY <1>3, <1>4

-----------------------------------------------------------------------------
(* the steps of a server that do not send *)
LEMMA QuietStepKeeps ==
    ASSUME TypeOK, Punctual, NEW s \in Server, ServerInv(s),
           \/ Start(s) \/ BgLoop(s) \/ RegisterRefused(s)
           \/ \E k \in Closer : Close(s, k) \/ UnregisterRefused(s, k)
    PROVE  ServerInv(s)'
<1> USE DEF ServerInv
<1>1. CASE Start(s)
  <2>1. thread[s] # "await" /\ (MayDelay => starts[s] = 0)
    <3>1. starts[s] \in Nat /\ starts[s] < MaxStarts /\ MaxStarts \in Nat
      BY <1>1, RegistryAssumption DEF Start, TypeOK
    <3>2. MayDelay => starts[s] = 0
      BY <3>1 DEF Punctual
    <3>3. starts[s] = 0 \/ Joined(s)
      BY <1>1 DEF Start, IsClosed, Joined
    <3> QED
      BY <3>2, <3>3 DEF LifeInv
  <2>2. /\ starts[s] \in Nat /\ starts'[s] = starts[s] + 1
        /\ active'[s] /\ thread'[s] = "loop" /\ due'[s]
        /\ missed'[s] = 0 /\ ~acked'[s]
        /\ UNCHANGED <<services, ack, net>>
    BY <1>1 DEF Start, TypeOK, registryVars
  <2>3. ~ack[s] /\ \A k \in Closer : closing'[s][k] = "no"
    BY <1>1, <2>1 DEF Start, TypeOK, LifeInv
  <2>4. LifeInv(s)'
    BY <2>2, <2>3 DEF LifeInv, Joined
  <2>5. DatagramInv(s)'
    <3>1. ~Has(net[s], "REGISTER")
      BY <2>1 DEF DatagramInv
    <3>2. InOrder(net[s])
      BY <3>1 DEF InOrder, Has
    <3> QED
      BY <2>1, <2>2, <2>3, <3>1, <3>2 DEF DatagramInv
  <2>6. FoundInv(s)'
    BY <2>2, <2>3 DEF FoundInv
  <2> QED
    BY <2>4, <2>5, <2>6
<1>2. ASSUME NEW k \in Closer, Close(s, k) PROVE ServerInv(s)'
  <2>1. /\ ~active'[s] /\ starts[s] # 0
        /\ UNCHANGED <<services, thread, starts, ack, net>>
    BY <1>2 DEF Close, TypeOK, registryVars
  <2>2. Joined(s)' => thread'[s] = "end"
    BY <1>2, CloseJoins DEF LifeInv
  <2> QED
    BY <2>1, <2>2 DEF LifeInv, DatagramInv, FoundInv
<1>3. CASE BgLoop(s) \/ RegisterRefused(s)
  <2>1. /\ thread[s] \in {"loop", "send"} /\ thread'[s] \in {"loop", "send", "end"}
        /\ UNCHANGED <<services, active, due, closing, starts, missed, acked, ack, net>>
    BY <1>3 DEF BgLoop, RegisterRefused, TypeOK, registryVars
  <2> QED
    BY <2>1 DEF LifeInv, Joined, DatagramInv, FoundInv, Age
<1>4. ASSUME NEW k \in Closer, UnregisterRefused(s, k) PROVE ServerInv(s)'
  <2>1. UNCHANGED <<services, active, thread, due, starts, missed, acked, ack, net>>
    BY <1>4 DEF UnregisterRefused, registryVars
  <2>2. ~active[s] /\ starts[s] # 0
    BY <1>4 DEF UnregisterRefused, MayUnregister, LifeInv
  <2>3. Joined(s)' => thread'[s] = "end"
    BY <1>4, CloseJoins DEF LifeInv
  <2> QED
    BY <2>1, <2>2, <2>3 DEF LifeInv, DatagramInv, FoundInv, Age
<1> QED
  BY <1>1, <1>2, <1>3, <1>4

(* REGISTER and UNREGISTER are sent *)
LEMMA SendKeeps ==
    ASSUME TypeOK, NEW s \in Server, ServerInv(s),
           BgSend(s) \/ \E k \in Closer : Unregister(s, k)
    PROVE  ServerInv(s)'
<1> USE DEF ServerInv
<1>1. CASE BgSend(s)
  <2>1. PICK q \in Seq(Datagram) :
            /\ net' = [net EXCEPT ![s] = q]
            /\ \A k \in Datagram : Has(q, k) => k = "REGISTER" \/ Has(net[s], k)
            /\ InOrder(net[s]) => InOrder(q)
    BY <1>1, Posts, Zenon DEF BgSend, Datagram
  <2>2. /\ net'[s] = q /\ (Has(q, "UNREGISTER") => Has(net[s], "UNREGISTER"))
        /\ thread[s] = "send" /\ thread'[s] = "await"
        /\ UNCHANGED <<services, active, due, closing, starts, missed, acked, ack>>
    BY <1>1, <2>1, QueueChanges DEF BgSend, TypeOK, registryVars, Datagram
  <2> QED
    BY <2>1, <2>2 DEF LifeInv, Joined, DatagramInv, FoundInv, Age
<1>2. ASSUME NEW k \in Closer, Unregister(s, k) PROVE ServerInv(s)'
  <2>1. UNCHANGED <<services, active, thread, due, starts, missed, acked, ack>>
    BY <1>2 DEF Unregister, registryVars
  <2>2. ~active[s] /\ starts[s] # 0
    BY <1>2 DEF Unregister, MayUnregister, LifeInv
  <2>3. Joined(s)' => thread'[s] = "end"
    BY <1>2, CloseJoins DEF LifeInv
  <2>4. PICK q \in Seq(Datagram) :
            /\ net' = [net EXCEPT ![s] = q]
            /\ \A m \in Datagram : Has(q, m) => m = "UNREGISTER" \/ Has(net[s], m)
    BY <1>2, Posts, Zenon DEF Unregister, Datagram
  <2>5. net'[s] = q /\ (Has(q, "REGISTER") => Has(net[s], "REGISTER"))
    BY <2>4, QueueChanges DEF Datagram
  <2> QED
    BY <2>1, <2>2, <2>3, <2>5 DEF LifeInv, DatagramInv, FoundInv, Age
<1> QED
  BY <1>1, <1>2

(* register() is over, whether it was answered or not *)
LEMMA ReplyKeeps ==
    ASSUME TypeOK, NEW s \in Server, ServerInv(s), BgAcknowledged(s) \/ BgTimeout(s)
    PROVE  ServerInv(s)'
<1> USE DEF ServerInv
<1>1. PICK q \in Seq(Datagram) :
          /\ net' = [net EXCEPT ![s] = q]
          /\ ~Has(q, "REGISTER") /\ (Has(q, "UNREGISTER") => Has(net[s], "UNREGISTER"))
  BY Closes DEF BgAcknowledged, BgTimeout
<1>2. /\ net'[s] = q /\ thread[s] = "await" /\ thread'[s] = "loop"
      /\ UNCHANGED <<services, active, closing, starts>>
  BY <1>1, QueueChanges DEF BgAcknowledged, BgTimeout, TypeOK, registryVars
<1>3. InOrder(q) /\ ~Joined(s)' /\ active[s] \in BOOLEAN
  BY <1>1, <1>2 DEF InOrder, Has, LifeInv, Joined, TypeOK
<1>4. CASE BgAcknowledged(s)
  <2>1. ack[s] /\ ~ack'[s] /\ ~due'[s] /\ missed'[s] = 0 /\ (acked'[s] = active[s])
    BY <1>4 DEF BgAcknowledged, TypeOK
  <2>2. LifeInv(s)'
    BY <1>2, <1>3, <2>1 DEF LifeInv
  <2>3. DatagramInv(s)'
    BY <1>1, <1>2, <1>3, <2>1 DEF DatagramInv
  <2>4. FoundInv(s)'
    BY <1>2, <2>1 DEF FoundInv, Age
  <2> QED
    BY <2>2, <2>3, <2>4
<1>5. CASE BgTimeout(s)
  <2>1. UNCHANGED <<due, missed, acked, ack>> /\ ~ack[s]
    BY <1>5 DEF BgTimeout
  <2> QED
    BY <1>1, <1>2, <1>3, <2>1 DEF LifeInv, DatagramInv, FoundInv, Age
<1> QED
  BY <1>4, <1>5

(* datagrams are lost *)
LEMMA LoseKeeps ==
    ASSUME TypeOK, NEW s \in Server, ServerInv(s), Lose(s) \/ Discard(s)
    PROVE  ServerInv(s)'
<1>1. PICK q : /\ Thinned(q, net[s]) /\ net' = [net EXCEPT ![s] = q]
               /\ UNCHANGED <<registryVars, serverVars, ack>>
  BY Losses
<1>2. net'[s] = q /\ net[s] \in Seq(Datagram)
  BY <1>1, QueueChanges DEF Thinned, TypeOK, Datagram
<1>3. (\A m : Has(q, m) => Has(net[s], m)) /\ (InOrder(net[s]) => InOrder(q))
  BY <1>1, <1>2, ThinnedKeeps
<1> QED
  BY <1>1, <1>2, <1>3
     DEF ServerInv, LifeInv, Joined, DatagramInv, FoundInv, Age, registryVars, serverVars

(* whoever is found was not told to go: a REGISTER or an older one is executed, or an
   UNREGISTER of a server that nobody has acknowledged since *)
LEMMA DeliverKeeps ==
    ASSUME TypeOK, NEW s \in Server, ServerInv(s), Deliver(s) \/ DeliverLate(s)
    PROVE  ServerInv(s)'
<1>1. PICK i \in DOMAIN net[s] : \E r :
         Receive(s, i, r) /\ Thinned(r, net[s]) /\ (MayDelay \/ (i = 1 /\ r = Tail(net[s])))
  BY Deliveries
<1>2. PICK q :
         Receive(s, i, q) /\ Thinned(q, net[s]) /\ (MayDelay \/ (i = 1 /\ q = Tail(net[s])))
  BY <1>1
<1>3. net[s] \in Seq(Datagram)
  BY DEF TypeOK, Datagram
<1>4. (\A m : Has(q, m) => Has(net[s], m)) /\ (InOrder(net[s]) => InOrder(q))
  BY <1>2, <1>3, ThinnedKeeps
<1>5. /\ net' = [net EXCEPT ![s] = q]
      /\ \/ CmdRegister(s) /\ net[s][i] # "UNREGISTER"
         \/ CmdUnregister(s) /\ net[s][i] \notin {"REGISTER", "OUTDATED"}
      /\ \/ UNCHANGED ack
         \/ ack' = [ack EXCEPT ![s] = TRUE] /\ net[s][i] = "REGISTER"
      /\ UNCHANGED serverVars
  BY <1>2, Receives
<1>6. net'[s] = q
  BY <1>2, <1>5, QueueChanges DEF Thinned
<1>7. LifeInv(s)'
  <2>1. net[s][i] = "REGISTER" => thread[s] = "await"
    BY DEF Has, ServerInv, DatagramInv
  <2>2. ack'[s] => thread[s] = "await"
    BY <1>5, <2>1 DEF ServerInv, LifeInv
  <2> QED
    BY <1>5, <2>2 DEF serverVars, ServerInv, LifeInv, Joined
(* no UNREGISTER is left when a REGISTER a running server waits for gets there *)
<1>8. ASSUME net[s][i] = "REGISTER", active[s]
      PROVE  ~Has(q, "UNREGISTER")
  <2>1. thread[s] = "await" /\ Has(net[s], "REGISTER")
    BY <1>8 DEF Has, ServerInv, DatagramInv
  <2>2. CASE MayDelay
    BY <1>4, <1>8, <2>1, <2>2 DEF ServerInv, DatagramInv, LifeInv
  <2>3. CASE i = 1 /\ q = Tail(net[s])
    <3>1. SUFFICES ASSUME Has(q, "UNREGISTER") PROVE FALSE
      OBVIOUS
    <3>2. PICK j \in DOMAIN net[s] : net[s][j] = "UNREGISTER"
      BY <1>4, <3>1 DEF Has
    <3>3. j < 1
      BY <1>8, <2>3, <3>2 DEF ServerInv, DatagramInv, InOrder
    <3> QED
      BY <1>3, <3>2, <3>3
  <2> QED
    BY <1>2, <2>2, <2>3
<1>9. DatagramInv(s)'
  <2>1. CASE UNCHANGED ack
    BY <1>4, <1>5, <1>6, <2>1 DEF serverVars, ServerInv, DatagramInv
  <2>2. CASE net[s][i] = "REGISTER"
    BY <1>4, <1>5, <1>6, <1>8, <2>2 DEF serverVars, ServerInv, DatagramInv
  <2> QED
    BY <1>5, <2>1, <2>2
<1>10. FoundInv(s)'
  <2> SUFFICES ASSUME NEW n \in Aliases[s]
               PROVE  /\ active[s] /\ ack'[s] => services'[<<n, s>>] = 0
                      /\ active[s] /\ acked[s] => services'[<<n, s>>] \in 0 .. Age(s)
    BY <1>5 DEF FoundInv, Age, serverVars
  <2>1. <<n, s>> \in Entry /\ Age(s) \in Nat
    BY RegistryAssumption DEF Entry, Age, TypeOK
  <2>2. CASE CmdRegister(s)
    <3>1. services'[<<n, s>>] = 0
      BY <2>1, <2>2 DEF CmdRegister
    <3> QED
      BY <2>1, <3>1
  <2>3. CASE net[s][i] = "UNREGISTER"
    <3>1. Has(net[s], "UNREGISTER") /\ UNCHANGED ack
      BY <1>5, <2>3 DEF Has
    <3> QED
      BY <3>1 DEF ServerInv, DatagramInv
  <2> QED
    BY <1>3, <1>5, <2>2, <2>3 DEF Datagram
<1> QED
  BY <1>7, <1>9, <1>10 DEF ServerInv

-----------------------------------------------------------------------------
(* a query drops stale entries only *)
LEMMA QueryKeepsServer ==
    ASSUME TypeOK, Punctual, NEW n \in Name, Query(n), NEW s \in Server, ServerInv(s)
    PROVE  ServerInv(s)'
<1>1. /\ \A e \in Entry : services'[e] = services[e] \/ services[e] = Stale
      /\ UNCHANGED <<serverVars, ack, net>>
  BY DEF Query, Remove, TypeOK
<1>2. ASSUME NEW k \in Aliases[s],
             \/ services[<<k, s>>] = 0
             \/ active[s] /\ acked[s] /\ services[<<k, s>>] \in 0 .. Age(s)
      PROVE  services'[<<k, s>>] = services[<<k, s>>]
  <2>1. <<k, s>> \in Entry
    BY RegistryAssumption DEF Entry
  <2>2. missed[s] \in 0 .. MaxMissed /\ MaxMissed \in Nat /\ Prune \in Nat /\ MaxMissed < Prune
    BY RegistryAssumption DEF TypeOK, Punctual
  <2>3. Age(s) \in Nat /\ Age(s) <= Prune
    BY <2>2 DEF Age
  <2>4. services[<<k, s>>] # Stale
    BY <1>2, <2>2, <2>3 DEF Stale
  <2> QED
    BY <1>1, <2>1, <2>4
<1>3. FoundInv(s)'
  BY <1>1, <1>2 DEF ServerInv, FoundInv, Age, serverVars
<1> QED
  BY <1>1, <1>3 DEF ServerInv, LifeInv, Joined, DatagramInv, serverVars

(* with an interval the entries grow older, and so does the REGISTER that made them *)
LEMMA TickKeepsServer ==
    ASSUME TypeOK, Punctual, Tick, NEW s \in Server, ServerInv(s)
    PROVE  ServerInv(s)'
<1>1. /\ \A e \in Entry : services'[e] = Older(services[e])
      /\ thread[s] \notin {"send", "await"} /\ (active[s] /\ due[s] => missed[s] < MaxMissed)
      /\ missed'[s] = (IF active[s] /\ due[s] THEN missed[s] + 1 ELSE 0) /\ due'[s] = active[s]
      /\ UNCHANGED <<active, thread, closing, starts, acked, ack, net>>
  BY DEF Tick
<1>2. LifeInv(s)'
  BY <1>1 DEF ServerInv, LifeInv, Joined
<1>3. DatagramInv(s)'
  BY <1>1 DEF ServerInv, DatagramInv
<1>4. ASSUME NEW n \in Aliases[s], active[s], acked[s]
      PROVE  services'[<<n, s>>] \in 0 .. Age(s)'
  <2>1. <<n, s>> \in Entry
    BY RegistryAssumption DEF Entry
  <2>2. /\ missed[s] \in 0 .. MaxMissed /\ MaxMissed \in Nat /\ Prune \in Nat
        /\ MaxMissed < Prune
    BY RegistryAssumption DEF TypeOK, Punctual
  <2>3. services[<<n, s>>] \in 0 .. Age(s) /\ (~due[s] => missed[s] = 0)
    BY <1>4 DEF ServerInv, FoundInv, LifeInv
  <2>4. Age(s) \in Nat /\ Age(s) <= Prune /\ Age(s)' = Age(s) + 1
    <3>1. due[s] \in BOOLEAN
      BY DEF TypeOK
    <3>2. CASE due[s]
      BY <1>1, <1>4, <2>2, <3>2 DEF Age
    <3>3. CASE ~due[s]
      BY <1>1, <1>4, <2>2, <2>3, <3>3 DEF Age
    <3> QED
      BY <3>2, <3>3
  <2>5. services'[<<n, s>>] = services[<<n, s>>] + 1
    BY <1>1, <2>1, <2>2, <2>3, <2>4 DEF Older, Absent, Stale
  <2> QED
    BY <2>3, <2>4, <2>5
<1>5. FoundInv(s)'
  <2>1. ~ack'[s]
    BY <1>1 DEF ServerInv, LifeInv
  <2> QED
    BY <1>1, <1>4, <2>1 DEF FoundInv
<1> QED
  BY <1>2, <1>3, <1>5 DEF ServerInv

(* what is known of the registry and of every server, together *)
RegistryInv == TypeOK /\ AgreeInv /\ \A s \in Server : ServerInv(s)

(* at first nobody is registered and nothing is under way *)
LEMMA InvInit == TransportInit => RegistryInv
<1> SUFFICES ASSUME TransportInit PROVE RegistryInv
  OBVIOUS
<1>1. Init
  BY DEF TransportInit
<1>2. AgreeInv
  BY <1>1, RegistryAssumption DEF Init, AgreeInv, Ages, ObserverAgrees, Registered, Absent, Stale
<1>3. TypeOK
  <2>1. 0 \in 0 .. MaxStarts /\ 0 \in 0 .. MaxMissed
    BY RegistryAssumption
  <2>2. <<>> \in Seq({"REGISTER", "OUTDATED", "UNREGISTER"})
    OBVIOUS
  <2> QED
    BY <1>1, <1>2, <2>1, <2>2 DEF Init, TypeOK, AgreeInv, Ages
<1>4. ASSUME NEW s \in Server PROVE ServerInv(s)
  <2>1. net[s] = <<>> /\ \A m : ~Has(net[s], m)
    BY <1>1 DEF Init, Has
  <2> QED
    BY <1>1, <2>1 DEF Init, ServerInv, LifeInv, Joined, DatagramInv, InOrder, FoundInv
<1> QED
  BY <1>2, <1>3, <1>4 DEF RegistryInv

(* every step keeps it *)
LEMMA InvStep ==
    ASSUME Punctual
    PROVE  RegistryInv /\ [TransportNext]_allVars => RegistryInv'
<1> SUFFICES ASSUME RegistryInv, [TransportNext]_allVars PROVE RegistryInv'
  OBVIOUS
<1> USE DEF RegistryInv
<1>1. TypeOK' /\ AgreeInv'
  BY TypesKept, StepKeeps
<1>2. ASSUME NEW s \in Server, OwnStep(s), NEW u \in Server
      PROVE  ServerInv(u)'
  <2>1. CASE u # s
    BY <1>2, <2>1, OthersUntouched, UntouchedKeeps
  <2>2. CASE u = s
    BY <1>2, <2>2, QuietStepKeeps, SendKeeps, ReplyKeeps, LoseKeeps, DeliverKeeps DEF OwnStep
  <2> QED
    BY <2>1, <2>2
<1>3. ASSUME WorkStep \/ UNCHANGED vars, NEW u \in Server
      PROVE  ServerInv(u)'
  BY <1>3, UntouchedKeeps DEF Untouched, WorkStep, vars, registryVars, serverVars
<1> QED
  BY <1>1, <1>2, <1>3, StepsAreOwn, QueryKeepsServer, TickKeepsServer

(* A server that runs and whose registration was acknowledged is found under each of
   its names, if it gets through once in the pruning timeout and, where datagrams may
   be overtaken, is not started again: the UNREGISTER of its former life might be. *)
THEOREM RegisteredAreFound ==
    ASSUME Punctual
    PROVE  TransportSpec => []Discoverable
<1>1. RegistryInv => Discoverable
  <2> SUFFICES ASSUME RegistryInv, NEW s \in Server, active[s], acked[s], NEW n \in Aliases[s]
               PROVE  s \in Found(n)
    BY DEF Discoverable
  <2>1. services[<<n, s>>] \in 0 .. Age(s)
    BY DEF RegistryInv, ServerInv, FoundInv
  <2>2. missed[s] \in 0 .. MaxMissed /\ MaxMissed \in Nat /\ Prune \in Nat /\ MaxMissed < Prune
    BY RegistryAssumption DEF RegistryInv, TypeOK, Punctual
  <2>3. Age(s) \in Nat /\ Age(s) <= Prune
    BY <2>2 DEF Age
  <2>4. services[<<n, s>>] \in 0 .. Prune
    BY <2>1, <2>2, <2>3
  <2> QED
    BY <2>4 DEF Found
<1> QED
  BY <1>1, InvInit, InvStep, PTL DEF TransportSpec

-----------------------------------------------------------------------------
(* a registration thread that close() has joined has ended *)
Rested == \A s \in Server : Joined(s) => thread[s] = "end"

(* the close() that takes the thread joins it, and only start() makes a new one *)
LEMMA RestedStep ==
    TypeOK /\ AgreeInv /\ Rested /\ [TransportNext]_allVars => TypeOK' /\ AgreeInv' /\ Rested'
<1> SUFFICES ASSUME TypeOK, AgreeInv, Rested, [TransportNext]_allVars
             PROVE  TypeOK' /\ AgreeInv' /\ Rested'
  OBVIOUS
<1>1. TypeOK' /\ AgreeInv'
  BY TypesKept, StepKeeps
<1>2. ASSUME NEW s \in Server, OwnStep(s)
      PROVE  Joined(s)' => thread'[s] = "end"
  <2>1. CASE Start(s)
    <3>1. \A k \in Closer : closing'[s][k] = "no"
      BY <2>1 DEF Start, TypeOK
    <3> QED
      BY <3>1 DEF Joined
  <2>2. CASE \E k \in Closer : Close(s, k) \/ Unregister(s, k) \/ UnregisterRefused(s, k)
    BY <2>2, CloseJoins DEF Rested
  <2>3. CASE BgLoop(s) \/ BgSend(s) \/ BgAcknowledged(s) \/ BgTimeout(s) \/ RegisterRefused(s)
    BY <2>3 DEF BgLoop, BgSend, BgAcknowledged, BgTimeout, RegisterRefused, Rested, Joined
  <2>4. CASE Deliver(s) \/ DeliverLate(s)
    BY <2>4, Deliveries, Receives DEF serverVars, Rested, Joined
  <2>5. CASE Lose(s) \/ Discard(s)
    BY <2>5 DEF Lose, Discard, serverVars, Rested, Joined
  <2> QED
    BY <1>2, <2>1, <2>2, <2>3, <2>4, <2>5 DEF OwnStep
<1>3. CASE \E s \in Server : OwnStep(s)
  BY <1>1, <1>2, <1>3, OthersUntouched DEF Rested, Joined, Untouched
<1>4. CASE (\E n \in Name : Query(n)) \/ Tick \/ WorkStep \/ UNCHANGED vars
  BY <1>1, <1>4 DEF Query, Tick, WorkStep, vars, serverVars, Rested, Joined
<1> QED
  BY <1>1, <1>3, <1>4, StepsAreOwn

(* No REGISTER follows the UNREGISTER of the close() that has joined the registration
   thread until the server is started again, over either transport and whoever else
   calls close() at the same time. *)
THEOREM NothingFollowsUnregister == TransportSpec => UnregisterIsLast
<1>1. TransportInit => TypeOK /\ AgreeInv /\ Rested
  BY InvInit DEF RegistryInv, ServerInv, LifeInv, Rested
<1>2. TypeOK /\ AgreeInv /\ Rested /\ [TransportNext]_allVars
      => [\A s \in Server : Joined(s) => ~Sends(s, "REGISTER")]_vars
  <2> SUFFICES ASSUME TypeOK, Rested, [TransportNext]_allVars, NEW s \in Server,
                      Joined(s), Sends(s, "REGISTER")
               PROVE  FALSE
    OBVIOUS
  <2>1. thread[s] = "end" /\ net[s] \in Seq(Datagram) /\ Len(net[s]) \in Nat
    BY DEF Rested, TypeOK, Datagram
  <2>2. Len(net'[s]) > Len(net[s]) /\ net'[s][Len(net'[s])] = "REGISTER"
    BY DEF Sends
  <2>3. CASE OwnStep(s)
    <3>1. CASE \/ Start(s)
               \/ \E k \in Closer : Close(s, k) \/ UnregisterRefused(s, k)
      BY <2>1, <2>2, <3>1 DEF Start, Close, UnregisterRefused
    <3>2. CASE BgLoop(s) \/ BgSend(s) \/ BgAcknowledged(s) \/ BgTimeout(s) \/ RegisterRefused(s)
      BY <2>1, <2>2, <3>2 DEF BgLoop, BgSend, BgAcknowledged, BgTimeout, RegisterRefused
    <3>3. CASE \E k \in Closer : Unregister(s, k)
      <4>1. PICK q \in Seq(Datagram) : net' = [net EXCEPT ![s] = q] /\ q[Len(q)] = "UNREGISTER"
        BY <3>3, Posts, Zenon DEF Unregister, Datagram
      <4>2. net'[s] = q
        BY <4>1, QueueChanges
      <4> QED
        BY <2>2, <4>1, <4>2
    <3>4. CASE Deliver(s) \/ DeliverLate(s)
      <4>1. Len(net'[s]) <= Len(net[s]) /\ Len(net'[s]) \in Nat
        BY <3>4, Deliveries, Receives, QueueChanges DEF Thinned
      <4> QED
        BY <2>1, <2>2, <4>1
    <3>5. CASE Lose(s) \/ Discard(s)
      <4>1. Len(net'[s]) <= Len(net[s]) /\ Len(net'[s]) \in Nat
        BY <3>5, Losses, QueueChanges DEF Thinned
      <4> QED
        BY <2>1, <2>2, <4>1
    <3> QED
      BY <2>3, <3>1, <3>2, <3>3, <3>4, <3>5 DEF OwnStep
  <2>4. CASE \E u \in Server : OwnStep(u) /\ u # s
    BY <2>1, <2>2, <2>4, QueuesKept
  <2>5. CASE (\E n \in Name : Query(n)) \/ Tick \/ WorkStep \/ UNCHANGED vars
    <3>1. net' = net
      BY <2>5, Zenon DEF Query, Tick, WorkStep, vars
    <3> QED
      BY <2>1, <2>2, <3>1
  <2> QED
    BY <2>3, <2>4, <2>5, StepsAreOwn
<1> QED
  BY <1>1, <1>2, RestedStep, PTL DEF TransportSpec, UnregisterIsLast
=============================================================================
