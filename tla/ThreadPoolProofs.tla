-------------------------- MODULE ThreadPoolProofs --------------------------
(* For any number of clients, workers, requests and callers of close(), numbers being
   handed out again and again: as long as the kernel does not hand out one that the
   pool still knows, a connection is always in exactly one place and it is dropped
   only after its client has gone.  (The run thread_pool_reuse shows what happens
   without this assumption.) *)
EXTENDS ThreadPool, TLAPS

(* a worker holds a number while it serves it, also while it is in close(), the main
   thread a new connection *)
HandInv ==
    /\ main = "accept" <=> inHand = NoConn
    /\ \A w \in Worker : held[w] = NoFd <=> pc[w] \in {"loop", "get", "end"}
    /\ \A w \in Worker : closing[w] \in {"take", "join_poller", "stop", "join_workers"}
                            => pc[w] \in {"close", "closed"}

(* a client in the table has been accepted *)
KnownInv == \A f \in Fd : fdToConn[f] # NoConn => sent[fdToConn[f]] > 0

(* the table names the only client that may be open on a number *)
OwnInv ==
    /\ \A c, d \in Client : fd[c] = fd[d] /\ fd[c] # NoFd => c = d
    /\ \A f \in Fd : \A c \in Client : fdToConn[f] = c => fd[c] \in {f, NoFd}
    /\ \A f \in Fd : \A c \in Client : fd[c] = f => fdToConn[f] \in {c, NoConn}

(* nobody else knows the number of a connection that is being accepted *)
FreshInv ==
    main # "accept" => /\ fd[inHand] \in Fd /\ ~InPlace(fd[inHand])
                       /\ sent[inHand] > 0

(* a worker that is about to drop a number has seen its connection closed *)
DropInv == \A w \in Worker : pc[w] = "drop" => \A c \in Client : fd[c] # held[w]

(* what poll() has returned stays true: the poller alone takes a number away *)
EventInv ==
    /\ \A e \in events : e[1] \in inactive
    /\ \A d, e \in events : d[1] = e[1] => d = e
    /\ \A e \in events : e[2] = "h" => \A c \in Client : fd[c] = e[1] => c \in gone

Types == TypeOK /\ HandInv
Core  == KnownInv /\ OwnInv /\ FreshInv /\ OnePlace /\ DropInv /\ OnlyGoneAreDropped
IInv  == Types /\ Core /\ EventInv

-----------------------------------------------------------------------------
(* types, and who holds something *)

LEMMA PlacesHaveTypes ==
    ASSUME TypeOK, HandInv
    PROVE  /\ \A w \in Worker : pc[w] \notin {"loop", "get", "end"} => held[w] \in Fd
           /\ main # "accept" => inHand \in Client
           /\ \A e \in events : e[1] \in Fd
  BY DEF TypeOK, HandInv

LEMMA Appended ==
    ASSUME NEW S, NEW q \in Seq(S), NEW e \in S
    PROVE  Append(q, e) \in Seq(S)
  OBVIOUS

LEMMA Constants ==
    /\ BatchSize \in Nat \ {0} /\ 0 \in 0 .. BatchSize
    /\ NoConn \notin Client /\ NoFd \notin Fd /\ Stop \notin Fd
  BY ThreadPoolAssumption

LEMMA Threads ==
    /\ Worker \subseteq Thread /\ {User, PollingThread, StartThread} \subseteq Thread
    /\ PollingThread \notin Worker /\ User \notin Worker /\ StartThread \notin Worker
  BY ThreadPoolAssumption DEF Worker, Thread, User, PollingThread, StartThread

LEMMA BeginTypes ==
    ASSUME TypeOK, NEW k \in Thread, BeginClose(k)
    PROVE  /\ active' \in BOOLEAN /\ polling' \in BOOLEAN
           /\ closing' \in [Thread -> {"no", "take", "join_poller", "stop", "join_workers", "end", "raised"}]
  BY DEF TypeOK, BeginClose

LEMMA LeaveTypes ==
    ASSUME TypeOK, HandInv, NEW k \in Thread, NEW how \in {"end", "raised"}, LeaveClose(k, how),
           k \in Worker => pc[k] \notin {"loop", "get", "end"}
    PROVE  /\ closing' \in [Thread -> {"no", "take", "join_poller", "stop", "join_workers", "end", "raised"}]
           /\ pc' \in [Worker -> {"loop", "get", "serve", "register", "drop", "close", "closed", "failed", "end"}]
           /\ \A w \in Worker : /\ pc'[w] \in {"loop", "get", "end"} <=> pc[w] \in {"loop", "get", "end"}
                                /\ pc'[w] = "drop" => pc[w] = "drop"
           /\ poller' \in {"poll", "handle", "close", "end"} /\ events' \subseteq events
<1>1. \/ UNCHANGED pc
      \/ k \in Worker /\ pc' = [pc EXCEPT ![k] = "serve"]
      \/ k \in Worker /\ pc' = [pc EXCEPT ![k] = "failed"]
  BY DEF LeaveClose, Work
<1>2. closing' = [closing EXCEPT ![k] = how]
  BY DEF LeaveClose
<1>3. poller' \in {"poll", "handle", "close", "end"} /\ events' \subseteq events
  BY DEF LeaveClose, TypeOK, pollVars
<1>4. pc' \in [Worker -> {"loop", "get", "serve", "register", "drop", "close", "closed", "failed", "end"}]
  BY <1>1 DEF TypeOK
<1>5. \A w \in Worker : /\ pc'[w] \in {"loop", "get", "end"} <=> pc[w] \in {"loop", "get", "end"}
                        /\ pc'[w] = "drop" => pc[w] = "drop"
  BY <1>1 DEF TypeOK
<1> QED
  BY <1>2, <1>3, <1>4, <1>5 DEF TypeOK

LEMMA MainTypes ==
    ASSUME TypeOK, HandInv, FreshInv, MainStep
    PROVE  TypeOK' /\ HandInv'
<1> USE Constants DEF TypeOK, HandInv, workerVars, pollVars, tableVars, clientVars, closeVars
<1>1. ASSUME NEW c \in Client, Accept(c) PROVE TypeOK' /\ HandInv'
  BY <1>1 DEF Accept, Free
<1>2. CASE RefuseConn
  BY <1>2 DEF RefuseConn, CloseConn
<1>3. CASE RecordConn
  BY <1>3 DEF RecordConn
<1>4. CASE RegisterConn
  BY <1>4 DEF RegisterConn, FreshInv
<1>5. CASE CloseAtEnd
  <2>1. /\ active' \in BOOLEAN /\ polling' \in BOOLEAN
        /\ closing' \in [Thread -> {"no", "take", "join_poller", "stop", "join_workers", "end", "raised"}]
    BY <1>5, BeginTypes, Threads DEF CloseAtEnd
  <2>2. \A w \in Worker : closing'[w] = closing[w]
    BY <1>5, Threads DEF CloseAtEnd, BeginClose
  <2> QED
    BY <1>5, <2>1, <2>2 DEF CloseAtEnd, mainVars
<1> QED
  BY <1>1, <1>2, <1>3, <1>4, <1>5 DEF MainStep

LEMMA DropTypes ==
    ASSUME TypeOK, NEW f \in Fd, DropConnection(f)
    PROVE  /\ fdToConn' \in [Fd -> Client \cup {NoConn}]
           /\ fd' \in [Client -> Fd \cup {NoFd}]
           /\ killed' \subseteq Client
  BY DEF TypeOK, DropConnection, CloseConn

LEMMA PollTypes ==
    ASSUME TypeOK, HandInv, PollerStep
    PROVE  TypeOK' /\ HandInv'
<1> USE DEF TypeOK, HandInv, workerVars, mainVars, clientVars, tableVars, closeVars
<1>1. CASE Poll
  <2>1. poller' \in {"poll", "handle", "close", "end"} /\ events' \subseteq Fd \X {"h", "r"}
    <3>1. CASE active
      <4>1. PICK evts \in [inactive -> {"h", "r", "none"}] :
                  /\ events' = {<<f, evts[f]>> : f \in {g \in inactive : evts[g] # "none"}}
                  /\ poller' = "handle"
        BY <1>1, <3>1 DEF Poll
      <4> QED
        BY <4>1
    <3>2. CASE ~active
      BY <1>1, <3>2 DEF Poll
    <3> QED
      BY <3>1, <3>2
  <2> QED
    BY <1>1, <2>1 DEF Poll
<1>2. CASE HandlePollResult
  <2>1. PICK e \in events :
           /\ events' = events \ {e}
           /\ poller' = IF events = {e} THEN "poll" ELSE "handle"
           /\ inactive' = inactive \ {e[1]}
           /\ IF e[2] = "h"
                THEN DropConnection(e[1]) /\ UNCHANGED queue
                ELSE queue' = Append(queue, e[1]) /\ UNCHANGED <<fdToConn, fd, killed>>
           /\ UNCHANGED <<closeVars, workerVars, mainVars, clientVars>>
    BY <1>2 DEF HandlePollResult
  <2>2. e[1] \in Fd
    OBVIOUS
  <2>3. CASE e[2] = "h"
    BY <2>1, <2>2, <2>3, DropTypes
  <2>4. CASE e[2] # "h"
    <3>0. queue' = Append(queue, e[1]) /\ queue \in Seq(Fd \cup {Stop}) /\ e[1] \in Fd \cup {Stop}
      BY <2>1, <2>2, <2>4
    <3>1. queue' \in Seq(Fd \cup {Stop})
      BY <3>0, Appended
    <3> QED
      BY <2>1, <2>4, <3>1
  <2> QED
    BY <2>3, <2>4
<1>3. CASE CloseInPoller
  <2>1. PICK e \in events : /\ events' = events \ {e} /\ inactive' = inactive \ {e[1]}
                            /\ DropConnection(e[1])
    BY <1>3 DEF CloseInPoller
  <2>2. e[1] \in Fd
    OBVIOUS
  <2>3. /\ active' \in BOOLEAN /\ polling' \in BOOLEAN
        /\ closing' \in [Thread -> {"no", "take", "join_poller", "stop", "join_workers", "end", "raised"}]
    BY <1>3, BeginTypes, Threads DEF CloseInPoller
  <2>4. /\ fdToConn' \in [Fd -> Client \cup {NoConn}] /\ fd' \in [Client -> Fd \cup {NoFd}]
        /\ killed' \subseteq Client
    BY <2>1, <2>2, DropTypes
  <2>5. \A w \in Worker : closing'[w] = closing[w]
    BY <1>3, Threads DEF CloseInPoller, BeginClose
  <2> QED
    BY <1>3, <2>1, <2>3, <2>4, <2>5 DEF CloseInPoller
<1> QED
  BY <1>1, <1>2, <1>3 DEF PollerStep

LEMMA BatchTypes ==
    ASSUME TypeOK, NEW w \in Worker,
           \/ batch' = [batch EXCEPT ![w] = 0]
           \/ batch[w] < BatchSize /\ batch' = [batch EXCEPT ![w] = @ + 1]
    PROVE  batch' \in [Worker -> 0 .. BatchSize]
<1>1. batch \in [Worker -> 0 .. BatchSize] /\ BatchSize \in Nat
  BY Constants DEF TypeOK
<1>2. batch[w] < BatchSize => batch[w] + 1 \in 0 .. BatchSize
  BY <1>1
<1> QED
  BY <1>1, <1>2, Constants

LEMMA PendingTypes ==
    ASSUME TypeOK, NEW c, c \in Client \cup {NoConn}, c # NoConn, pending[c] > 0,
           pending' = [pending EXCEPT ![c] = @ - 1]
    PROVE  pending' \in [Client -> Nat]
<1>1. pending \in [Client -> Nat] /\ c \in Client
  BY DEF TypeOK
<1>2. pending[c] - 1 \in Nat
  BY <1>1
<1> QED
  BY <1>1, <1>2

(* a worker that has let go of its number *)
LEMMA FreeTypes ==
    ASSUME TypeOK, HandInv, NEW w \in Worker, pc[w] \in {"serve", "register", "drop", "failed"},
           held' = [held EXCEPT ![w] = NoFd], batch' = [batch EXCEPT ![w] = 0],
           Work(w, "loop"), UNCHANGED <<closing, main, inHand>>
    PROVE  /\ held' \in [Worker -> Fd \cup {NoFd}] /\ batch' \in [Worker -> 0 .. BatchSize]
           /\ pc' \in [Worker -> {"loop", "get", "serve", "register", "drop", "close", "closed", "failed", "end"}]
           /\ HandInv'
<1>1. batch' \in [Worker -> 0 .. BatchSize]
  BY BatchTypes
<1>2. HandInv'
  BY DEF TypeOK, HandInv, Work
<1> QED
  BY <1>1, <1>2 DEF TypeOK, Work

(* a worker that stays with its number *)
LEMMA StayTypes ==
    ASSUME TypeOK, HandInv, NEW w \in Worker, NEW l \in {"serve", "register", "drop", "close", "closed"},
           pc[w] = "serve", Work(w, l) \/ (UNCHANGED pc /\ l = "serve"),
           UNCHANGED <<held, main, inHand>>,
           \A v \in Worker : closing'[v] = closing[v] \/ (v = w /\ l \in {"close", "closed"})
    PROVE  /\ pc' \in [Worker -> {"loop", "get", "serve", "register", "drop", "close", "closed", "failed", "end"}]
           /\ HandInv'
<1>1. \A v \in Worker : pc'[v] = IF v = w THEN l ELSE pc[v]
  BY DEF TypeOK, Work
<1>2. HandInv'
  BY <1>1 DEF HandInv
<1> QED
  BY <1>2 DEF TypeOK, Work

LEMMA WorkerTypes ==
    ASSUME TypeOK, HandInv, NEW w \in Worker, WorkerStep(w)
    PROVE  TypeOK' /\ HandInv'
<1> USE Constants
    DEF TypeOK, HandInv, pollVars, mainVars, clientVars, tableVars, Work, closeVars
<1>1. CASE Loop(w)
  BY <1>1 DEF Loop
<1>2. CASE Get(w)
  <2>1. Head(queue) \in Fd \cup {Stop} /\ queue' \in Seq(Fd \cup {Stop})
    BY <1>2 DEF Get
  <2>2. CASE Head(queue) = Stop
    BY <1>2, <2>1, <2>2 DEF Get
  <2>3. CASE Head(queue) # Stop
    <3>1. /\ pc' = [pc EXCEPT ![w] = "serve"]
          /\ held' = [held EXCEPT ![w] = Head(queue)] /\ Head(queue) \in Fd
          /\ UNCHANGED <<closeVars, fd, fdToConn, inactive, batch, pollVars, mainVars,
                         clientVars, killed>>
      BY <1>2, <2>1, <2>3 DEF Get
    <3>2. /\ pc' \in [Worker -> {"loop", "get", "serve", "register", "drop", "close", "closed", "failed", "end"}]
          /\ held' \in [Worker -> Fd \cup {NoFd}]
      BY <3>1 DEF TypeOK
    <3>3. HandInv'
      <4>1. /\ \A v \in Worker : /\ pc'[v] = IF v = w THEN "serve" ELSE pc[v]
                                 /\ held'[v] = IF v = w THEN Head(queue) ELSE held[v]
            /\ pc[w] = "get" /\ Head(queue) # NoFd
        BY <1>2, <3>1 DEF Get
      <4> QED
        BY <3>1, <4>1
    <3> QED
      BY <2>1, <3>1, <3>2, <3>3
  <2> QED
    BY <2>2, <2>3
<1>3. CASE ServeRequest(w)
  <2>1. pending' \in [Client -> Nat] /\ batch' \in [Worker -> 0 .. BatchSize]
    <3>1. fdToConn[held[w]] \in Client \cup {NoConn}
      BY <1>3, PlacesHaveTypes DEF ServeRequest
    <3> QED
      BY <1>3, <3>1, BatchTypes, PendingTypes DEF ServeRequest
  <2> QED
    BY <1>3, <2>1 DEF ServeRequest
<1>4. CASE NothingToServe(w)
  BY <1>4 DEF NothingToServe
<1>5. CASE AddInactive(w)
  <2>1. /\ held' \in [Worker -> Fd \cup {NoFd}] /\ batch' \in [Worker -> 0 .. BatchSize]
        /\ pc' \in [Worker -> {"loop", "get", "serve", "register", "drop", "close", "closed", "failed", "end"}]
        /\ HandInv'
    BY <1>5, FreeTypes DEF AddInactive
  <2>2. inactive' \subseteq Fd
    BY <1>5, PlacesHaveTypes DEF AddInactive
  <2> QED
    BY <1>5, <2>1, <2>2 DEF AddInactive
<1>6. CASE MeetsEnd(w)
  BY <1>6 DEF MeetsEnd, CloseConn
<1>7. CASE Drop(w)
  <2>1. /\ held' \in [Worker -> Fd \cup {NoFd}] /\ batch' \in [Worker -> 0 .. BatchSize]
        /\ pc' \in [Worker -> {"loop", "get", "serve", "register", "drop", "close", "closed", "failed", "end"}]
        /\ HandInv'
    BY <1>7, FreeTypes DEF Drop
  <2>2. /\ fdToConn' \in [Fd -> Client \cup {NoConn}] /\ fd' \in [Client -> Fd \cup {NoFd}]
        /\ killed' \subseteq Client
    <3>1. held[w] \in Fd
      BY <1>7, PlacesHaveTypes DEF Drop
    <3> QED
      BY <1>7, <3>1, DropTypes DEF Drop
  <2> QED
    BY <1>7, <2>1, <2>2 DEF Drop
<1>8. CASE PutBack(w)
  <2>1. /\ held' \in [Worker -> Fd \cup {NoFd}] /\ batch' \in [Worker -> 0 .. BatchSize]
        /\ pc' \in [Worker -> {"loop", "get", "serve", "register", "drop", "close", "closed", "failed", "end"}]
        /\ HandInv'
    BY <1>8, FreeTypes DEF PutBack
  <2>2. queue' \in Seq(Fd \cup {Stop})
    <3>1. held[w] \in Fd \cup {Stop} /\ queue \in Seq(Fd \cup {Stop}) /\ queue' = Append(queue, held[w])
      BY <1>8, PlacesHaveTypes DEF PutBack
    <3> QED
      BY <3>1, Appended
  <2> QED
    BY <1>8, <2>1, <2>2 DEF PutBack
<1>9. CASE CloseInService(w)
  <2>1. /\ active' \in BOOLEAN /\ polling' \in BOOLEAN
        /\ closing' \in [Thread -> {"no", "take", "join_poller", "stop", "join_workers", "end", "raised"}]
    BY <1>9, BeginTypes, Threads DEF CloseInService
  <2>2. pending' \in [Client -> Nat] /\ batch' \in [Worker -> 0 .. BatchSize]
    <3>1. fdToConn[held[w]] \in Client \cup {NoConn}
      BY <1>9, PlacesHaveTypes DEF CloseInService
    <3> QED
      BY <1>9, <3>1, BatchTypes, PendingTypes DEF CloseInService
  <2>3. \A v \in Worker : closing'[v] = closing[v] \/ v = w
    BY <1>9, Threads DEF CloseInService, BeginClose
  <2>4. /\ pc' \in [Worker -> {"loop", "get", "serve", "register", "drop", "close", "closed", "failed", "end"}]
        /\ HandInv'
    BY <1>9, <2>3, StayTypes DEF CloseInService
  <2> QED
    BY <1>9, <2>1, <2>2, <2>4 DEF CloseInService
<1>10. CASE CloseInDisconnect(w)
  <2>1. /\ active' \in BOOLEAN /\ polling' \in BOOLEAN
        /\ closing' \in [Thread -> {"no", "take", "join_poller", "stop", "join_workers", "end", "raised"}]
    BY <1>10, BeginTypes, Threads DEF CloseInDisconnect
  <2>2. fd' \in [Client -> Fd \cup {NoFd}]
    BY <1>10 DEF CloseInDisconnect, CloseConn
  <2>3. \A v \in Worker : closing'[v] = closing[v] \/ v = w
    BY <1>10, Threads DEF CloseInDisconnect, BeginClose
  <2>4. /\ pc' \in [Worker -> {"loop", "get", "serve", "register", "drop", "close", "closed", "failed", "end"}]
        /\ HandInv'
    BY <1>10, <2>3, StayTypes DEF CloseInDisconnect
  <2> QED
    BY <1>10, <2>1, <2>2, <2>4 DEF CloseInDisconnect
<1> QED
  BY <1>1, <1>2, <1>3, <1>4, <1>5, <1>6, <1>7, <1>8, <1>9, <1>10 DEF WorkerStep

LEMMA CloseStepTypes ==
    ASSUME TypeOK, HandInv, NEW k \in Thread, CloseStep(k)
    PROVE  TypeOK' /\ HandInv'
<1> USE DEF TypeOK, HandInv, tableVars, workerVars, pollVars, mainVars, clientVars
<1>1. ASSUME NEW how \in {"end", "raised"}, LeaveClose(k, how), closing[k] \in {"take", "join_workers"},
             polling' \in BOOLEAN,
             UNCHANGED <<active, fd, tableVars, held, batch, mainVars, clientVars, killed>>
      PROVE  TypeOK' /\ HandInv'
  <2>1. k \in Worker => pc[k] \notin {"loop", "get", "end"}
    BY <1>1
  <2>2. /\ closing' \in [Thread -> {"no", "take", "join_poller", "stop", "join_workers", "end", "raised"}]
        /\ pc' \in [Worker -> {"loop", "get", "serve", "register", "drop", "close", "closed", "failed", "end"}]
        /\ \A w \in Worker : pc'[w] \in {"loop", "get", "end"} <=> pc[w] \in {"loop", "get", "end"}
        /\ poller' \in {"poll", "handle", "close", "end"} /\ events' \subseteq events
    BY <1>1, <2>1, LeaveTypes
  <2>3. \A w \in Worker : w # k => closing'[w] = closing[w] /\ pc'[w] = pc[w]
    BY <1>1, Threads DEF LeaveClose, Work
  <2>4. closing'[k] = how
    BY <1>1 DEF LeaveClose
  <2>5. TypeOK'
    BY <1>1, <2>2
  <2>6. HandInv'
    BY <1>1, <2>2, <2>3, <2>4
  <2> QED
    BY <2>5, <2>6
<1>2. ASSUME NEW l \in {"join_poller", "stop", "join_workers"}, closing' = [closing EXCEPT ![k] = l],
             closing[k] \in {"take", "join_poller", "stop"}, polling' \in BOOLEAN,
             queue' \in Seq(Fd \cup {Stop}),
             UNCHANGED <<active, fd, fdToConn, inactive, workerVars, pollVars, mainVars, clientVars, killed>>
      PROVE  TypeOK' /\ HandInv'
  <2>1. closing' \in [Thread -> {"no", "take", "join_poller", "stop", "join_workers", "end", "raised"}]
    BY <1>2
  <2>2. \A w \in Worker : closing'[w] = closing[w] \/ (w = k /\ pc[w] \in {"close", "closed"})
    BY <1>2, Threads
  <2> QED
    BY <1>2, <2>1, <2>2
<1>3. CASE TakePoller(k)
  BY <1>1, <1>2, <1>3 DEF TakePoller
<1>4. CASE StopWorkers(k)
  <2>1. [i \in 1 .. NbThreads |-> Stop] \in Seq(Fd \cup {Stop})
    BY ThreadPoolAssumption
  <2>2. queue \o [i \in 1 .. NbThreads |-> Stop] \in Seq(Fd \cup {Stop})
    BY <2>1
  <2> QED
    BY <1>2, <1>4, <2>2 DEF StopWorkers
<1>5. CASE JoinWorkers(k)
  BY <1>1, <1>5 DEF JoinWorkers
<1> QED
  BY <1>3, <1>4, <1>5 DEF CloseStep

-----------------------------------------------------------------------------
(* steps that move no number and open or close no connection *)
LEMMA QuietKeeps ==
    ASSUME Types, Core, Types',
           UNCHANGED <<fd, fdToConn, inactive, main, inHand, held, killed>>,
           \A f \in Fd : Queued(f)' = Queued(f),
           \A c \in Client : sent'[c] >= sent[c],
           \A w \in Worker : pc'[w] = "drop" => pc[w] = "drop"
    PROVE  Core'
<1>1. \A f \in Fd : Holders(f)' = Holders(f) /\ (InPlace(f)' <=> InPlace(f))
  BY DEF Holders, InPlace
<1>2. KnownInv'
  BY <1>1 DEF Types, TypeOK, Core, KnownInv
<1>3. OwnInv'
  BY DEF Core, OwnInv
<1>4. FreshInv'
  <2>1. main # "accept" => inHand \in Client
    BY DEF Types, TypeOK, HandInv
  <2> QED
    BY <1>1, <2>1 DEF Types, TypeOK, Core, FreshInv
<1>5. OnePlace'
  BY <1>1 DEF Core, OnePlace, Single
<1>6. DropInv'
  BY DEF Core, DropInv
<1> QED
  BY <1>2, <1>3, <1>4, <1>5, <1>6 DEF Core, OnlyGoneAreDropped

(* steps that leave to the poller what it has taken *)
LEMMA EventsKeep ==
    ASSUME Types, EventInv, events' \subseteq events, inactive \subseteq inactive', gone \subseteq gone',
           \A c \in Client : \A f \in inactive : fd'[c] = f => fd[c] = f
    PROVE  EventInv'
  BY DEF EventInv

LEMMA StopsMoveNothing ==
    ASSUME Types, NEW k \in Thread, StopWorkers(k), NEW f \in Fd
    PROVE  Queued(f)' = Queued(f)
<1> DEFINE stops == [i \in 1 .. NbThreads |-> Stop]
<1>1. queue' = queue \o stops /\ Stop # f
  BY ThreadPoolAssumption DEF StopWorkers
<1>3. queue \in Seq(Fd \cup {Stop}) /\ stops \in Seq({Stop}) /\ Len(stops) = NbThreads
  BY ThreadPoolAssumption DEF Types, TypeOK
<1>4. \A i \in 1 .. Len(stops) : stops[i] = Stop
  BY <1>3
<1> HIDE DEF stops
<1>5. /\ DOMAIN queue' = 1 .. Len(queue) + Len(stops) /\ DOMAIN queue = 1 .. Len(queue)
      /\ \A i \in 1 .. Len(queue) : queue'[i] = queue[i]
      /\ \A i \in Len(queue) + 1 .. Len(queue) + Len(stops) : queue'[i] = stops[i - Len(queue)]
      /\ Len(queue) \in Nat /\ Len(stops) \in Nat
  BY <1>1, <1>3
<1>6. \A i \in Len(queue) + 1 .. Len(queue) + Len(stops) : queue'[i] # f
  BY <1>1, <1>4, <1>5
<1> QED
  BY <1>5, <1>6 DEF Queued

LEMMA QuietSteps ==
    ASSUME IInv, Types',
           \/ CloseFromOutside \/ CloseAtEnd \/ \E c \in Client : Request(c) \/ Leave(c)
           \/ \E w \in Worker : Loop(w) \/ ServeRequest(w) \/ NothingToServe(w) \/ CloseInService(w)
    PROVE  Core' /\ EventInv'
<1> USE DEF CloseFromOutside, CloseAtEnd, Request, Leave, Loop, ServeRequest, NothingToServe, CloseInService
<1>1. UNCHANGED <<fd, fdToConn, inactive, queue, main, inHand, held, killed, events>>
  BY DEF tableVars, mainVars, pollVars, workerVars
<1>2. gone \subseteq gone'
  BY DEF clientVars
<1>3. \A w \in Worker : pc'[w] = "drop" => pc[w] = "drop"
  BY DEF workerVars, Work, IInv, Types, TypeOK
<1>4. \A f \in Fd : Queued(f)' = Queued(f)
  BY <1>1 DEF Queued
<1>5. \A c \in Client : sent'[c] >= sent[c]
  <2>1. sent \in [Client -> Nat]
    BY DEF IInv, Types, TypeOK
  <2>2. CASE UNCHANGED sent
    BY <2>1, <2>2
  <2>3. ASSUME NEW c \in Client, Request(c) PROVE \A d \in Client : sent'[d] >= sent[d]
    BY <2>1, <2>3
  <2> QED
    BY <2>2, <2>3 DEF clientVars
<1> QED
  BY <1>1, <1>2, <1>3, <1>4, <1>5, QuietKeeps, EventsKeep DEF IInv

(* the rest of close(): it moves no number, and the polling thread may forget events *)
LEMMA CloseStepKeeps ==
    ASSUME IInv, Types', NEW k \in Thread, CloseStep(k)
    PROVE  Core' /\ EventInv'
<1>1. UNCHANGED <<fd, fdToConn, inactive, main, inHand, held, killed, sent, gone>>
  BY DEF CloseStep, TakePoller, StopWorkers, JoinWorkers, tableVars, mainVars, clientVars, workerVars
<1>2. (\A w \in Worker : pc'[w] = "drop" => pc[w] = "drop") /\ events' \subseteq events
  <2>1. ASSUME NEW how \in {"end", "raised"}, LeaveClose(k, how), closing[k] \in {"take", "join_workers"}
        PROVE  (\A w \in Worker : pc'[w] = "drop" => pc[w] = "drop") /\ events' \subseteq events
    BY <2>1, LeaveTypes DEF IInv, Types, HandInv
  <2> QED
    BY <2>1 DEF CloseStep, TakePoller, StopWorkers, JoinWorkers, workerVars, pollVars
<1>3. ASSUME NEW f \in Fd PROVE Queued(f)' = Queued(f)
  <2>1. CASE UNCHANGED queue
    BY <2>1 DEF Queued
  <2>2. CASE StopWorkers(k)
    BY <2>2, StopsMoveNothing DEF IInv
  <2> QED
    BY <2>1, <2>2 DEF CloseStep, TakePoller, JoinWorkers, tableVars
<1>4. \A c \in Client : sent'[c] >= sent[c]
  BY <1>1 DEF IInv, Types, TypeOK
<1> QED
  BY <1>1, <1>2, <1>3, <1>4, QuietKeeps, EventsKeep DEF IInv

-----------------------------------------------------------------------------
(* the queue *)
LEMMA QueuedAppend ==
    ASSUME Types, NEW e \in Fd, queue' = Append(queue, e), NEW f \in Fd
    PROVE  Queued(f)' = IF f = e THEN Queued(f) \cup {Len(queue) + 1} ELSE Queued(f)
<1>1. queue \in Seq(Fd \cup {Stop})
  BY DEF Types, TypeOK
<1>2. /\ Len(queue) \in Nat /\ DOMAIN queue = 1 .. Len(queue)
      /\ DOMAIN queue' = 1 .. Len(queue) + 1
      /\ queue'[Len(queue) + 1] = e
      /\ \A i \in 1 .. Len(queue) : queue'[i] = queue[i]
  BY <1>1
<1> QED
  BY <1>2 DEF Queued

LEMMA QueuedTail ==
    ASSUME Types, queue # <<>>, queue' = Tail(queue), NEW f \in Fd, Single(Queued(f))
    PROVE  /\ Single(Queued(f)')
           /\ Head(queue) # f => (Queued(f)' = {} <=> Queued(f) = {})
           /\ Head(queue) = f => Queued(f) # {} /\ Queued(f)' = {}
<1>1. queue \in Seq(Fd \cup {Stop})
  BY DEF Types, TypeOK
<1>2. /\ Len(queue) \in Nat \ {0} /\ DOMAIN queue = 1 .. Len(queue)
      /\ DOMAIN queue' = 1 .. Len(queue) - 1
      /\ Head(queue) = queue[1]
      /\ \A i \in 1 .. Len(queue) - 1 : queue'[i] = queue[i + 1]
  BY <1>1
<1>3. \A i \in Queued(f)' : i \in Nat \ {0} /\ i + 1 \in Queued(f)
  BY <1>2 DEF Queued
<1>4. \A i \in Queued(f) : i \in Nat \ {0} /\ (i = 1 \/ i - 1 \in Queued(f)')
  BY <1>2 DEF Queued
<1>5. 1 \in Queued(f) <=> Head(queue) = f
  BY <1>2 DEF Queued
<1>6. Single(Queued(f)')
  <2> SUFFICES ASSUME NEW i \in Queued(f)', NEW j \in Queued(f)' PROVE i = j
    BY DEF Single
  <2>1. i \in Nat /\ j \in Nat /\ i + 1 = j + 1
    BY <1>3 DEF Single
  <2> QED
    BY <2>1
<1>7. ASSUME Head(queue) # f PROVE Queued(f)' = {} <=> Queued(f) = {}
  <2>1. \A i \in Queued(f) : i # 1
    BY <1>5, <1>7
  <2> QED
    BY <1>3, <1>4, <2>1
<1>8. ASSUME Head(queue) = f PROVE Queued(f) # {} /\ Queued(f)' = {}
  <2>1. 1 \in Queued(f)
    BY <1>5, <1>8
  <2>2. ASSUME NEW i \in Queued(f)' PROVE FALSE
    <3>1. i \in Nat \ {0} /\ i + 1 = 1
      BY <1>3, <2>1 DEF Single
    <3> QED
      BY <3>1
  <2> QED
    BY <2>1, <2>2
<1> QED
  BY <1>6, <1>7, <1>8

(* closing and dropping a number that is in its place *)
LEMMA NumbersStay ==
    ASSUME Types, Types', KnownInv, OwnInv, FreshInv, UNCHANGED <<sent, main, inHand>>,
           \A c \in Client : fd'[c] \in {fd[c], NoFd},
           main # "accept" => fd'[inHand] = fd[inHand],
           \A f \in Fd : fdToConn'[f] \in {fdToConn[f], NoConn},
           \A f \in Fd : InPlace(f)' => InPlace(f)
    PROVE  KnownInv' /\ OwnInv' /\ FreshInv'
<1>1. NoFd \notin Fd /\ NoConn \notin Client
  BY ThreadPoolAssumption
<1>2. KnownInv'
  BY <1>1 DEF KnownInv, Types, TypeOK
<1>3. OwnInv'
  <2>1. \A c \in Client : fd'[c] # NoFd => fd'[c] = fd[c]
    OBVIOUS
  <2>2. \A f \in Fd : \A c \in Client : fdToConn'[f] = c => fdToConn[f] = c
    BY <1>1
  <2>3. \A c, d \in Client : fd'[c] = fd'[d] /\ fd'[c] # NoFd => c = d
    BY <2>1 DEF OwnInv
  <2>4. \A f \in Fd : \A c \in Client : fdToConn'[f] = c => fd'[c] \in {f, NoFd}
    BY <2>2 DEF OwnInv
  <2>5. \A f \in Fd : \A c \in Client : fd'[c] = f => fdToConn'[f] \in {c, NoConn}
    BY <1>1, <2>1 DEF OwnInv
  <2> QED
    BY <2>3, <2>4, <2>5 DEF OwnInv
<1>4. FreshInv'
  BY DEF FreshInv
<1> QED
  BY <1>2, <1>3, <1>4

LEMMA ClosingInPlace ==
    ASSUME Types, OwnInv, FreshInv, NEW f \in Fd, InPlace(f), CloseConn(fdToConn[f])
    PROVE  /\ \A c \in Client : fd'[c] \in {fd[c], NoFd}
           /\ main # "accept" => fd'[inHand] = fd[inHand]
           /\ fdToConn[f] # NoConn => \A c \in Client : fd'[c] # f
<1>1. NoFd \notin Fd /\ NoConn \notin Client
  BY ThreadPoolAssumption
<1>2. fdToConn[f] \in Client \cup {NoConn} /\ fd \in [Client -> Fd \cup {NoFd}]
  BY DEF Types, TypeOK
<1>3. main # "accept" => inHand \in Client
  BY DEF Types, TypeOK, HandInv
<1>4. main # "accept" => fdToConn[f] # inHand
  BY <1>1, <1>3 DEF OwnInv, FreshInv
<1> QED
  BY <1>1, <1>2, <1>3, <1>4 DEF CloseConn, OwnInv

LEMMA DroppingInPlace ==
    ASSUME Types, OwnInv, FreshInv, OnlyGoneAreDropped, NEW f \in Fd, InPlace(f),
           \A c \in Client : fd[c] = f => c \in gone,
           DropConnection(f)
    PROVE  /\ \A c \in Client : fd'[c] \in {fd[c], NoFd}
           /\ main # "accept" => fd'[inHand] = fd[inHand]
           /\ fdToConn' = [fdToConn EXCEPT ![f] = NoConn]
           /\ OnlyGoneAreDropped'
<1>1. CloseConn(fdToConn[f]) /\ fdToConn' = [fdToConn EXCEPT ![f] = NoConn]
  BY DEF DropConnection
<1>2. \A c \in Client : fdToConn[f] = c /\ fd[c] # NoFd => c \in gone
  BY DEF OwnInv, Types, TypeOK
<1>3. killed' = {}
  BY <1>2 DEF DropConnection, OnlyGoneAreDropped, Types, TypeOK
<1> QED
  BY <1>1, <1>3, ClosingInPlace DEF OnlyGoneAreDropped

-----------------------------------------------------------------------------
(* the polling thread *)
LEMMA PollKeeps ==
    ASSUME IInv, Types', Poll
    PROVE  Core' /\ EventInv'
<1>1. /\ UNCHANGED <<fd, fdToConn, inactive, queue, main, inHand, held, killed, pc, sent, gone>>
  BY DEF Poll, tableVars, workerVars, mainVars, clientVars
<1>2. \A c \in Client : sent'[c] >= sent[c]
  BY <1>1 DEF IInv, Types, TypeOK
<1>3. Core'
  BY <1>1, <1>2, QuietKeeps DEF IInv, Queued
<1>4. EventInv'
  <2>1. CASE active
    <3>1. PICK evts \in [inactive -> {"h", "r", "none"}] :
             /\ \A f \in inactive : IF Event(f) = {} THEN evts[f] = "none" ELSE evts[f] \in Event(f)
             /\ events' = {<<f, evts[f]>> : f \in {g \in inactive : evts[g] # "none"}}
      BY <2>1 DEF Poll
    <3>2. \A e \in events' : e[1] \in inactive /\ e = <<e[1], evts[e[1]]>>
      BY <3>1
    <3>3. ASSUME NEW e \in events', e[2] = "h", NEW c \in Client, fd[c] = e[1] PROVE c \in gone
      <4>1. e[1] \in inactive /\ evts[e[1]] = "h"
        BY <3>2, <3>3
      <4>2. "h" \in Event(e[1])
        BY <3>1, <4>1
      <4>3. OpenOn(e[1]) = {c}
        <5>1. e[1] \in Fd /\ NoFd \notin Fd
          BY <4>1, ThreadPoolAssumption DEF IInv, Types, TypeOK
        <5> QED
          BY <3>3, <5>1 DEF OpenOn, IInv, Core, OwnInv
      <4> QED
        BY <4>2, <4>3 DEF Event
    <3> QED
      BY <1>1, <3>2, <3>3 DEF EventInv
  <2>2. CASE ~active
    BY <1>1, <2>2 DEF Poll, IInv, EventInv
  <2> QED
    BY <2>1, <2>2
<1> QED
  BY <1>3, <1>4

LEMMA HandleKeeps ==
    ASSUME IInv, Types', HandlePollResult \/ CloseInPoller
    PROVE  Core' /\ EventInv'
<1>1. PICK e \in events :
         /\ events' = events \ {e} /\ inactive' = inactive \ {e[1]}
         /\ IF e[2] = "h"
              THEN DropConnection(e[1]) /\ UNCHANGED queue
              ELSE queue' = Append(queue, e[1]) /\ UNCHANGED <<fdToConn, fd, killed>>
         /\ UNCHANGED <<workerVars, mainVars, clientVars>>
  BY DEF HandlePollResult, CloseInPoller
<1> DEFINE n == e[1]
<1>2. /\ n \in Fd /\ n \in inactive /\ InPlace(n)
      /\ Queued(n) = {} /\ Holders(n) = {}
  BY DEF IInv, Types, TypeOK, EventInv, Core, OnePlace, InPlace
<1>3. /\ UNCHANGED <<pc, held, main, inHand, sent, gone>>
      /\ \A f \in Fd : Holders(f)' = Holders(f)
  BY <1>1 DEF workerVars, mainVars, clientVars, Holders
<1>4. /\ \A c \in Client : fd'[c] \in {fd[c], NoFd}
      /\ main # "accept" => fd'[inHand] = fd[inHand]
      /\ \A f \in Fd : fdToConn'[f] = IF f = n /\ e[2] = "h" THEN NoConn ELSE fdToConn[f]
      /\ OnlyGoneAreDropped'
  <2>1. CASE e[2] = "h"
    <3>1. \A c \in Client : fd[c] = n => c \in gone
      BY <2>1 DEF IInv, EventInv
    <3> QED
      BY <1>1, <1>2, <2>1, <3>1, DroppingInPlace DEF IInv, Core, Types, TypeOK
  <2>2. CASE e[2] # "h"
    BY <1>1, <2>2 DEF IInv, Core, OnlyGoneAreDropped, Types, TypeOK
  <2> QED
    BY <2>1, <2>2
<1>5. \A f \in Fd : Queued(f)' = IF f = n /\ e[2] # "h" THEN {Len(queue) + 1} ELSE Queued(f)
  BY <1>1, <1>2, QueuedAppend DEF IInv, Queued
<1>6. KnownInv' /\ OwnInv' /\ FreshInv'
  <2>1. \A f \in Fd : InPlace(f)' => InPlace(f)
    BY <1>1, <1>2, <1>3, <1>5 DEF InPlace
  <2> QED
    BY <1>3, <1>4, <2>1, NumbersStay DEF IInv, Core
<1>7. OnePlace'
  <2>1. ASSUME NEW f \in Fd, f # n
        PROVE  /\ Queued(f)' = Queued(f) /\ Holders(f)' = Holders(f) /\ (f \in inactive' <=> f \in inactive)
               /\ fdToConn'[f] = fdToConn[f]
               /\ main = "register" => fd'[inHand] = fd[inHand]
    BY <1>1, <1>3, <1>4, <1>5, <2>1
  <2>2. ASSUME NEW f \in Fd, f = n
        PROVE  /\ Queued(f)' = (IF e[2] = "h" THEN {} ELSE {Len(queue) + 1}) /\ Holders(f)' = {}
               /\ f \notin inactive'
               /\ e[2] = "h" => fdToConn'[f] = NoConn
    BY <1>1, <1>2, <1>3, <1>4, <1>5, <2>2
  <2> DEFINE Placed(f) == /\ Single(Queued(f)) /\ Single(Holders(f))
                          /\ Queued(f) = {} \/ Holders(f) = {}
                          /\ f \in inactive => Queued(f) = {} /\ Holders(f) = {}
                          /\ fdToConn[f] # NoConn /\ ~(main = "register" /\ fd[inHand] = f) => InPlace(f)
  <2>3. ASSUME NEW f \in Fd, f # n PROVE Placed(f)'
    <3>1. Placed(f)
      BY DEF IInv, Core, OnePlace
    <3> QED
      BY <1>3, <2>1, <2>3, <3>1 DEF InPlace
  <2>4. ASSUME NEW f \in Fd, f = n PROVE Placed(f)'
    BY <2>2, <2>4 DEF InPlace, Single
  <2> HIDE DEF Placed
  <2>5. \A f \in Fd : Placed(f)'
    BY <2>3, <2>4
  <2> QED
    BY <2>5 DEF Placed, OnePlace
<1>8. DropInv'
  <2>1. \A w \in Worker : pc[w] = "drop" => held[w] # NoFd
    BY DEF IInv, Types, HandInv
  <2> QED
    BY <1>3, <1>4, <2>1 DEF IInv, Core, DropInv
<1>9. EventInv'
  <2>1. \A d \in events' : d \in events /\ d[1] # n
    BY <1>1 DEF IInv, EventInv
  <2>2. \A d \in events : d[1] \in Fd /\ d[1] # NoFd
    BY ThreadPoolAssumption, PlacesHaveTypes DEF IInv, Types
  <2> QED
    BY <1>1, <1>3, <1>4, <2>1, <2>2 DEF IInv, EventInv
<1> QED
  BY <1>4, <1>6, <1>7, <1>8, <1>9 DEF Core

-----------------------------------------------------------------------------
(* the workers: one takes a number, and gives it back or drops it *)
LEMMA HoldersChange ==
    ASSUME Types, NEW w \in Worker, NEW g \in Fd \cup {NoFd}, held' = [held EXCEPT ![w] = g],
           NEW f \in Fd
    PROVE  Holders(f)' = IF f = g THEN Holders(f) \cup {w} ELSE Holders(f) \ {w}
  BY DEF Types, TypeOK, Holders

LEMMA GetKeeps ==
    ASSUME IInv, Types', NEW w \in Worker, Get(w)
    PROVE  Core' /\ EventInv'
<1> DEFINE n == Head(queue)
<1>0. /\ UNCHANGED <<fd, fdToConn, inactive, main, inHand, sent, gone, killed, events>>
      /\ queue # <<>> /\ queue' = Tail(queue)
  BY DEF Get, mainVars, clientVars, pollVars
<1>1. /\ n \in Fd \cup {Stop} /\ Stop \notin Fd /\ NoFd \notin Fd
      /\ \A f \in Fd : Single(Queued(f))
  BY <1>0, ThreadPoolAssumption DEF IInv, Types, TypeOK, Core, OnePlace
<1>2. \A f \in Fd : /\ Single(Queued(f)')
                    /\ n # f => (Queued(f)' = {} <=> Queued(f) = {})
                    /\ n = f => Queued(f) # {} /\ Queued(f)' = {}
  BY <1>0, <1>1, QueuedTail DEF IInv
<1>3. pc[w] = "get" /\ \A v \in Worker : pc'[v] = "drop" => pc[v] = "drop" /\ held'[v] = held[v]
  BY DEF Get, Work, IInv, Types, TypeOK
<1>4. EventInv'
  BY <1>0, EventsKeep DEF IInv
<1>5. DropInv'
  BY <1>0, <1>3 DEF IInv, Core, DropInv
<1>6. \A f \in Fd : Holders(f)' = IF f = n THEN {w} ELSE Holders(f)
  <2>1. CASE n = Stop
    BY <1>1, <2>1 DEF Get, Holders
  <2>2. CASE n # Stop
    <3>1. held' = [held EXCEPT ![w] = n] /\ held[w] = NoFd
      BY <1>3, <2>2 DEF Get, IInv, Types, HandInv
    <3>2. \A f \in Fd : w \notin Holders(f)
      BY <1>1, <3>1 DEF Holders
    <3>3. n \in Fd /\ Holders(n) = {}
      BY <1>1, <1>2, <2>2 DEF IInv, Core, OnePlace
    <3> HIDE DEF n
    <3>4. \A f \in Fd : Holders(f)' = IF f = n THEN Holders(f) \cup {w} ELSE Holders(f) \ {w}
      BY <3>1, <3>3, HoldersChange DEF IInv
    <3> QED
      BY <3>2, <3>3, <3>4
  <2> QED
    BY <2>1, <2>2
<1>7. \A f \in Fd : InPlace(f)' <=> InPlace(f)
  BY <1>0, <1>2, <1>6 DEF InPlace
<1>8. OnePlace'
  <2>1. ASSUME NEW f \in Fd, f = n PROVE f \notin inactive
    BY <1>2, <2>1 DEF IInv, Core, OnePlace
  <2> QED
    BY <1>0, <1>2, <1>6, <1>7, <2>1 DEF IInv, Core, OnePlace, Single
<1>9. KnownInv' /\ OwnInv' /\ FreshInv'
  BY <1>0, <1>7, NumbersStay DEF IInv, Core
<1> QED
  BY <1>0, <1>4, <1>5, <1>8, <1>9 DEF IInv, Core, OnlyGoneAreDropped

(* what a worker holds is in its hand and nowhere else *)
LEMMA HeldIsHere ==
    ASSUME IInv, NEW w \in Worker, pc[w] \notin {"loop", "get", "end"}
    PROVE  /\ held[w] \in Fd /\ InPlace(held[w])
           /\ held[w] \notin inactive /\ Queued(held[w]) = {} /\ Holders(held[w]) = {w}
<1>1. held[w] \in Fd
  BY PlacesHaveTypes DEF IInv, Types
<1>2. w \in Holders(held[w])
  BY DEF Holders
<1> QED
  BY <1>1, <1>2 DEF IInv, Core, OnePlace, InPlace, Single

(* a worker lets go of a number: it is put somewhere else, or the table forgets it *)
LEMMA LettingGo ==
    ASSUME IInv, Types', NEW w \in Worker, NEW n \in Fd, n = held[w],
           pc[w] \notin {"loop", "get", "end"},
           held' = [held EXCEPT ![w] = NoFd], pc' = [pc EXCEPT ![w] = "loop"],
           \/ queue' = Append(queue, n) /\ UNCHANGED <<inactive, fdToConn>>
           \/ inactive' = inactive \cup {n} /\ UNCHANGED <<queue, fdToConn>>
           \/ fdToConn' = [fdToConn EXCEPT ![n] = NoConn] /\ UNCHANGED <<queue, inactive>>,
           \A c \in Client : fd'[c] \in {fd[c], NoFd},
           main # "accept" => fd'[inHand] = fd[inHand],
           UNCHANGED <<main, inHand, sent, gone, events>>, OnlyGoneAreDropped'
    PROVE  Core' /\ EventInv'
<1>1. /\ InPlace(n) /\ n \notin inactive /\ Queued(n) = {} /\ Holders(n) = {w}
      /\ NoFd \notin Fd
  BY HeldIsHere, ThreadPoolAssumption
<1>2. \A f \in Fd : Holders(f)' = Holders(f) \ {w}
  BY <1>1, HoldersChange DEF IInv
<1>3. \A f \in Fd : f # n => Holders(f)' = Holders(f)
  BY <1>2 DEF Holders
<1>4. \A f \in Fd : Queued(f)' = Queued(f) \/ (f = n /\ queue' = Append(queue, n) /\ Queued(f)' = {Len(queue) + 1})
  BY <1>1, QueuedAppend DEF IInv, Queued
<1>5. \A f \in Fd : f # n => /\ Queued(f)' = Queued(f) /\ (f \in inactive' <=> f \in inactive)
                             /\ fdToConn'[f] = fdToConn[f]
  <2>1. \A f \in Fd : f # n => Queued(f)' = Queued(f)
    BY <1>4
  <2>2. \A f \in Fd : f # n => (f \in inactive' <=> f \in inactive)
    OBVIOUS
  <2>3. \A f \in Fd : f # n => fdToConn'[f] = fdToConn[f]
    BY DEF IInv, Types, TypeOK
  <2> QED
    BY <2>1, <2>2, <2>3
<1>6. Holders(n)' = {}
  BY <1>1, <1>2
<1>7. \/ Queued(n)' = {Len(queue) + 1} /\ n \notin inactive'
      \/ Queued(n)' = {} /\ n \in inactive'
      \/ Queued(n)' = {} /\ n \notin inactive' /\ fdToConn'[n] = NoConn
  BY <1>1, QueuedAppend DEF IInv, Types, TypeOK, Queued
<1>8. \A f \in Fd : InPlace(f)' => InPlace(f)
  BY <1>1, <1>3, <1>5 DEF InPlace
<1>9. \A f \in Fd : fdToConn'[f] \in {fdToConn[f], NoConn}
  BY DEF IInv, Types, TypeOK
<1>10. KnownInv' /\ OwnInv' /\ FreshInv'
  BY <1>8, <1>9, NumbersStay DEF IInv, Core
<1>11. OnePlace'
  BY <1>3, <1>5, <1>6, <1>7 DEF IInv, Core, OnePlace, InPlace, Single
<1>12. DropInv'
  <2>1. /\ DOMAIN pc = Worker /\ DOMAIN held = Worker
        /\ \A v \in Worker : held[v] # NoFd => held[v] \in Fd
    BY DEF IInv, Types, TypeOK
  <2>2. pc'[w] = "loop"
    BY <2>1
  <2>3. ASSUME NEW v \in Worker, pc'[v] = "drop"
        PROVE  \A c \in Client : fd'[c] # held'[v]
    <3>1. v # w
      BY <2>2, <2>3
    <3>2. pc[v] = "drop" /\ held'[v] = held[v]
      BY <2>1, <2>3, <3>1
    <3>3. held[v] # NoFd
      BY <3>2 DEF IInv, Types, HandInv
    <3> QED
      BY <3>2, <3>3 DEF IInv, Core, DropInv
  <2> QED
    BY <2>3 DEF DropInv
<1>13. EventInv'
  <2>1. \A f \in inactive : f # NoFd /\ f \in inactive'
    BY <1>1 DEF IInv, Types, TypeOK
  <2> QED
    BY <2>1, EventsKeep DEF IInv
<1> QED
  BY <1>10, <1>11, <1>12, <1>13 DEF Core

LEMMA MeetsEndKeeps ==
    ASSUME IInv, Types', NEW w \in Worker, MeetsEnd(w) \/ CloseInDisconnect(w)
    PROVE  Core' /\ EventInv'
<1> DEFINE n == held[w]
<1>1. /\ pc[w] = "serve" /\ fdToConn[n] # NoConn /\ CloseConn(fdToConn[n])
      /\ pc' = [pc EXCEPT ![w] = "drop"] \/ pc' = [pc EXCEPT ![w] = "closed"]
      /\ UNCHANGED <<fdToConn, inactive, queue, held, main, inHand, sent, gone, killed, events>>
  BY DEF MeetsEnd, CloseInDisconnect, Work, tableVars, mainVars, clientVars, pollVars
<1>2. n \in Fd /\ InPlace(n) /\ NoFd \notin Fd
  BY <1>1, HeldIsHere, ThreadPoolAssumption
<1>3. /\ \A c \in Client : fd'[c] \in {fd[c], NoFd} /\ fd'[c] # n
      /\ main # "accept" => fd'[inHand] = fd[inHand]
  BY <1>1, <1>2, ClosingInPlace DEF IInv, Core
<1>4. \A f \in Fd : /\ Queued(f)' = Queued(f) /\ Holders(f)' = Holders(f)
                    /\ InPlace(f)' <=> InPlace(f)
  BY <1>1 DEF Queued, Holders, InPlace
<1>5. KnownInv' /\ OwnInv' /\ FreshInv'
  <2>1. \A f \in Fd : fdToConn'[f] \in {fdToConn[f], NoConn}
    BY <1>1
  <2>2. UNCHANGED <<sent, main, inHand>>
    BY <1>1
  <2> QED
    BY <1>3, <1>4, <2>1, <2>2, NumbersStay DEF IInv, Core
<1>6. OnePlace'
  BY <1>1, <1>3, <1>4 DEF IInv, Core, OnePlace
<1>7. DropInv'
  <2>1. \A v \in Worker : pc'[v] = "drop" => v = w \/ (pc[v] = "drop" /\ held[v] # NoFd)
    BY <1>1 DEF IInv, Types, TypeOK, HandInv
  <2> QED
    BY <1>1, <1>3, <2>1 DEF IInv, Core, DropInv
<1>8. EventInv'
  <2>1. \A f \in inactive : f # NoFd
    BY <1>2 DEF IInv, Types, TypeOK
  <2> QED
    BY <1>1, <1>3, <2>1, EventsKeep DEF IInv
<1> QED
  BY <1>1, <1>5, <1>6, <1>7, <1>8 DEF IInv, Core, OnlyGoneAreDropped

LEMMA WorkerKeeps ==
    ASSUME IInv, Types', NEW w \in Worker, WorkerStep(w)
    PROVE  Core' /\ EventInv'
<1> DEFINE n == held[w]
<1>1. CASE AddInactive(w) \/ PutBack(w)
  <2>1. /\ pc[w] \in {"serve", "register", "failed"} /\ held' = [held EXCEPT ![w] = NoFd]
        /\ pc' = [pc EXCEPT ![w] = "loop"]
        /\ \/ queue' = Append(queue, n) /\ UNCHANGED <<inactive, fdToConn>>
           \/ inactive' = inactive \cup {n} /\ UNCHANGED <<queue, fdToConn>>
        /\ UNCHANGED <<fd, main, inHand, sent, gone, killed, events>>
    BY <1>1 DEF AddInactive, PutBack, Work, mainVars, clientVars, pollVars
  <2>2. n \in Fd
    BY <2>1, HeldIsHere
  <2>3. OnlyGoneAreDropped'
    BY <2>1 DEF IInv, Core, OnlyGoneAreDropped
  <2> QED
    BY <2>1, <2>2, <2>3, LettingGo
<1>2. CASE Drop(w)
  <2>1. /\ pc[w] = "drop" /\ held' = [held EXCEPT ![w] = NoFd] /\ pc' = [pc EXCEPT ![w] = "loop"]
        /\ DropConnection(n) /\ UNCHANGED <<inactive, queue, main, inHand, sent, gone, events>>
    BY <1>2 DEF Drop, Work, mainVars, clientVars, pollVars
  <2>2. n \in Fd /\ InPlace(n)
    BY <2>1, HeldIsHere
  <2>3. \A c \in Client : fd[c] = n => c \in gone
    BY <2>1 DEF IInv, Core, DropInv
  <2>4. /\ \A c \in Client : fd'[c] \in {fd[c], NoFd}
        /\ main # "accept" => fd'[inHand] = fd[inHand]
        /\ fdToConn' = [fdToConn EXCEPT ![n] = NoConn]
        /\ OnlyGoneAreDropped'
    BY <2>1, <2>2, <2>3, DroppingInPlace DEF IInv, Core
  <2> QED
    BY <2>1, <2>2, <2>4, LettingGo
<1>3. CASE Loop(w) \/ ServeRequest(w) \/ NothingToServe(w) \/ CloseInService(w)
  BY <1>3, QuietSteps
<1> QED
  BY <1>1, <1>2, <1>3, GetKeeps, MeetsEndKeeps DEF WorkerStep

-----------------------------------------------------------------------------
(* the main thread: a number that nobody knows yet *)
LEMMA MainLeavesPlaces ==
    ASSUME UNCHANGED <<queue, held>>, NEW f \in Fd
    PROVE  Queued(f)' = Queued(f) /\ Holders(f)' = Holders(f)
  BY DEF Queued, Holders

LEMMA AcceptKeeps ==
    ASSUME IInv, Types', ~EarlyReuse, NEW c \in Client, Accept(c)
    PROVE  Core' /\ EventInv'
<1>1. PICK n \in Free : fd' = [fd EXCEPT ![c] = n]
  BY DEF Accept
<1>2. n \in Fd /\ ~InPlace(n) /\ fdToConn[n] = NoConn /\ \A d \in Client : fd[d] # n
  BY DEF Free
<1>3. /\ main = "accept" /\ fd[c] = NoFd /\ sent[c] = 0 /\ sent' = [sent EXCEPT ![c] = 1]
      /\ inHand' = c /\ main' = "record"
      /\ UNCHANGED <<fdToConn, inactive, queue, pc, held, gone, killed, events>>
  BY DEF Accept, tableVars, workerVars, pollVars
<1>4. \A d \in Client : fd'[d] = IF d = c THEN n ELSE fd[d]
  BY <1>1 DEF IInv, Types, TypeOK
<1>5. \A f \in Fd : /\ Queued(f)' = Queued(f) /\ Holders(f)' = Holders(f)
                    /\ InPlace(f)' <=> InPlace(f)
  BY <1>3, MainLeavesPlaces DEF InPlace
<1>6. ~InPlace(n) /\ fdToConn[n] = NoConn /\ n # NoFd
  BY <1>2, ThreadPoolAssumption DEF IInv, Core, KnownInv
<1>7. \A f \in Fd : fdToConn[f] # c
  BY <1>3, ThreadPoolAssumption DEF IInv, Core, KnownInv
<1>8. \A d \in Client : sent'[d] >= sent[d] /\ sent'[c] = 1
  BY <1>3 DEF IInv, Types, TypeOK
<1>9. KnownInv'
  <2>1. \A f \in Fd : fdToConn'[f] # NoConn => sent'[fdToConn'[f]] > 0
    <3>1. \A f \in Fd : fdToConn[f] # NoConn => fdToConn[f] \in Client /\ sent[fdToConn[f]] > 0
      BY DEF IInv, Types, TypeOK, Core, KnownInv
    <3> QED
      BY <1>1, <1>3, <1>7, <3>1 DEF IInv, Types, TypeOK
  <2> QED
    BY <1>1, <1>4, <1>5, <2>1 DEF IInv, Core, KnownInv
<1>10. OwnInv'
  <2>1. \A d, e \in Client : fd'[d] = fd'[e] /\ fd'[d] # NoFd => d = e
    BY <1>2, <1>4 DEF IInv, Core, OwnInv
  <2>2. \A f \in Fd : \A d \in Client : fdToConn'[f] = d => fd'[d] \in {f, NoFd}
    BY <1>3, <1>4, <1>7 DEF IInv, Core, OwnInv
  <2>3. \A f \in Fd : \A d \in Client : fd'[d] = f => fdToConn'[f] \in {d, NoConn}
    BY <1>3, <1>4, <1>6 DEF IInv, Core, OwnInv
  <2> QED
    BY <2>1, <2>2, <2>3 DEF OwnInv
<1>11. FreshInv'
  BY <1>2, <1>3, <1>4, <1>5, <1>6, <1>8 DEF FreshInv
<1>12. OnePlace'
  <2>1. \A f \in Fd : fdToConn'[f] # NoConn => InPlace(f)'
    BY <1>3, <1>5 DEF IInv, Core, OnePlace
  <2> QED
    BY <1>3, <1>5, <2>1 DEF IInv, Core, OnePlace
<1>13. DropInv'
  <2>1. \A w \in Worker : pc[w] = "drop" => held[w] # n
    BY <1>2, HeldIsHere
  <2> QED
    BY <1>2, <1>3, <1>4, <2>1 DEF IInv, Core, DropInv
<1>14. EventInv'
  <2>1. \A f \in inactive : f \in Fd /\ f # n
    BY <1>2 DEF IInv, Types, TypeOK, InPlace
  <2> QED
    BY <1>2, <1>3, <1>4, <2>1, EventsKeep DEF IInv
<1> QED
  BY <1>3, <1>9, <1>10, <1>11, <1>12, <1>13, <1>14 DEF IInv, Core, OnlyGoneAreDropped

LEMMA RefuseKeeps ==
    ASSUME IInv, Types', RefuseConn
    PROVE  Core' /\ EventInv'
<1>1. /\ main = "record" /\ main' = "accept" /\ inHand \in Client
      /\ UNCHANGED <<fdToConn, inactive, queue, pc, held, sent, gone, killed, events>>
  BY DEF RefuseConn, tableVars, workerVars, pollVars, clientVars, IInv, Types, TypeOK, HandInv
<1>2. \A d \in Client : fd'[d] \in {fd[d], NoFd}
  BY <1>1 DEF RefuseConn, CloseConn, IInv, Types, TypeOK
<1>3. \A f \in Fd : /\ Queued(f)' = Queued(f) /\ Holders(f)' = Holders(f)
                    /\ InPlace(f)' <=> InPlace(f)
  BY <1>1, MainLeavesPlaces DEF InPlace
<1>4. \A f \in Fd : f # NoFd
  BY ThreadPoolAssumption
<1>5. KnownInv' /\ OwnInv'
  <2>1. \A d \in Client : fd'[d] # NoFd => fd'[d] = fd[d]
    BY <1>2
  <2>2. KnownInv'
    BY <1>1, <1>3, <2>1 DEF IInv, Core, KnownInv
  <2>3. OwnInv'
    BY <1>1, <1>2, <1>4, <2>1 DEF IInv, Core, OwnInv
  <2> QED
    BY <2>2, <2>3
<1>6. FreshInv'
  BY <1>1 DEF FreshInv
<1>7. OnePlace'
  BY <1>1, <1>3 DEF IInv, Core, OnePlace
<1>8. DropInv'
  <2>1. \A w \in Worker : pc[w] = "drop" => held[w] # NoFd
    BY DEF IInv, Types, HandInv
  <2> QED
    BY <1>1, <1>2, <2>1 DEF IInv, Core, DropInv
<1>9. EventInv'
  <2>1. \A f \in inactive : f # NoFd
    BY <1>4 DEF IInv, Types, TypeOK
  <2> QED
    BY <1>1, <1>2, <2>1, EventsKeep DEF IInv
<1> QED
  BY <1>1, <1>5, <1>6, <1>7, <1>8, <1>9 DEF IInv, Core, OnlyGoneAreDropped

LEMMA RecordKeeps ==
    ASSUME IInv, Types', RecordConn
    PROVE  Core' /\ EventInv'
<1> DEFINE n == fd[inHand]
<1>1. /\ main = "record" /\ main' = "register" /\ inHand \in Client
      /\ fdToConn' = [fdToConn EXCEPT ![n] = inHand]
      /\ UNCHANGED <<fd, inHand, inactive, queue, pc, held, sent, gone, killed, events>>
  BY DEF RecordConn, workerVars, pollVars, clientVars, IInv, Types, TypeOK, HandInv
<1>2. n \in Fd /\ ~InPlace(n) /\ sent[inHand] > 0
  BY <1>1, ThreadPoolAssumption DEF IInv, Core, FreshInv, KnownInv
<1>3. \A f \in Fd : /\ Queued(f)' = Queued(f) /\ Holders(f)' = Holders(f)
                    /\ InPlace(f)' <=> InPlace(f)
                    /\ fdToConn'[f] = IF f = n THEN inHand ELSE fdToConn[f]
  BY <1>1, MainLeavesPlaces DEF InPlace, IInv, Types, TypeOK
<1>4. KnownInv'
  BY <1>1, <1>2, <1>3 DEF IInv, Core, KnownInv
<1>5. OwnInv'
  <2>1. \A d \in Client : fd[d] = n => d = inHand
    BY <1>1, <1>2, ThreadPoolAssumption DEF IInv, Core, OwnInv
  <2> QED
    BY <1>1, <1>3, <2>1 DEF IInv, Core, OwnInv
<1>6. FreshInv'
  BY <1>1, <1>2, <1>3 DEF FreshInv
<1>7. OnePlace'
  <2>1. ASSUME NEW f \in Fd, fdToConn'[f] # NoConn, f # n PROVE InPlace(f)'
    BY <1>1, <1>3, <2>1 DEF IInv, Core, OnePlace
  <2> QED
    BY <1>1, <1>3, <2>1 DEF IInv, Core, OnePlace
<1>8. DropInv'
  BY <1>1 DEF IInv, Core, DropInv
<1>9. EventInv'
  BY <1>1, EventsKeep DEF IInv
<1> QED
  BY <1>1, <1>4, <1>5, <1>6, <1>7, <1>8, <1>9 DEF IInv, Core, OnlyGoneAreDropped

LEMMA RegisterKeeps ==
    ASSUME IInv, Types', RegisterConn
    PROVE  Core' /\ EventInv'
<1> DEFINE n == fd[inHand]
<1>1. /\ main = "register" /\ main' = "accept" /\ inHand \in Client
      /\ inactive' = inactive \cup {n}
      /\ UNCHANGED <<fd, fdToConn, queue, pc, held, sent, gone, killed, events>>
  BY DEF RegisterConn, workerVars, pollVars, clientVars, IInv, Types, TypeOK, HandInv
<1>2. n \in Fd /\ ~InPlace(n)
  BY <1>1, ThreadPoolAssumption DEF IInv, Core, FreshInv, KnownInv
<1>3. \A f \in Fd : /\ Queued(f)' = Queued(f) /\ Holders(f)' = Holders(f)
                    /\ InPlace(f)' <=> (InPlace(f) \/ f = n)
  BY <1>1, MainLeavesPlaces DEF InPlace
<1>4. KnownInv'
  BY <1>1, <1>2, <1>3 DEF IInv, Core, KnownInv
<1>5. OwnInv'
  BY <1>1 DEF IInv, Core, OwnInv
<1>6. FreshInv'
  BY <1>1 DEF FreshInv
<1>7. OnePlace'
  <2>1. Queued(n) = {} /\ Holders(n) = {}
    BY <1>2 DEF InPlace
  <2>2. \A f \in Fd : fdToConn'[f] # NoConn => InPlace(f)'
    BY <1>1, <1>3 DEF IInv, Core, OnePlace
  <2> QED
    BY <1>1, <1>3, <2>1, <2>2 DEF IInv, Core, OnePlace
<1>8. DropInv'
  BY <1>1 DEF IInv, Core, DropInv
<1>9. EventInv'
  BY <1>1, EventsKeep DEF IInv
<1> QED
  BY <1>1, <1>4, <1>5, <1>6, <1>7, <1>8, <1>9 DEF IInv, Core, OnlyGoneAreDropped

-----------------------------------------------------------------------------
LEMMA PoolInit == Init => IInv
<1> SUFFICES ASSUME Init PROVE IInv
  OBVIOUS
<1>0. NoConn \notin Client /\ NoFd \notin Fd /\ Stop \notin Fd /\ BatchSize \in Nat
  BY Constants
<1>1. Types
  BY <1>0, Constants, Threads DEF Init, Types, TypeOK, HandInv
<1>2. \A f \in Fd : Queued(f) = {} /\ Holders(f) = {} /\ f \notin inactive
  BY <1>0 DEF Init, Queued, Holders
<1>3. Core
  BY <1>0, <1>2 DEF Init, Core, KnownInv, OwnInv, FreshInv, OnePlace, DropInv, OnlyGoneAreDropped,
                    InPlace, Single
<1>4. EventInv
  BY DEF Init, EventInv
<1> QED
  BY <1>1, <1>3, <1>4 DEF IInv

LEMMA TypesNext ==
    ASSUME IInv, [Next]_vars
    PROVE  Types'
<1>1. CASE UNCHANGED vars
  BY <1>1 DEF vars, closeVars, tableVars, workerVars, pollVars, mainVars, clientVars,
              IInv, Types, TypeOK, HandInv
<1>2. CASE CloseFromOutside
  <2>1. /\ active' \in BOOLEAN /\ polling' \in BOOLEAN
        /\ closing' \in [Thread -> {"no", "take", "join_poller", "stop", "join_workers", "end", "raised"}]
    BY <1>2, BeginTypes, Threads DEF CloseFromOutside, IInv, Types
  <2>2. \A w \in Worker : closing'[w] = closing[w]
    BY <1>2, Threads DEF CloseFromOutside, BeginClose, IInv, Types, TypeOK
  <2> QED
    BY <1>2, <2>1, <2>2 DEF CloseFromOutside, tableVars, workerVars, pollVars, mainVars, clientVars,
                            IInv, Types, TypeOK, HandInv
<1>3. ASSUME NEW k \in Thread, CloseStep(k) PROVE Types'
  BY <1>3, CloseStepTypes DEF IInv, Types
<1>4. ASSUME NEW c \in Client, Request(c) \/ Leave(c) PROVE Types'
  <2>1. sent' \in [Client -> Nat] /\ pending' \in [Client -> Nat] /\ gone' \subseteq Client
    <3>1. CASE Request(c)
      BY <3>1 DEF Request, IInv, Types, TypeOK
    <3>2. CASE Leave(c)
      BY <3>2 DEF Leave, IInv, Types, TypeOK
    <3> QED
      BY <1>4, <3>1, <3>2
  <2> QED
    BY <1>4, <2>1 DEF Request, Leave, closeVars, tableVars, workerVars, pollVars, mainVars,
                      IInv, Types, TypeOK, HandInv
<1>5. CASE MainStep
  BY <1>5, MainTypes DEF IInv, Types, Core
<1>6. CASE PollerStep
  BY <1>6, PollTypes DEF IInv, Types
<1>7. ASSUME NEW w \in Worker, WorkerStep(w) PROVE Types'
  BY <1>7, WorkerTypes DEF IInv, Types
<1> QED
  BY <1>1, <1>2, <1>3, <1>4, <1>5, <1>6, <1>7 DEF Next

LEMMA PoolNext ==
    ASSUME ~EarlyReuse, IInv, [Next]_vars
    PROVE  IInv'
<1>0. Types'
  BY TypesNext
<1>1. CASE UNCHANGED vars
  <2>1. Core'
    <3>1. \A c \in Client : sent'[c] >= sent[c]
      BY <1>1 DEF vars, clientVars, IInv, Types, TypeOK
    <3> QED
      BY <1>0, <1>1, <3>1, QuietKeeps
      DEF vars, tableVars, workerVars, mainVars, IInv, Queued
  <2>2. EventInv'
    BY <1>1, EventsKeep DEF vars, tableVars, pollVars, clientVars, IInv
  <2> QED
    BY <1>0, <2>1, <2>2 DEF IInv
<1>2. CASE MainStep
  BY <1>0, <1>2, AcceptKeeps, RefuseKeeps, RecordKeeps, RegisterKeeps, QuietSteps DEF MainStep, IInv
<1>3. CASE PollerStep
  BY <1>0, <1>3, PollKeeps, HandleKeeps DEF PollerStep, IInv
<1>4. ASSUME NEW w \in Worker, WorkerStep(w) PROVE IInv'
  BY <1>0, <1>4, WorkerKeeps DEF IInv
<1>5. CASE CloseFromOutside \/ \E c \in Client : Request(c) \/ Leave(c)
  BY <1>0, <1>5, QuietSteps DEF IInv
<1>6. ASSUME NEW k \in Thread, CloseStep(k) PROVE IInv'
  BY <1>0, <1>6, CloseStepKeeps DEF IInv
<1> QED
  BY <1>1, <1>2, <1>3, <1>4, <1>5, <1>6 DEF Next

(* As long as no number is handed out twice, a connection is with the poller, in
   the queue or with one worker, however many share the pool. *)
THEOREM EveryConnectionInOnePlace ==
    ASSUME ~EarlyReuse
    PROVE  Spec => []OnePlace
<1>1. IInv /\ [Next]_vars => IInv'
  BY PoolNext
<1>2. IInv => OnePlace
  BY DEF IInv, Core
<1> QED
  BY PoolInit, <1>1, <1>2, PTL DEF Spec

(* ... and the pool drops a connection only after its client has gone: neither the
   poller nor a worker ever closes a stranger's connection. *)
THEOREM NobodyIsDropped ==
    ASSUME ~EarlyReuse
    PROVE  Spec => []OnlyGoneAreDropped
<1>1. IInv /\ [Next]_vars => IInv'
  BY PoolNext
<1>2. IInv => OnlyGoneAreDropped
  BY DEF IInv, Core
<1> QED
  BY PoolInit, <1>1, <1>2, PTL DEF Spec
=============================================================================
