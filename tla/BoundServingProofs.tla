------------------------- MODULE BoundServingProofs -------------------------
(***************************************************************************)
(* For any number of clients, serving threads and workers at both ends:    *)
(* with bind_threads on, one thread of an end at a time reads from the     *)
(* channel, whoever leaves has notified who is to follow, and what is      *)
(* dispatched is dispatched by the thread it belongs to.                   *)
(*                                                                         *)
(* The parts of the invariant Inv, in their order:                         *)
(*   TypeInv    what the variables hold (with BInv: role and frames)       *)
(*   AsleepInv, WokenInv, SleepInv     who sleeps, and who is woken        *)
(*   ClientInv, QuietInv    threads of a connection that nobody has closed *)
(*   ConvInv    the threads of the two ends talk two by two (Core)         *)
(*   HomeInv    what is on its way is bound to whom it belongs to          *)
(***************************************************************************)
EXTENDS BoundServing, TLAPS, SequenceTheorems, FiniteSetTheorems, WellFoundedInduction

Receive == {"poll", "received"}

RoleTypes == DOMAIN pc = Thread /\ receiving \in [Side -> BOOLEAN]

RoleInv == RoleTypes /\ OneReceiver

LEMMA Moved ==
    ASSUME DOMAIN pc = Thread, NEW t \in Thread, NEW l, Goto(t, l)
    PROVE  DOMAIN pc' = Thread /\ \A u \in Thread : pc'[u] = IF u = t THEN l ELSE pc[u]
  BY DEF Goto

(* the receiver goes on, or another thread does *)
LEMMA StayingKeeps ==
    ASSUME RoleInv, UNCHANGED receiving, DOMAIN pc' = Thread,
           \A u \in Thread : pc'[u] \in Receive <=> pc[u] \in Receive
    PROVE  RoleInv'
  BY DEF RoleInv, RoleTypes, OneReceiver, On, Receive

(* a thread becomes the receiver of an end that has none *)
LEMMA EnteringKeeps ==
    ASSUME RoleInv, NEW t \in Thread, ~receiving[SideOf[t]], Goto(t, "poll"),
           receiving' = [receiving EXCEPT ![SideOf[t]] = TRUE]
    PROVE  RoleInv'
<1>1. /\ DOMAIN pc' = Thread
      /\ \A u \in Thread : pc'[u] \in Receive <=> u = t \/ pc[u] \in Receive
  BY Moved DEF RoleInv, RoleTypes, Receive
<1>2. SideOf[t] \in Side /\ \A u \in Thread : SideOf[u] = SideOf[t] => pc[u] \notin Receive
  BY BoundServingAssumption DEF RoleInv, OneReceiver, On, Receive
<1>3. RoleTypes'
  BY <1>1 DEF RoleInv, RoleTypes
<1>4. ASSUME NEW d \in Side
      PROVE  LET receivers == {u \in On(d) : pc'[u] \in Receive}
             IN  /\ receiving'[d] <=> receivers # {}
                 /\ \A u, v \in receivers : u = v
  <2>1. CASE d = SideOf[t]
    BY <1>1, <1>2, <2>1 DEF On, RoleInv, RoleTypes
  <2>2. CASE d # SideOf[t]
    <3>1. receiving'[d] = receiving[d]
      BY <2>2 DEF RoleInv, RoleTypes
    <3>2. {u \in On(d) : pc'[u] \in Receive} = {u \in On(d) : pc[u] \in Receive}
      BY <1>1, <2>2 DEF On
    <3>3. LET receivers == {u \in On(d) : pc[u] \in Receive}
          IN  /\ receiving[d] <=> receivers # {}
              /\ \A u, v \in receivers : u = v
      BY DEF RoleInv, OneReceiver, Receive
    <3> QED
      BY <3>1, <3>2, <3>3
  <2> QED
    BY <2>1, <2>2
<1> QED
  BY <1>3, <1>4 DEF RoleInv, OneReceiver, On, Receive

(* the receiver of an end gives up its role *)
LEMMA LeavingKeeps ==
    ASSUME RoleInv, NEW t \in Thread, DOMAIN pc' = Thread,
           \A u \in Thread : pc'[u] \in Receive <=> u # t /\ pc[u] \in Receive,
           pc[t] \in Receive \/ ~receiving[SideOf[t]],
           receiving' = [receiving EXCEPT ![SideOf[t]] = FALSE]
    PROVE  RoleInv'
<1>1. /\ DOMAIN pc' = Thread
      /\ \A u \in Thread : pc'[u] \in Receive <=> u # t /\ pc[u] \in Receive
  OBVIOUS
<1>2. SideOf[t] \in Side /\ \A u \in Thread : SideOf[u] = SideOf[t] /\ u # t => pc[u] \notin Receive
  BY BoundServingAssumption DEF RoleInv, OneReceiver, On, Receive
<1>3. RoleTypes'
  BY <1>1 DEF RoleInv, RoleTypes
<1>4. ASSUME NEW d \in Side
      PROVE  LET receivers == {u \in On(d) : pc'[u] \in Receive}
             IN  /\ receiving'[d] <=> receivers # {}
                 /\ \A u, v \in receivers : u = v
  <2>1. CASE d = SideOf[t]
    BY <1>1, <1>2, <2>1 DEF On, RoleInv, RoleTypes
  <2>2. CASE d # SideOf[t]
    <3>1. receiving'[d] = receiving[d]
      BY <2>2 DEF RoleInv, RoleTypes
    <3>2. {u \in On(d) : pc'[u] \in Receive} = {u \in On(d) : pc[u] \in Receive}
      BY <1>1, <2>2 DEF On
    <3>3. LET receivers == {u \in On(d) : pc[u] \in Receive}
          IN  /\ receiving[d] <=> receivers # {}
              /\ \A u, v \in receivers : u = v
      BY DEF RoleInv, OneReceiver, Receive
    <3> QED
      BY <3>1, <3>2, <3>3
  <2> QED
    BY <2>1, <2>2
<1> QED
  BY <1>3, <1>4 DEF RoleInv, OneReceiver, On, Receive

-----------------------------------------------------------------------------
(* Where a thread goes on after close() is in its frame, so the frames matter:
   a close() from within a handler lies above that handler's frame. *)
IsStack(s) ==
    /\ \E S : s \in Seq(S)
    /\ \A i \in 1 .. Len(s) : \/ s[i].op = "handle" \/ s[i].arg \in {"idle", "raise", "end"}
                              \/ s[i].arg = "handler" /\ i < Len(s)

NeedsFrame == {"handler", "sendclose", "cleanup", "threads", "join"}

FrameInv ==
    /\ DOMAIN stack = Thread
    /\ \A t \in Thread : /\ IsStack(stack[t])
                         /\ pc[t] \in NeedsFrame => stack[t] # <<>>

LEMMA Pushed ==
    ASSUME NEW s, IsStack(s), NEW f,
           \/ f.op = "handle" \/ f.arg \in {"idle", "raise", "end"}
           \/ f.arg = "handler" /\ s # <<>>
    PROVE  IsStack(<<f>> \o s) /\ <<f>> \o s # <<>>
<1>1. PICK S : s \in Seq(S)
  BY DEF IsStack
<1>2. s \in Seq(S \cup {f}) /\ <<f>> \in Seq(S \cup {f})
  BY <1>1
<1>3. /\ <<f>> \o s \in Seq(S \cup {f})
      /\ Len(<<f>> \o s) = Len(s) + 1 /\ Len(s) \in Nat
      /\ (<<f>> \o s)[1] = f
      /\ \A i \in 2 .. Len(s) + 1 : (<<f>> \o s)[i] = s[i - 1]
  BY <1>2
<1>4. s # <<>> => Len(s) > 0
  BY <1>1
<1>5. ASSUME NEW i \in 1 .. Len(<<f>> \o s)
      PROVE  LET g == (<<f>> \o s)[i]
             IN  \/ g.op = "handle" \/ g.arg \in {"idle", "raise", "end"}
                 \/ g.arg = "handler" /\ i < Len(<<f>> \o s)
  <2>1. CASE i = 1
    BY <1>3, <1>4, <2>1
  <2>2. CASE i # 1
    <3>1. i - 1 \in 1 .. Len(s) /\ (<<f>> \o s)[i] = s[i - 1]
      BY <1>3, <2>2
    <3> QED
      BY <1>3, <3>1 DEF IsStack
  <2> QED
    BY <2>1, <2>2
<1> QED
  BY <1>3, <1>5 DEF IsStack

LEMMA Popped ==
    ASSUME NEW s, IsStack(s), s # <<>>
    PROVE  /\ IsStack(Tail(s))
           /\ \/ Head(s).op = "handle" \/ Head(s).arg \in {"idle", "raise", "end"}
              \/ Head(s).arg = "handler" /\ Tail(s) # <<>>
<1>1. PICK S : s \in Seq(S)
  BY DEF IsStack
<1>2. /\ Tail(s) \in Seq(S) /\ Len(Tail(s)) = Len(s) - 1 /\ Len(s) \in Nat \ {0}
      /\ Head(s) = s[1] /\ \A i \in 1 .. Len(s) - 1 : Tail(s)[i] = s[i + 1]
  BY <1>1
<1>3. Len(s) > 1 => Tail(s) # <<>>
  <2>1. \A q \in Seq(S) : Len(q) > 0 => q # <<>>
    OBVIOUS
  <2> QED
    BY <1>2, <2>1
<1>4. ASSUME NEW i \in 1 .. Len(Tail(s))
      PROVE  LET g == Tail(s)[i]
             IN  \/ g.op = "handle" \/ g.arg \in {"idle", "raise", "end"}
                 \/ g.arg = "handler" /\ i < Len(Tail(s))
  <2>1. i + 1 \in 1 .. Len(s) /\ Tail(s)[i] = s[i + 1]
    BY <1>2
  <2> QED
    BY <1>2, <2>1 DEF IsStack
<1>5. 1 \in 1 .. Len(s)
  BY <1>2
<1> QED
  BY <1>2, <1>3, <1>4, <1>5 DEF IsStack

(* a thread goes on in the frame it is in *)
LEMMA FramesStay ==
    ASSUME FrameInv, UNCHANGED stack,
           \A u \in Thread : pc'[u] \in NeedsFrame => pc[u] \in NeedsFrame \/ stack[u] # <<>>
    PROVE  FrameInv'
  BY DEF FrameInv

LEMMA FramesPushed ==
    ASSUME FrameInv, DOMAIN pc = Thread, NEW t \in Thread, NEW l, Goto(t, l), NEW op, NEW arg, Push(t, op, arg),
           \/ op = "handle" \/ arg \in {"idle", "raise", "end"}
           \/ arg = "handler" /\ stack[t] # <<>>
    PROVE  FrameInv'
<1> DEFINE f == [op |-> op, await |-> await[t], arg |-> arg]
<1>1. IsStack(<<f>> \o stack[t]) /\ <<f>> \o stack[t] # <<>>
  BY Pushed DEF FrameInv
<1>2. stack' = [stack EXCEPT ![t] = <<f>> \o stack[t]]
  BY DEF Push
<1> HIDE DEF f
<1> QED
  BY <1>1, <1>2, Moved DEF FrameInv

LEMMA FramesPopped ==
    ASSUME FrameInv, DOMAIN pc = Thread, NEW t \in Thread, NEW l, Goto(t, l), Pop(t), stack[t] # <<>>,
           l \notin NeedsFrame \/ Tail(stack[t]) # <<>>
    PROVE  FrameInv'
<1>1. IsStack(Tail(stack[t]))
  BY Popped DEF FrameInv
<1>2. stack' = [stack EXCEPT ![t] = Tail(stack[t])]
  BY DEF Pop
<1> QED
  BY <1>1, <1>2, Moved DEF FrameInv

-----------------------------------------------------------------------------
(* the steps, by what they do to the role and to the frames *)

BInv == RoleInv /\ FrameInv

Outside == {"idle", "loop", "asleep", "dispatch", "handler", "raise", "eof", "closing",
            "sendclose", "cleanup", "threads", "join", "end"}

LEMMA OutsideOnly ==
    ASSUME BInv, UNCHANGED receiving, NEW t \in Thread, pc[t] \notin Receive,
           NEW l \in Outside, Goto(t, l)
    PROVE  RoleInv'
<1>1. l \notin Receive
  BY DEF Outside, Receive
<1>2. DOMAIN pc' = Thread /\ \A u \in Thread : pc'[u] \in Receive <=> pc[u] \in Receive
  BY <1>1, Moved DEF BInv, RoleInv, RoleTypes
<1> QED
  BY <1>2, StayingKeeps DEF BInv

LEMMA AfterIsOutside ==
    ASSUME FrameInv, NEW t \in Thread
    PROVE  After(t) \in Outside /\ (After(t) \in NeedsFrame => stack[t] # <<>>)
  BY DEF After, Outside, NeedsFrame

(* steps that only go on *)
LEMMA GoingOn ==
    ASSUME BInv, NEW t \in Thread, pc[t] \notin Receive, UNCHANGED <<receiving, stack>>,
           NEW l \in Outside, Goto(t, l), l \in NeedsFrame => stack[t] # <<>>
    PROVE  BInv'
<1>1. \A u \in Thread : pc'[u] \in NeedsFrame => pc[u] \in NeedsFrame \/ stack[u] # <<>>
  BY Moved DEF BInv, RoleInv, RoleTypes
<1> QED
  BY <1>1, OutsideOnly, FramesStay DEF BInv

LEMMA SendingGoesOn ==
    ASSUME NEW t \in Thread, NEW type, SendRequest(t, type)
    PROVE  \E l \in {"loop", "raise"} : Goto(t, l)
  BY DEF SendRequest

LEMMA LoopSteps ==
    ASSUME BInv, NEW t \in Thread,
           \/ WaitDone(t) \/ Raise(t) \/ LoopEnds(t) \/ ClientCalls(t) \/ HandlerCalls(t)
           \/ SendClose(t) \/ DispatchReply(t)
    PROVE  BInv'
<1> USE DEF waitVars, threadVars, boundVars, closeVars, netVars
<1>0. After(t) \in Outside /\ (After(t) \in NeedsFrame => stack[t] # <<>>)
  BY AfterIsOutside DEF BInv
<1>1. CASE WaitDone(t)
  BY <1>0, <1>1, GoingOn DEF WaitDone, Receive
<1>2. CASE Raise(t)
  BY <1>0, <1>2, GoingOn DEF Raise, Receive
<1>3. CASE LoopEnds(t)
  BY <1>0, <1>3, GoingOn DEF LoopEnds, Receive
<1>4. CASE ClientCalls(t) \/ HandlerCalls(t) \/ SendClose(t)
  <2>1. /\ pc[t] \notin Receive /\ UNCHANGED <<receiving, stack>>
        /\ \E l \in {"loop", "raise"} : Goto(t, l)
    BY <1>4, SendingGoesOn DEF ClientCalls, HandlerCalls, SendClose, Receive
  <2> QED
    BY <2>1, GoingOn DEF Outside, NeedsFrame
<1>5. CASE DispatchReply(t)
  BY <1>5, GoingOn DEF DispatchReply, Receive, Outside, NeedsFrame
<1> QED
  BY <1>1, <1>2, <1>3, <1>4, <1>5

LEMMA FrameSteps ==
    ASSUME BInv, NEW t \in Thread, DispatchRequest(t) \/ SendReply(t)
    PROVE  BInv'
<1> USE DEF waitVars
<1>0. DOMAIN pc = Thread
  BY DEF BInv, RoleInv, RoleTypes
<1>1. CASE DispatchRequest(t)
  <2>1. PICK l \in {"cleanup", "handler"} : Goto(t, l)
    BY <1>1 DEF DispatchRequest
  <2>2. pc[t] \notin Receive /\ UNCHANGED receiving /\ Push(t, "handle", msg[t].seq)
    BY <1>1 DEF DispatchRequest, Receive
  <2>3. RoleInv'
    BY <2>1, <2>2, OutsideOnly DEF Outside
  <2>4. FrameInv'
    BY <1>0, <2>1, <2>2, FramesPushed DEF BInv
  <2> QED
    BY <2>3, <2>4 DEF BInv
<1>2. CASE SendReply(t)
  <2>1. PICK l \in {"loop", "raise"} : Goto(t, l)
    BY <1>2 DEF SendReply
  <2>2. pc[t] = "handler" /\ UNCHANGED receiving /\ Pop(t)
    BY <1>2 DEF SendReply
  <2>3. RoleInv'
    BY <2>1, <2>2, OutsideOnly DEF Outside, Receive
  <2>4. stack[t] # <<>> /\ l \notin NeedsFrame
    BY <2>1, <2>2 DEF BInv, FrameInv, NeedsFrame
  <2>5. FrameInv'
    BY <1>0, <2>1, <2>2, <2>4, FramesPopped DEF BInv
  <2> QED
    BY <2>3, <2>5 DEF BInv
<1> QED
  BY <1>1, <1>2

-----------------------------------------------------------------------------
(* close(): a thread goes on where its frame says *)

LEMMA CleanedKeeps ==
    ASSUME BInv, NEW t \in Thread, pc[t] \in NeedsFrame, UNCHANGED receiving, Cleaned(t)
    PROVE  BInv'
<1>0. /\ DOMAIN pc = Thread /\ stack[t] # <<>> /\ pc[t] \notin Receive
      /\ IsStack(stack[t])
  BY DEF BInv, RoleInv, RoleTypes, FrameInv, NeedsFrame, Receive
<1>1. CASE Head(stack[t]).op = "handle"
  <2>1. Goto(t, "handler") /\ UNCHANGED stack
    BY <1>1 DEF Cleaned
  <2> QED
    BY <1>0, <2>1, GoingOn DEF Outside
<1>2. CASE Head(stack[t]).op # "handle"
  <2> DEFINE l == Head(stack[t]).arg
  <2>1. Goto(t, l) /\ Pop(t)
    BY <1>2 DEF Cleaned
  <2>2. \/ l \in {"idle", "raise", "end"}
        \/ l = "handler" /\ Tail(stack[t]) # <<>>
    BY <1>0, <1>2, Popped
  <2> HIDE DEF l
  <2>3. l \in Outside /\ (l \notin NeedsFrame \/ Tail(stack[t]) # <<>>)
    BY <2>2 DEF Outside, NeedsFrame
  <2>4. RoleInv'
    BY <1>0, <2>1, <2>3, OutsideOnly
  <2>5. FrameInv'
    BY <1>0, <2>1, <2>3, FramesPopped DEF BInv
  <2> QED
    BY <2>4, <2>5 DEF BInv
<1> QED
  BY <1>1, <1>2

LEMMA ClosingKeeps ==
    ASSUME BInv, NEW t \in Thread, NEW from \in {"eof", "closing", "idle", "handler"},
           NEW arg, Close(t, from, arg),
           arg \in {"idle", "raise", "end"} \/ (from = "handler" /\ arg = "handler")
    PROVE  BInv'
<1> USE DEF waitVars
<1>0. /\ DOMAIN pc = Thread /\ pc[t] = from /\ pc[t] \notin Receive /\ UNCHANGED receiving
      /\ arg \in {"idle", "raise", "end"} \/ (arg = "handler" /\ stack[t] # <<>>)
  BY DEF BInv, RoleInv, RoleTypes, FrameInv, NeedsFrame, Receive, Close
<1>1. CASE closed[SideOf[t]]
  <2>1. Goto(t, arg) /\ UNCHANGED stack
    BY <1>1 DEF Close
  <2>2. arg \in Outside /\ (arg \in NeedsFrame => stack[t] # <<>>)
    BY <1>0 DEF Outside, NeedsFrame
  <2> QED
    BY <1>0, <2>1, <2>2, GoingOn
<1>2. CASE ~closed[SideOf[t]]
  <2>1. Goto(t, "sendclose") /\ Push(t, "close", arg)
    BY <1>2 DEF Close
  <2>2. RoleInv'
    BY <1>0, <2>1, OutsideOnly DEF Outside
  <2>3. FrameInv'
    BY <1>0, <2>1, FramesPushed DEF BInv
  <2> QED
    BY <2>2, <2>3 DEF BInv
<1> QED
  BY <1>1, <1>2

LEMMA CloseSteps ==
    ASSUME BInv, NEW t \in Thread, CloseStep(t) \/ UserCloses(t)
    PROVE  BInv'
<1> USE DEF waitVars, closeVars
<1>0. \A from \in {"eof", "closing", "idle", "handler"} :
          \A arg \in {"idle", "raise", "end", "handler"} :
             /\ Close(t, from, arg)
             /\ arg = "handler" => from = "handler"
             => BInv'
  BY ClosingKeeps
<1>1. CASE Close(t, "eof", "raise") \/ Close(t, "closing", "end")
  BY <1>0, <1>1
<1>2. CASE UserCloses(t)
  BY <1>0, <1>2 DEF UserCloses
<1>3. CASE SendClose(t)
  BY <1>3, LoopSteps
<1>4. CASE Cleanup(t)
  <2>1. pc[t] = "cleanup" /\ UNCHANGED receiving
    BY <1>4 DEF Cleanup
  <2>2. CASE open[SideOf[t]]
    <3>1. Goto(t, "threads") /\ UNCHANGED stack /\ stack[t] # <<>>
      BY <1>4, <2>1, <2>2 DEF Cleanup, BInv, FrameInv, NeedsFrame
    <3> QED
      BY <2>1, <3>1, GoingOn DEF Outside, Receive
  <2>3. CASE ~open[SideOf[t]]
    BY <1>4, <2>1, <2>3, CleanedKeeps DEF Cleanup, NeedsFrame
  <2> QED
    BY <2>2, <2>3
<1>5. CASE CleanupThreads(t)
  <2>1. pc[t] = "threads"
    BY <1>5 DEF CleanupThreads
  <2>2. CASE t \in workers[SideOf[t]]
    BY <1>5, <2>1, <2>2, CleanedKeeps DEF CleanupThreads, NeedsFrame
  <2>3. CASE t \notin workers[SideOf[t]]
    <3>1. EndWorkers(SideOf[t]) /\ Goto(t, "join") /\ UNCHANGED stack
      BY <1>5, <2>3 DEF CleanupThreads
    <3>2. UNCHANGED receiving /\ stack[t] # <<>>
      BY <2>1, <3>1 DEF EndWorkers, BInv, FrameInv, NeedsFrame
    <3> QED
      BY <2>1, <3>1, <3>2, GoingOn DEF Outside, Receive
  <2> QED
    BY <2>2, <2>3
<1>6. CASE JoinWorkers(t)
  BY <1>6, CleanedKeeps DEF JoinWorkers, NeedsFrame
<1> QED
  BY <1>1, <1>2, <1>3, <1>4, <1>5, <1>6 DEF CloseStep

-----------------------------------------------------------------------------
(* __serve_bound up to the poll *)

LEMMA ProceedKeeps ==
    ASSUME BInv, NEW t \in Thread, pc[t] \in {"loop", "asleep"}, Ready(t),
           NEW p, Proceed(t, p), UNCHANGED stack
    PROVE  BInv'
<1>0. DOMAIN pc = Thread /\ pc[t] \notin Receive
  BY DEF BInv, RoleInv, RoleTypes, Receive
<1>1. CASE Predicate(t)
  <2>1. Goto(t, "loop") /\ UNCHANGED receiving
    BY <1>1 DEF Proceed
  <2> QED
    BY <1>0, <2>1, GoingOn DEF Outside, NeedsFrame
<1>2. CASE ~Predicate(t) /\ deque[t] # <<>>
  <2>1. PICK l \in {"loop", "dispatch"} : Goto(t, l) /\ UNCHANGED receiving
    BY <1>2 DEF Proceed, TakeOwn
  <2> QED
    BY <1>0, <2>1, GoingOn DEF Outside, NeedsFrame
<1>3. CASE ~Predicate(t) /\ deque[t] = <<>>
  <2>1. ~receiving[SideOf[t]]
    BY <1>3 DEF Ready
  <2>2. CASE serve[t]
    <3>1. Goto(t, "poll") /\ receiving' = [receiving EXCEPT ![SideOf[t]] = TRUE]
      BY <1>3, <2>2 DEF Proceed
    <3>2. RoleInv'
      BY <2>1, <3>1, EnteringKeeps DEF BInv
    <3>3. FrameInv'
      BY <1>0, <3>1, FramesStay, Moved DEF BInv, NeedsFrame
    <3> QED
      BY <3>2, <3>3 DEF BInv
  <2>3. CASE ~serve[t]
    <3>1. Goto(t, "loop") /\ receiving' = [receiving EXCEPT ![SideOf[t]] = FALSE]
      BY <1>3, <2>3 DEF Proceed, GuardExit
    <3>2. /\ DOMAIN pc' = Thread
          /\ \A u \in Thread : pc'[u] = IF u = t THEN "loop" ELSE pc[u]
      BY <1>0, <3>1, Moved
    <3>3. \A u \in Thread : pc'[u] \in Receive <=> u # t /\ pc[u] \in Receive
      BY <3>2 DEF Receive
    <3>4. RoleInv'
      BY <2>1, <3>1, <3>2, <3>3, LeavingKeeps DEF BInv
    <3>5. FrameInv'
      BY <3>2, FramesStay DEF BInv, NeedsFrame
    <3> QED
      BY <3>4, <3>5 DEF BInv
  <2> QED
    BY <2>2, <2>3
<1> QED
  BY <1>1, <1>2, <1>3

LEMMA EnterSteps ==
    ASSUME BInv, NEW t \in Thread, ServeEnter(t) \/ ServeWoken(t)
    PROVE  BInv'
<1>1. CASE Ready(t)
  BY <1>1, ProceedKeeps DEF ServeEnter, ServeWoken
<1>2. CASE ~Ready(t)
  <2>1. CASE ServeEnter(t)
    BY <1>2, <2>1, GoingOn DEF ServeEnter, Outside, NeedsFrame, Receive
  <2>2. CASE ServeWoken(t)
    BY <1>2, <2>2, StayingKeeps, FramesStay DEF ServeWoken, BInv, RoleInv, RoleTypes
  <2> QED
    BY <2>1, <2>2
<1> QED
  BY <1>1, <1>2

-----------------------------------------------------------------------------
(* the receiver, and what it does with a message *)

LEMMA PollSteps ==
    ASSUME BInv, NEW t \in Thread, PollData(t) \/ PollEOF(t) \/ PollWoken(t)
    PROVE  BInv'
<1>1. pc[t] = "poll" /\ UNCHANGED <<receiving, stack>> /\ Goto(t, "received")
  BY DEF PollData, PollEOF, PollWoken, Received, waitVars
<1>2. /\ DOMAIN pc' = Thread
      /\ \A u \in Thread : pc'[u] = IF u = t THEN "received" ELSE pc[u]
  BY <1>1, Moved DEF BInv, RoleInv, RoleTypes
<1>3. RoleInv'
  BY <1>1, <1>2, StayingKeeps DEF BInv, Receive
<1>4. FrameInv'
  BY <1>1, <1>2, FramesStay DEF BInv, NeedsFrame
<1> QED
  BY <1>3, <1>4 DEF BInv

(* the receiver leaves __serve_bound's loop *)
LEMMA LeaveSteps ==
    ASSUME BInv, NEW t \in Thread, LeaveEmpty(t) \/ TakeMessage(t)
    PROVE  BInv'
<1>1. /\ pc[t] = "received" /\ UNCHANGED stack
      /\ receiving' = [receiving EXCEPT ![SideOf[t]] = FALSE]
  BY DEF LeaveEmpty, TakeMessage, GuardExit, Got
<1>2. PICK l \in {"eof", "loop", "dispatch"} : Goto(t, l)
  BY DEF LeaveEmpty, TakeMessage
<1>3. /\ DOMAIN pc' = Thread
      /\ \A u \in Thread : pc'[u] = IF u = t THEN l ELSE pc[u]
  BY <1>2, Moved DEF BInv, RoleInv, RoleTypes
<1>4. \A u \in Thread : pc'[u] \in Receive <=> u # t /\ pc[u] \in Receive
  BY <1>3 DEF Receive
<1>5. RoleInv'
  BY <1>1, <1>3, <1>4, LeavingKeeps DEF BInv, Receive
<1>6. FrameInv'
  BY <1>1, <1>3, FramesStay DEF BInv, NeedsFrame
<1> QED
  BY <1>5, <1>6 DEF BInv

(* the receiver has handed its message to others, of whom some may be new *)
LEMMA NextKeeps ==
    ASSUME BInv, NEW t \in Thread, pc[t] = "received", UNCHANGED stack,
           NEW woken, NEW queues, ReceiveNext(t, woken, queues),
           DOMAIN pc' = Thread, pc'[t] = AfterHandOver(t),
           \A u \in Thread : u # t => pc'[u] = pc[u] \/ (pc[u] = "idle" /\ pc'[u] = "loop")
    PROVE  BInv'
<1>1. FrameInv'
  BY FramesStay DEF BInv, NeedsFrame, AfterHandOver
<1>2. \A u \in Thread : u # t => (pc'[u] \in Receive <=> pc[u] \in Receive)
  BY DEF Receive
<1>3. CASE serve[t]
  <2>1. UNCHANGED receiving /\ pc'[t] \in Receive /\ pc[t] \in Receive
    BY <1>3 DEF ReceiveNext, AfterHandOver, Receive
  <2>2. RoleInv'
    BY <1>2, <2>1, StayingKeeps DEF BInv
  <2> QED
    BY <1>1, <2>2 DEF BInv
<1>4. CASE ~serve[t]
  <2>1. /\ receiving' = [receiving EXCEPT ![SideOf[t]] = FALSE]
        /\ pc'[t] \notin Receive /\ pc[t] \in Receive
    BY <1>4 DEF ReceiveNext, AfterHandOver, Receive
  <2>2. \A u \in Thread : pc'[u] \in Receive <=> u # t /\ pc[u] \in Receive
    BY <1>2, <2>1
  <2>3. RoleInv'
    BY <2>1, <2>2, LeavingKeeps DEF BInv
  <2> QED
    BY <1>1, <2>3 DEF BInv
<1> QED
  BY <1>3, <1>4

LEMMA HandingSteps ==
    ASSUME BInv, NEW t \in Thread, HandOver(t) \/ StartWorker(t) \/ DropMessage(t)
    PROVE  BInv'
<1>0. DOMAIN pc = Thread
  BY DEF BInv, RoleInv, RoleTypes
<1>1. pc[t] = "received" /\ UNCHANGED stack
  BY DEF HandOver, StartWorker, DropMessage, Got
<1>2. \E woken, queues : ReceiveNext(t, woken, queues)
  <2>1. CASE HandOver(t)
    <3>1. PICK u \in Recipient(t) : ReceiveNext(t, {u}, deque')
      BY <2>1 DEF HandOver
    <3> QED
      BY <3>1
  <2>2. CASE StartWorker(t)
    BY <2>2 DEF StartWorker
  <2>3. CASE DropMessage(t)
    BY <2>3 DEF DropMessage
  <2> QED
    BY <2>1, <2>2, <2>3
<1>3. /\ DOMAIN pc' = Thread /\ pc'[t] = AfterHandOver(t)
      /\ \A u \in Thread : u # t => pc'[u] = pc[u] \/ (pc[u] = "idle" /\ pc'[u] = "loop")
  <2>1. CASE HandOver(t) \/ DropMessage(t)
    <3>1. Goto(t, AfterHandOver(t))
      BY <2>1 DEF HandOver, DropMessage
    <3> QED
      BY <1>0, <3>1, Moved
  <2>2. CASE StartWorker(t)
    <3>1. PICK w \in Worker : /\ pc[w] = "idle"
                              /\ pc' = [pc EXCEPT ![w] = "loop", ![t] = AfterHandOver(t)]
      BY <2>2 DEF StartWorker
    <3> QED
      BY <1>0, <1>1, <3>1
  <2> QED
    BY <2>1, <2>2
<1> QED
  BY <1>1, <1>2, <1>3, NextKeeps

-----------------------------------------------------------------------------
LEMMA InitRole == Init => BInv
<1> SUFFICES ASSUME Init PROVE BInv
  OBVIOUS
<1>1. /\ DOMAIN pc = Thread /\ receiving = [d \in Side |-> FALSE]
      /\ \A t \in Thread : pc[t] \in {"loop", "idle"}
      /\ stack = [t \in Thread |-> <<>>]
  BY DEF Init
<1>2. RoleInv
  BY <1>1 DEF RoleInv, RoleTypes, OneReceiver, On, Side
<1>3. <<>> \in Seq({}) /\ Len(<<>>) = 0
  OBVIOUS
<1>4. IsStack(<<>>)
  BY <1>3 DEF IsStack
<1>5. FrameInv
  BY <1>1, <1>4 DEF FrameInv, NeedsFrame
<1> QED
  BY <1>2, <1>5 DEF BInv

LEMMA StepKeepsRole == BInv /\ [Next]_vars => BInv'
<1> SUFFICES ASSUME BInv, [Next]_vars PROVE BInv'
  OBVIOUS
<1>1. CASE UNCHANGED <<pc, stack, receiving>>
  BY <1>1, StayingKeeps, FramesStay DEF BInv, RoleInv, RoleTypes
<1>2. ASSUME NEW t \in Thread, ServeStep(t)
      PROVE  BInv'
  BY <1>2, LoopSteps, FrameSteps, EnterSteps, PollSteps, LeaveSteps, HandingSteps DEF ServeStep
<1>3. ASSUME NEW t \in Thread, CloseStep(t) \/ ClientCalls(t) \/ HandlerCalls(t) \/ UserCloses(t)
      PROVE  BInv'
  BY <1>3, LoopSteps, CloseSteps
<1>4. ASSUME NEW d \in Side, CleanerStep(d)
      PROVE  UNCHANGED <<pc, stack, receiving>>
  BY <1>4 DEF CleanerStep, EndWorkers, threadVars, waitVars
<1>5. ASSUME NEW s \in SeqNo, Expire(s)
      PROVE  UNCHANGED <<pc, stack, receiving>>
  BY <1>5 DEF Expire, threadVars, waitVars
<1>6. CASE UNCHANGED vars
  BY <1>1, <1>6 DEF vars, threadVars, waitVars
<1> QED
  BY <1>1, <1>2, <1>3, <1>4, <1>5, <1>6 DEF Next

(* With bind_threads on, however many threads enter __serve_bound, one of an end
   polls and receives at a time, and _receiving says whether there is one. *)
THEOREM OneReads == Spec => []OneReceiver
<1>1. BInv => OneReceiver
  BY DEF BInv, RoleInv
<1> QED
  BY <1>1, InitRole, StepKeepsRole, PTL DEF Spec

-----------------------------------------------------------------------------
(* What the variables hold.  Requests are numbered in the order of owner, and a
   message, a frame or an await that names one names one that was sent. *)
Place == {"idle", "loop", "asleep", "poll", "received", "dispatch", "handler", "raise", "eof",
          "closing", "sendclose", "cleanup", "threads", "join", "end"}

(* the requests of a thread, and the frames it can be inside of *)
Numbers(t) == {s \in SeqNo : s < issued /\ owner[s + 1].thread = t}
Inside(t) ==
    {f \in Frame : /\ f.await \in Numbers(t) \cup {NoSeq}
                   /\ f.op = "handle" => f.arg < issued
                   /\ f.op = "close" /\ f.arg = "idle" => t \in Client}

(* the messages that can reach an end, and those a thread of it can have to dispatch:
   they are for it or for nobody in particular *)
Sent(d) ==
    {m \in Message : /\ SideOf[m.from] # d /\ (m.to = Unbound \/ SideOf[m.to] = d)
                     /\ m.seq < issued
                     /\ m.type # "reply" => owner[m.seq + 1].thread = m.from}
Due(t) == {m \in Sent(SideOf[t]) : m.to = t \/ m.to = Unbound}

NumberInv ==
    /\ issued \in 0 .. MaxCall + 2
    /\ owner \in Seq([thread : Thread, home : Thread \cup {Unbound}]) /\ Len(owner) = issued
    /\ done \subseteq SeqNo /\ expired \subseteq SeqNo
    /\ \A s \in done \cup expired : s < issued

AwaitInv ==
    /\ await \in [Thread -> SeqNo \cup {NoSeq}]
    /\ \A t \in Thread : await[t] \in Numbers(t) \cup {NoSeq}

(* a close() from within a handler lies above that handler *)
IsNested(s) ==
    \A i \in 1 .. Len(s) : s[i].op = "close" /\ s[i].arg = "handler" =>
                             i < Len(s) /\ s[i + 1].op = "handle"

NestInv ==
    /\ stack \in [Thread -> Seq(Frame)]
    /\ \A t \in Thread : /\ stack[t] \in Seq(Inside(t)) /\ IsNested(stack[t])
                         /\ pc[t] = "handler" => stack[t] # <<>> /\ Head(stack[t]).op = "handle"

HandInv ==
    /\ msg \in [Thread -> Message \cup {NoMsg, EOF}]
    /\ \A t \in Thread : /\ msg[t] \in Sent(SideOf[t]) \cup {NoMsg, EOF}
                         /\ pc[t] = "dispatch" => msg[t] \in Due(t)
                         /\ pc[t] \notin {"received", "dispatch"} => msg[t] = NoMsg

DequeInv ==
    /\ deque \in [Thread -> Seq(Message \cup {Wake})]
    /\ \A t \in Thread : deque[t] \in Seq(Due(t) \cup {Wake})

WireInv ==
    /\ wire \in [Side -> Seq(Message)]
    /\ \A d \in Side : wire[d] \in Seq(Sent(d))

RemoteInv ==
    /\ remote \in [Thread -> Thread \cup {Unbound}]
    /\ \A t \in Thread : remote[t] = Unbound \/ SideOf[remote[t]] # SideOf[t]

FlagTypes ==
    /\ pc \in [Thread -> Place] /\ occupation \in [Thread -> Nat]
    /\ serve \in [Thread -> BOOLEAN] /\ asleep \subseteq Thread
    /\ receiving \in [Side -> BOOLEAN] /\ kicked \in [Side -> BOOLEAN] /\ workers \in [Side -> SUBSET Worker]
    /\ closed \in [Side -> BOOLEAN] /\ open \in [Side -> BOOLEAN]
    /\ cleaner \in [Side -> {"none", "start", "join", "end"}]
    /\ joining \in [Side -> SUBSET Worker]

Contents == NumberInv /\ AwaitInv /\ NestInv /\ HandInv /\ DequeInv /\ WireInv /\ RemoteInv

(* the pool of an end lists its threads that are asleep, each of them once *)
PoolInv ==
    /\ pool \in [Side -> Seq(Thread)]
    /\ \A d \in Side : /\ Range(pool[d]) = {t \in On(d) : pc[t] = "asleep"}
                       /\ IsInjective(pool[d])

(* what ends a thread, its worker or a request comes with a close() of that end *)
HasClose(s) == \E i \in 1 .. Len(s) : s[i].op = "close"

ClosedInv ==
    /\ \A d \in Side : /\ ~open[d] \/ cleaner[d] # "none" => closed[d]
                       /\ workers[d] \subseteq On(d)
    /\ \A t \in Thread : /\ pc[t] \in {"raise", "sendclose", "threads", "join"} => closed[SideOf[t]]
                         /\ HasClose(stack[t]) \/ ~serve[t] => closed[SideOf[t]]

TypeInv == BInv /\ FlagTypes /\ Contents /\ PoolInv /\ ClosedInv

(* Requests are only added: what could be named, a message that was due, can be and is. *)
Grown ==
    /\ \A t \in Thread : /\ Numbers(t) \subseteq Numbers(t)' /\ Inside(t) \subseteq Inside(t)'
                         /\ Due(t) \subseteq Due(t)'
    /\ \A d \in Side : Sent(d) \subseteq Sent(d)'

LEMMA SeqGrows ==
    ASSUME NEW S, NEW T, S \subseteq T, NEW s \in Seq(S)
    PROVE  s \in Seq(T)
  OBVIOUS

LEMMA ElementOf ==
    ASSUME NEW S, NEW s \in Seq(S), NEW i \in 1 .. Len(s)
    PROVE  s[i] \in S
  OBVIOUS

LEMMA TailOf ==
    ASSUME NEW S, NEW s \in Seq(S), s # <<>>
    PROVE  Tail(s) \in Seq(S)
  OBVIOUS

LEMMA HeadIs ==
    ASSUME NEW S, NEW s \in Seq(S), Len(s) >= 1
    PROVE  s # <<>> /\ Head(s) = s[1]
  OBVIOUS

LEMMA Sides ==
    ASSUME NEW t \in Thread
    PROVE  /\ SideOf[t] \in Side /\ Peer(SideOf[t]) \in Side /\ Peer(SideOf[t]) # SideOf[t]
           /\ \A d \in Side : d = SideOf[t] \/ d = Peer(SideOf[t])
<1>1. SideOf[t] \in Side
  BY BoundServingAssumption
<1>2. \E e \in Side : e # SideOf[t]
  BY <1>1 DEF Side
<1>3. Peer(SideOf[t]) \in Side /\ Peer(SideOf[t]) # SideOf[t]
  BY <1>2 DEF Peer
<1> QED
  BY <1>1, <1>3 DEF Side

LEMMA GrownBy ==
    ASSUME NumberInv,
           \/ UNCHANGED <<issued, owner>>
           \/ \E x : issued' = issued + 1 /\ owner' = Append(owner, x)
    PROVE  Grown
<1>1. issued' >= issued /\ \A s \in SeqNo : s < issued => owner'[s + 1] = owner[s + 1]
  <2>1. CASE UNCHANGED <<issued, owner>>
    BY <2>1 DEF NumberInv
  <2>2. ASSUME NEW x, issued' = issued + 1, owner' = Append(owner, x)
        PROVE  issued' >= issued /\ \A s \in SeqNo : s < issued => owner'[s + 1] = owner[s + 1]
    BY <2>2 DEF NumberInv, SeqNo
  <2> QED
    BY <2>1, <2>2
<1>2. issued \in Int /\ issued' \in Int
  BY DEF NumberInv
<1>3. \A t \in Thread : Numbers(t) \subseteq Numbers(t)'
  BY <1>1, <1>2 DEF Numbers, SeqNo
<1>4. \A t \in Thread : Inside(t) \subseteq Inside(t)'
  BY <1>1, <1>2, <1>3 DEF Inside, Frame, SeqNo
<1>5. \A d \in Side : Sent(d) \subseteq Sent(d)'
  BY <1>1, <1>2 DEF Sent, Message, SeqNo
<1>6. \A t \in Thread : Due(t) \subseteq Due(t)'
  <2> SUFFICES ASSUME NEW t \in Thread, NEW m \in Due(t) PROVE m \in Due(t)'
    OBVIOUS
  <2>1. m \in Sent(SideOf[t])' /\ m.to \in Thread \cup {Unbound}
    BY <1>5, Sides DEF Due, Sent, Message
  <2> QED
    BY <2>1 DEF Due
<1> QED
  BY <1>3, <1>4, <1>5, <1>6 DEF Grown

(* one lemma for each part: what a step leaves alone, and what it gives to a thread *)
LEMMA AwaitKeeps ==
    ASSUME AwaitInv, Grown, NEW t \in Thread, NEW a \in Numbers(t)' \cup {NoSeq},
           UNCHANGED await \/ await' = [await EXCEPT ![t] = a]
    PROVE  AwaitInv'
<1>1. a \in SeqNo \cup {NoSeq}
  BY DEF Numbers
<1>2. await' \in [Thread -> SeqNo \cup {NoSeq}]
  BY <1>1 DEF AwaitInv
<1>3. ASSUME NEW u \in Thread PROVE await'[u] \in Numbers(u)' \cup {NoSeq}
  BY DEF AwaitInv, Grown
<1> QED
  BY <1>2, <1>3 DEF AwaitInv

LEMMA NestKeeps ==
    ASSUME NestInv, Grown, NEW t \in Thread, NEW s \in Seq(Inside(t)'), IsNested(s),
           UNCHANGED stack \/ stack' = [stack EXCEPT ![t] = s],
           \A u \in Thread : u # t /\ pc'[u] = "handler" => pc[u] = "handler",
           pc'[t] = "handler" => stack'[t] # <<>> /\ Head(stack'[t]).op = "handle"
    PROVE  NestInv'
<1>1. Inside(t)' \subseteq Frame
  BY DEF Inside
<1>2. s \in Seq(Frame)
  BY <1>1, SeqGrows
<1>3. stack' \in [Thread -> Seq(Frame)]
  BY <1>2 DEF NestInv
<1>4. ASSUME NEW u \in Thread
      PROVE  /\ stack'[u] \in Seq(Inside(u)') /\ IsNested(stack'[u])
             /\ pc'[u] = "handler" => stack'[u] # <<>> /\ Head(stack'[u]).op = "handle"
  <2>1. /\ stack[u] \in Seq(Inside(u)) /\ IsNested(stack[u])
        /\ pc[u] = "handler" => stack[u] # <<>> /\ Head(stack[u]).op = "handle"
    BY DEF NestInv
  <2>2. stack[u] \in Seq(Inside(u)')
    BY <2>1, SeqGrows DEF Grown
  <2>3. stack'[u] = stack[u] \/ (u = t /\ stack'[u] = s)
    BY DEF NestInv
  <2>4. u # t => stack'[u] = stack[u]
    BY DEF NestInv
  <2> QED
    BY <2>1, <2>2, <2>3, <2>4
<1> QED
  BY <1>3, <1>4 DEF NestInv

LEMMA HandKeeps ==
    ASSUME HandInv, Grown, NEW t \in Thread, NEW m \in Sent(SideOf[t])' \cup {NoMsg, EOF},
           \/ msg' = [msg EXCEPT ![t] = m]
           \/ UNCHANGED msg /\ m = msg[t],
           pc'[t] = "dispatch" => m \in Due(t)',
           pc'[t] \notin {"received", "dispatch"} => m = NoMsg,
           \A u \in Thread : u # t => \/ pc'[u] = pc[u]
                                      \/ {pc[u], pc'[u]} \cap {"received", "dispatch"} = {}
    PROVE  HandInv'
<1>1. m \in Message \cup {NoMsg, EOF}
  BY DEF Sent
<1>2. msg' \in [Thread -> Message \cup {NoMsg, EOF}]
  BY <1>1 DEF HandInv
<1>3. ASSUME NEW u \in Thread
      PROVE  /\ msg'[u] \in Sent(SideOf[u])' \cup {NoMsg, EOF}
             /\ pc'[u] = "dispatch" => msg'[u] \in Due(u)'
             /\ pc'[u] \notin {"received", "dispatch"} => msg'[u] = NoMsg
  <2>1. CASE u = t
    BY <2>1 DEF HandInv
  <2>2. CASE u # t
    <3>1. msg'[u] = msg[u]
      BY <2>2 DEF HandInv
    <3>2. msg[u] \in Sent(SideOf[u])' \cup {NoMsg, EOF}
      BY Sides DEF HandInv, Grown
    <3>3. pc[u] = "dispatch" => msg[u] \in Due(u)'
      BY DEF HandInv, Grown
    <3>4. pc[u] \notin {"received", "dispatch"} => msg[u] = NoMsg
      BY DEF HandInv
    <3>5. /\ pc'[u] = "dispatch" => pc[u] = "dispatch"
          /\ pc'[u] \notin {"received", "dispatch"} => pc[u] \notin {"received", "dispatch"}
      BY <2>2
    <3> QED
      BY <3>1, <3>2, <3>3, <3>4, <3>5
  <2> QED
    BY <2>1, <2>2
<1> QED
  BY <1>2, <1>3 DEF HandInv

LEMMA DequeKeeps ==
    ASSUME DequeInv, Grown, DOMAIN deque' = Thread, deque' = [t \in Thread |-> deque'[t]],
           \A t \in Thread : \/ deque'[t] = deque[t]
                             \/ deque'[t] \in Seq(Due(t)' \cup {Wake})
    PROVE  DequeInv'
<1>1. ASSUME NEW t \in Thread
      PROVE  deque'[t] \in Seq(Due(t)' \cup {Wake}) /\ deque'[t] \in Seq(Message \cup {Wake})
  <2>1. Due(t) \cup {Wake} \subseteq Due(t)' \cup {Wake}
    BY DEF Grown
  <2>2. deque'[t] \in Seq(Due(t)' \cup {Wake})
    <3>1. deque[t] \in Seq(Due(t) \cup {Wake})
      BY DEF DequeInv
    <3> QED
      BY <3>1, <2>1, SeqGrows
  <2>3. Due(t)' \cup {Wake} \subseteq Message \cup {Wake}
    BY DEF Due, Sent
  <2> QED
    BY <2>2, <2>3, SeqGrows
<1>2. deque' \in [Thread -> Seq(Message \cup {Wake})]
  BY <1>1
<1> QED
  BY <1>1, <1>2 DEF DequeInv

LEMMA WireKeeps ==
    ASSUME WireInv, Grown, NEW d \in Side, NEW w \in Seq(Sent(d)'),
           UNCHANGED wire \/ wire' = [wire EXCEPT ![d] = w]
    PROVE  WireInv'
<1>1. ASSUME NEW e \in Side
      PROVE  wire'[e] \in Seq(Sent(e)') /\ wire'[e] \in Seq(Message)
  <2>1. wire[e] \in Seq(Sent(e)')
    BY SeqGrows DEF WireInv, Grown
  <2>2. wire'[e] = wire[e] \/ (e = d /\ wire'[e] = w)
    BY DEF WireInv
  <2>3. Sent(e)' \subseteq Message
    BY DEF Sent
  <2> QED
    BY <2>1, <2>2, <2>3, SeqGrows
<1>2. wire' \in [Side -> Seq(Message)]
  BY <1>1 DEF WireInv
<1> QED
  BY <1>1, <1>2 DEF WireInv

LEMMA RemoteKeeps ==
    ASSUME RemoteInv, NEW t \in Thread, NEW r \in Thread \cup {Unbound},
           r = Unbound \/ SideOf[r] # SideOf[t],
           UNCHANGED remote \/ remote' = [remote EXCEPT ![t] = r]
    PROVE  RemoteInv'
  BY DEF RemoteInv

LEMMA NumberKeeps ==
    ASSUME NumberInv, UNCHANGED <<issued, owner>>,
           done' \cup expired' \subseteq done \cup expired \cup {s \in SeqNo : s < issued}
    PROVE  NumberInv'
  BY DEF NumberInv

LEMMA ContentsStay ==
    ASSUME Contents, Grown, UNCHANGED <<issued, owner, done, expired>>
    PROVE  /\ NumberInv'
           /\ UNCHANGED await => AwaitInv'
           /\ UNCHANGED deque => DequeInv'
           /\ UNCHANGED wire => WireInv'
           /\ UNCHANGED remote => RemoteInv'
<1>1. NumberInv'
  BY NumberKeeps DEF Contents, NumberInv
<1>2. ASSUME UNCHANGED await PROVE AwaitInv'
  BY <1>2 DEF Contents, AwaitInv, Grown
<1>3. ASSUME UNCHANGED deque PROVE DequeInv'
  <2>1. DequeInv
    BY DEF Contents
  <2> QED
    BY <1>3, <2>1, DequeKeeps DEF DequeInv
<1>4. ASSUME UNCHANGED wire PROVE WireInv'
  BY <1>4, SeqGrows DEF Contents, WireInv, Grown
<1>5. ASSUME UNCHANGED remote PROVE RemoteInv'
  BY <1>5 DEF Contents, RemoteInv
<1> QED
  BY <1>1, <1>2, <1>3, <1>4, <1>5

(* the frames and the hands of the others stay when a thread goes on *)
LEMMA GoesOn ==
    ASSUME TypeInv, Grown, NEW t \in Thread, NEW l \in Place, Goto(t, l)
    PROVE  /\ pc' \in [Thread -> Place] /\ pc'[t] = l
           /\ \A u \in Thread : u # t => pc'[u] = pc[u]
           /\ UNCHANGED stack /\ (l = "handler" => stack[t] # <<>> /\ Head(stack[t]).op = "handle")
                => NestInv'
           /\ UNCHANGED msg /\ {l, pc[t]} \cap {"received", "dispatch"} = {} => HandInv'
<1>1. /\ pc' \in [Thread -> Place] /\ pc'[t] = l
      /\ \A u \in Thread : u # t => pc'[u] = pc[u]
  BY DEF TypeInv, FlagTypes, Goto
<1>2. ASSUME UNCHANGED stack, l = "handler" => stack[t] # <<>> /\ Head(stack[t]).op = "handle"
      PROVE  NestInv'
  <2>1. NestInv /\ stack[t] \in Seq(Inside(t)') /\ IsNested(stack[t])
    BY SeqGrows DEF TypeInv, Contents, NestInv, Grown
  <2> QED
    BY <1>1, <1>2, <2>1, NestKeeps
<1>3. ASSUME UNCHANGED msg, {l, pc[t]} \cap {"received", "dispatch"} = {}
      PROVE  HandInv'
  <2>1. HandInv /\ msg[t] = NoMsg
    BY <1>3 DEF TypeInv, Contents, HandInv
  <2> QED
    BY <1>1, <1>3, <2>1, HandKeeps
<1> QED
  BY <1>1, <1>2, <1>3

LEMMA AfterPlace ==
    ASSUME TypeInv, NEW t \in Thread
    PROVE  /\ After(t) \in {"handler", "cleanup", "idle", "closing", "end"}
           /\ After(t) = "handler" => stack[t] # <<>> /\ Head(stack[t]).op = "handle"
           /\ After(t) = "idle" => t \in Client
  BY DEF After

LEMMA LoopTypes ==
    ASSUME TypeInv, NEW t \in Thread, WaitDone(t) \/ Raise(t) \/ LoopEnds(t)
    PROVE  FlagTypes' /\ Contents'
<1>1. /\ pc[t] \in {"loop", "raise"} /\ Goto(t, After(t)) /\ After(t) \in Place
      /\ UNCHANGED <<stack, msg, deque, remote, occupation, waitVars, closeVars, netVars>>
  BY AfterPlace DEF WaitDone, Raise, LoopEnds, boundVars, Place
<1>2. /\ serve' \in [Thread -> BOOLEAN] /\ \A u \in Thread : serve'[u] => serve[u]
  BY DEF WaitDone, Raise, LoopEnds, boundVars, TypeInv, FlagTypes
<1>3. Grown
  BY <1>1, <1>2, GrownBy DEF TypeInv, Contents, netVars
<1>4. pc' \in [Thread -> Place] /\ NestInv' /\ HandInv'
  BY <1>1, <1>3, GoesOn, AfterPlace
<1>5. AwaitInv'
  BY <1>3, AwaitKeeps DEF WaitDone, Raise, LoopEnds, TypeInv, Contents
<1>6. NumberInv' /\ DequeInv' /\ WireInv' /\ RemoteInv'
  BY <1>1, <1>3, ContentsStay DEF TypeInv, netVars
<1>7. FlagTypes'
  BY <1>1, <1>2, <1>4 DEF TypeInv, FlagTypes, waitVars, closeVars
<1> QED
  BY <1>4, <1>5, <1>6, <1>7 DEF Contents

-----------------------------------------------------------------------------
(* requests and replies *)
LEMMA Posting ==
    ASSUME TypeInv, Grown, NEW t \in Thread, NEW type \in {"request", "close", "reply"},
           NEW s \in SeqNo, s < issued', type # "reply" => owner'[s + 1].thread = t,
           Post(t, type, s)
    PROVE  WireInv'
<1> DEFINE e == Peer(SideOf[t])
           m == [type |-> type, seq |-> s, from |-> t, to |-> remote[t]]
<1>1. e \in Side /\ SideOf[t] # e /\ (remote[t] = Unbound \/ SideOf[remote[t]] = e)
  <2>1. remote[t] = Unbound \/ (remote[t] \in Thread /\ SideOf[remote[t]] # SideOf[t])
    BY DEF TypeInv, Contents, RemoteInv
  <2>2. \A u \in Thread : SideOf[u] \in Side
    BY Sides
  <2> QED
    BY <2>1, <2>2, Sides
<1>2. m \in Message
  BY DEF TypeInv, Contents, RemoteInv, Message
<1>3. m \in Sent(e)'
  BY <1>1, <1>2 DEF Sent
<1>4. wire[e] \in Seq(Sent(e)')
  BY <1>1, SeqGrows DEF TypeInv, Contents, WireInv, Grown
<1>5. Append(wire[e], m) \in Seq(Sent(e)')
  BY <1>3, <1>4
<1>6. wire' = [wire EXCEPT ![e] = Append(wire[e], m)]
  BY DEF Post
<1>7. WireInv
  BY DEF TypeInv, Contents
<1> HIDE DEF e, m
<1> QED
  BY <1>1, <1>5, <1>6, <1>7, WireKeeps

LEMMA AskerTypes ==
    ASSUME TypeInv, NEW t \in Thread
    PROVE  Asker(t) \in Thread \cup {Unbound}
<1>1. CASE stack[t] # <<>> /\ Head(stack[t]).op = "handle"
  <2>1. Head(stack[t]) \in Inside(t)
    BY <1>1 DEF TypeInv, Contents, NestInv
  <2>2. Head(stack[t]).arg \in 0 .. MaxCall + 1 /\ Head(stack[t]).arg < issued
    BY <1>1, <2>1 DEF Inside, Frame, SeqNo
  <2>3. ASSUME NEW s \in 0 .. MaxCall + 1, s < issued
        PROVE  owner[s + 1] \in [thread : Thread, home : Thread \cup {Unbound}]
    <3>1. /\ owner \in Seq([thread : Thread, home : Thread \cup {Unbound}])
          /\ Len(owner) = issued
      BY DEF TypeInv, Contents, NumberInv
    <3>2. s + 1 \in 1 .. Len(owner)
      BY <2>3, <3>1
    <3> QED
      BY <3>1, <3>2, ElementOf
  <2> QED
    BY <1>1, <2>2, <2>3 DEF Asker
<1>2. CASE ~(stack[t] # <<>> /\ Head(stack[t]).op = "handle")
  BY <1>2 DEF Asker
<1> QED
  BY <1>1, <1>2

LEMMA RequestTypes ==
    ASSUME TypeInv, NEW t \in Thread, NEW type \in {"request", "close"}, SendRequest(t, type),
           pc[t] \in {"idle", "handler", "sendclose"},
           UNCHANGED <<stack, msg, deque, serve, waitVars, closeVars, done, expired>>
    PROVE  FlagTypes' /\ Contents'
<1>1. PICK l \in {"loop", "raise"} : Goto(t, l)
  BY DEF SendRequest
<1>2. occupation' \in [Thread -> Nat] /\ UNCHANGED remote
  BY DEF SendRequest, Incr, TypeInv, FlagTypes
<1>3. serve' \in [Thread -> BOOLEAN] /\ \A u \in Thread : serve'[u] => serve[u]
  BY DEF TypeInv, FlagTypes
<1>4. ASSUME open[SideOf[t]]
      PROVE  Grown /\ NumberInv' /\ WireInv' /\ AwaitInv'
  <2>1. /\ issued \in SeqNo /\ issued' = issued + 1 /\ Post(t, type, issued)
        /\ owner' = Append(owner, [thread |-> t, home |-> Asker(t)])
        /\ await' = [await EXCEPT ![t] = issued]
    BY <1>4 DEF SendRequest
  <2>2. Grown
    BY <1>3, <2>1, GrownBy DEF TypeInv, Contents
  <2>3. NumberInv'
    <3>1. [thread |-> t, home |-> Asker(t)] \in [thread : Thread, home : Thread \cup {Unbound}]
      BY AskerTypes
    <3>2. issued' \in 0 .. MaxCall + 2
      BY <2>1, BoundServingAssumption DEF SeqNo
    <3>3. /\ owner' \in Seq([thread : Thread, home : Thread \cup {Unbound}])
          /\ Len(owner') = issued'
      BY <2>1, <3>1 DEF TypeInv, Contents, NumberInv
    <3>4. \A s \in done \cup expired : s < issued'
      BY <2>1 DEF TypeInv, Contents, NumberInv, SeqNo
    <3> QED
      BY <3>2, <3>3, <3>4 DEF TypeInv, Contents, NumberInv
  <2>4. issued < issued' /\ owner'[issued + 1].thread = t
    BY <2>1 DEF TypeInv, Contents, NumberInv
  <2>5. WireInv'
    BY <2>1, <2>2, <2>4, Posting
  <2>6. AwaitInv'
    <3>1. issued \in Numbers(t)'
      BY <2>1, <2>4 DEF Numbers
    <3> QED
      BY <2>1, <2>2, <3>1, AwaitKeeps DEF TypeInv, Contents
  <2> QED
    BY <2>2, <2>3, <2>5, <2>6
<1>5. ASSUME ~open[SideOf[t]]
      PROVE  Grown /\ NumberInv' /\ WireInv' /\ AwaitInv'
  <2>1. UNCHANGED <<issued, owner, wire, await, done, expired>>
    BY <1>5 DEF SendRequest
  <2>2. Grown
    BY <1>3, <2>1, GrownBy DEF TypeInv, Contents
  <2> QED
    BY <2>1, <2>2, ContentsStay DEF TypeInv
<1>6. Grown /\ NumberInv' /\ WireInv' /\ AwaitInv'
  BY <1>4, <1>5
<1>7. pc' \in [Thread -> Place] /\ NestInv' /\ HandInv'
  BY <1>1, <1>6, GoesOn DEF Place
<1>8. DequeInv' /\ RemoteInv'
  <2>1. DequeInv /\ RemoteInv
    BY DEF TypeInv, Contents
  <2>2. RemoteInv'
    BY <1>2, <2>1 DEF RemoteInv
  <2> QED
    BY <1>6, <2>1, <2>2, DequeKeeps DEF DequeInv
<1>9. FlagTypes'
  BY <1>2, <1>3, <1>7 DEF TypeInv, FlagTypes, waitVars, closeVars
<1> QED
  BY <1>6, <1>7, <1>8, <1>9 DEF Contents

(* a frame comes on top, or the top one goes *)
LEMMA PushedTypes ==
    ASSUME NEW S, NEW s \in Seq(S), IsNested(s), NEW f \in S,
           f.op = "close" /\ f.arg = "handler" => s # <<>> /\ Head(s).op = "handle"
    PROVE  /\ <<f>> \o s \in Seq(S) /\ IsNested(<<f>> \o s)
           /\ <<f>> \o s # <<>> /\ Head(<<f>> \o s) = f
<1>1. <<f>> \in Seq(S) /\ Len(<<f>>) = 1 /\ <<f>>[1] = f
  OBVIOUS
<1>2. /\ <<f>> \o s \in Seq(S) /\ Len(<<f>> \o s) = Len(s) + 1
      /\ \A i \in 1 .. Len(s) + 1 : (<<f>> \o s)[i] = IF i = 1 THEN f ELSE s[i - 1]
  BY <1>1
<1>3. ASSUME NEW i \in 1 .. Len(s) + 1,
             (<<f>> \o s)[i].op = "close", (<<f>> \o s)[i].arg = "handler"
      PROVE  i < Len(s) + 1 /\ (<<f>> \o s)[i + 1].op = "handle"
  <2>1. CASE i = 1
    <3>1. f.op = "close" /\ f.arg = "handler"
      BY <1>2, <1>3, <2>1
    <3>2. Len(s) >= 1 /\ s[1].op = "handle"
      BY <3>1
    <3> QED
      BY <1>2, <2>1, <3>2
  <2>2. CASE i # 1
    <3>1. i - 1 \in 1 .. Len(s) /\ (<<f>> \o s)[i] = s[i - 1]
      BY <1>2, <2>2
    <3>2. i - 1 < Len(s) /\ s[(i - 1) + 1].op = "handle"
      BY <1>3, <3>1 DEF IsNested
    <3>3. i + 1 \in 1 .. Len(s) + 1 /\ (<<f>> \o s)[i + 1] = s[i]
      BY <1>2, <3>1, <3>2
    <3> QED
      BY <3>1, <3>2, <3>3
  <2> QED
    BY <2>1, <2>2
<1>4. IsNested(<<f>> \o s)
  BY <1>2, <1>3 DEF IsNested
<1> QED
  BY <1>2, <1>4

LEMMA PoppedTypes ==
    ASSUME NEW S, NEW s \in Seq(S), s # <<>>, IsNested(s)
    PROVE  /\ Head(s) \in S /\ Tail(s) \in Seq(S) /\ IsNested(Tail(s))
           /\ Head(s).op = "close" /\ Head(s).arg = "handler" =>
                Tail(s) # <<>> /\ Head(Tail(s)).op = "handle"
<1>1. /\ Tail(s) \in Seq(S) /\ Len(Tail(s)) = Len(s) - 1
      /\ \A i \in 1 .. Len(s) - 1 : Tail(s)[i] = s[i + 1]
  OBVIOUS
<1>2. ASSUME NEW i \in 1 .. Len(s) - 1, Tail(s)[i].op = "close", Tail(s)[i].arg = "handler"
      PROVE  i < Len(s) - 1 /\ Tail(s)[i + 1].op = "handle"
  <2>1. i + 1 \in 1 .. Len(s) /\ s[i + 1].op = "close" /\ s[i + 1].arg = "handler"
    BY <1>1, <1>2
  <2>2. i + 1 < Len(s) /\ s[(i + 1) + 1].op = "handle"
    BY <2>1 DEF IsNested
  <2> QED
    BY <1>1, <2>2
<1>3. ASSUME Head(s).op = "close", Head(s).arg = "handler"
      PROVE  Tail(s) # <<>> /\ Head(Tail(s)).op = "handle"
  <2>1. 1 \in 1 .. Len(s) /\ s[1].op = "close" /\ s[1].arg = "handler"
    BY <1>3
  <2>2. 1 < Len(s) /\ s[1 + 1].op = "handle"
    BY <2>1 DEF IsNested
  <2>3. Len(Tail(s)) >= 1 /\ Tail(s)[1] = s[2]
    BY <1>1, <2>2
  <2>4. Tail(s) # <<>> /\ Head(Tail(s)) = Tail(s)[1]
    BY <1>1, <2>3, HeadIs
  <2> QED
    BY <2>2, <2>3, <2>4
<1>4. IsNested(Tail(s))
  BY <1>1, <1>2 DEF IsNested
<1> QED
  BY <1>1, <1>3, <1>4

LEMMA Popping ==
    ASSUME TypeInv, Grown, NEW t \in Thread, stack[t] # <<>>, Pop(t)
    PROVE  /\ AwaitInv'
           /\ stack' = [stack EXCEPT ![t] = Tail(stack[t])]
           /\ Tail(stack[t]) \in Seq(Inside(t)') /\ IsNested(Tail(stack[t]))
           /\ Head(stack[t]) \in Inside(t)
           /\ Head(stack[t]).op = "close" /\ Head(stack[t]).arg = "handler" =>
                Tail(stack[t]) # <<>> /\ Head(Tail(stack[t])).op = "handle"
<1>1. stack[t] \in Seq(Inside(t)) /\ IsNested(stack[t])
  BY DEF TypeInv, Contents, NestInv
<1>2. Head(stack[t]) \in Inside(t) /\ Inside(t) \subseteq Inside(t)'
  BY <1>1 DEF Grown
<1>3. stack[t] \in Seq(Inside(t)')
  BY <1>1, <1>2, SeqGrows
<1>4. Head(stack[t]).await \in Numbers(t)' \cup {NoSeq}
  BY <1>2 DEF Inside
<1>5. AwaitInv'
  BY <1>4, AwaitKeeps DEF Pop, TypeInv, Contents
<1> QED
  BY <1>1, <1>2, <1>3, <1>5, PoppedTypes DEF Pop

LEMMA Pushing ==
    ASSUME TypeInv, Grown, NEW t \in Thread, NEW op, NEW arg, Push(t, op, arg),
           \/ op = "handle" /\ arg \in SeqNo /\ arg < issued'
           \/ op = "close" /\ arg \in {"raise", "end"}
           \/ op = "close" /\ arg = "idle" /\ t \in Client
           \/ op = "close" /\ arg = "handler" /\ pc[t] = "handler"
    PROVE  /\ AwaitInv'
           /\ \E s : /\ stack' = [stack EXCEPT ![t] = s]
                     /\ s \in Seq(Inside(t)') /\ IsNested(s) /\ s # <<>> /\ Head(s).op = op
<1> DEFINE f == [op |-> op, await |-> await[t], arg |-> arg]
<1>1. stack[t] \in Seq(Inside(t)) /\ IsNested(stack[t])
  BY DEF TypeInv, Contents, NestInv
<1>2. stack[t] \in Seq(Inside(t)')
  BY <1>1, SeqGrows DEF Grown
<1>3. await[t] \in Numbers(t)' \cup {NoSeq} /\ await[t] \in SeqNo \cup {NoSeq}
  BY DEF TypeInv, Contents, AwaitInv, Grown
<1>4. f \in Frame
  BY <1>3 DEF Frame
<1>5. f \in Inside(t)'
  BY <1>3, <1>4 DEF Inside
<1>6. f.op = "close" /\ f.arg = "handler" => stack[t] # <<>> /\ Head(stack[t]).op = "handle"
  <2>1. pc[t] = "handler" => stack[t] # <<>> /\ Head(stack[t]).op = "handle"
    BY DEF TypeInv, Contents, NestInv
  <2>2. arg = "handler" /\ op = "close" => pc[t] = "handler"
    BY DEF SeqNo
  <2> QED
    BY <2>1, <2>2
<1>7. AwaitInv'
  BY AwaitKeeps DEF Push, TypeInv, Contents
<1>8. stack' = [stack EXCEPT ![t] = <<f>> \o stack[t]] /\ f.op = op
  BY DEF Push
<1> HIDE DEF f
<1> QED
  BY <1>1, <1>2, <1>5, <1>6, <1>7, <1>8, PushedTypes

LEMMA DecrTypes ==
    ASSUME TypeInv, NEW t \in Thread, Decr(t)
    PROVE  occupation' \in [Thread -> Nat] /\ RemoteInv'
<1>1. occupation[t] \in Nat /\ occupation \in [Thread -> Nat] /\ RemoteInv
  BY DEF TypeInv, FlagTypes, Contents
<1>2. CASE occupation[t] <= 1
  BY <1>1, <1>2, RemoteKeeps DEF Decr
<1>3. CASE ~(occupation[t] <= 1)
  <2>1. occupation[t] - 1 \in Nat /\ UNCHANGED remote
    BY <1>1, <1>3 DEF Decr
  <2> QED
    BY <1>1, <1>3, <2>1 DEF Decr, RemoteInv
<1> QED
  BY <1>2, <1>3

LEMMA ReplyTypes ==
    ASSUME TypeInv, NEW t \in Thread, SendReply(t)
    PROVE  FlagTypes' /\ Contents'
<1>1. /\ pc[t] = "handler" /\ Pop(t) /\ Decr(t)
      /\ UNCHANGED <<msg, deque, serve, waitVars, closeVars, issued, owner, done, expired>>
  BY DEF SendReply
<1>2. PICK l \in {"loop", "raise"} : Goto(t, l)
  BY DEF SendReply
<1>3. stack[t] # <<>> /\ Head(stack[t]).op = "handle"
  BY <1>1 DEF TypeInv, Contents, NestInv
<1>4. Grown
  BY <1>1, GrownBy DEF TypeInv, FlagTypes, Contents
<1>5. /\ AwaitInv' /\ stack' = [stack EXCEPT ![t] = Tail(stack[t])]
      /\ Tail(stack[t]) \in Seq(Inside(t)') /\ IsNested(Tail(stack[t]))
      /\ Head(stack[t]) \in Inside(t)
  BY <1>1, <1>3, <1>4, Popping
<1>6. pc' \in [Thread -> Place] /\ HandInv' /\ \A u \in Thread : u # t => pc'[u] = pc[u]
  BY <1>1, <1>2, <1>4, GoesOn DEF Place
<1>7. NestInv'
  <2>1. pc'[t] = l /\ NestInv
    BY <1>2 DEF Goto, TypeInv, FlagTypes, Contents
  <2> QED
    BY <1>4, <1>5, <1>6, <2>1, NestKeeps
<1>8. NumberInv' /\ DequeInv'
  BY <1>1, <1>4, ContentsStay DEF TypeInv
<1>9. WireInv'
  <2>1. CASE open[SideOf[t]]
    <3>1. Post(t, "reply", Head(stack[t]).arg)
      BY <2>1 DEF SendReply
    <3>2. Head(stack[t]).arg \in SeqNo /\ Head(stack[t]).arg < issued
      BY <1>3, <1>5 DEF Inside, Frame
    <3> QED
      BY <1>1, <1>4, <3>1, <3>2, Posting
  <2>2. CASE ~open[SideOf[t]]
    <3>1. UNCHANGED wire
      BY <2>2 DEF SendReply
    <3> QED
      BY <1>1, <1>4, <3>1, ContentsStay DEF TypeInv
  <2> QED
    BY <2>1, <2>2
<1>10. occupation' \in [Thread -> Nat] /\ RemoteInv'
  BY <1>1, DecrTypes
<1>11. FlagTypes'
  BY <1>1, <1>6, <1>10 DEF TypeInv, FlagTypes, waitVars, closeVars
<1> QED
  BY <1>5, <1>6, <1>7, <1>8, <1>9, <1>10, <1>11 DEF Contents

LEMMA DispatchTypes ==
    ASSUME TypeInv, NEW t \in Thread, DispatchReply(t) \/ DispatchRequest(t)
    PROVE  FlagTypes' /\ Contents'
<1>1. /\ pc[t] = "dispatch" /\ msg' = [msg EXCEPT ![t] = NoMsg]
      /\ UNCHANGED <<deque, serve, pool, receiving, closeVars, wire, issued, owner, expired>>
  BY DEF DispatchReply, DispatchRequest, waitVars, netVars
<1>2. PICK l \in {"loop", "cleanup", "handler"} : Goto(t, l)
  BY DEF DispatchReply, DispatchRequest
<1>3. /\ msg[t] \in Message /\ msg[t].seq \in SeqNo /\ msg[t].seq < issued
      /\ msg[t].from \in Thread
  BY <1>1 DEF TypeInv, Contents, HandInv, Due, Sent, Message
<1>4. Grown
  BY <1>1, GrownBy DEF TypeInv, FlagTypes, Contents
<1>5. /\ pc' \in [Thread -> Place] /\ pc'[t] = l
      /\ \A u \in Thread : u # t => pc'[u] = pc[u]
  BY <1>2, <1>4, GoesOn DEF Place
<1>6. HandInv'
  BY <1>1, <1>4, <1>5, HandKeeps DEF TypeInv, Contents
<1>7. NumberInv' /\ done' \subseteq SeqNo
  <2>1. done' \subseteq done \cup {msg[t].seq}
    BY DEF DispatchReply, DispatchRequest, netVars
  <2> QED
    BY <1>1, <1>3, <2>1, NumberKeeps DEF TypeInv, Contents, NumberInv
<1>8. DequeInv' /\ WireInv'
  <2>1. DequeInv /\ WireInv
    BY DEF TypeInv, Contents
  <2>2. DequeInv'
    BY <1>1, <1>4, <2>1, DequeKeeps DEF DequeInv
  <2>3. WireInv'
    BY <1>1, <1>4, <2>1, SeqGrows DEF WireInv, Grown
  <2> QED
    BY <2>2, <2>3
<1>9. asleep' \subseteq asleep /\ kicked' \in [Side -> BOOLEAN]
  BY DEF DispatchReply, DispatchRequest, waitVars, TypeInv, FlagTypes
<1>10. occupation' \in [Thread -> Nat] /\ RemoteInv' /\ AwaitInv' /\ NestInv'
  <2>1. CASE DispatchReply(t)
    <3>1. l = "loop" /\ UNCHANGED <<await, stack>> /\ Decr(t)
      BY <1>2, <1>5, <2>1 DEF DispatchReply, Goto, TypeInv, FlagTypes
    <3>2. AwaitInv'
      BY <1>4, <3>1 DEF TypeInv, Contents, AwaitInv, Grown
    <3>3. NestInv'
      BY <1>2, <1>4, <3>1, GoesOn DEF Place
    <3> QED
      BY <3>1, <3>2, <3>3, DecrTypes
  <2>2. CASE DispatchRequest(t)
    <3>1. Push(t, "handle", msg[t].seq) /\ Incr(t)
      BY <2>2 DEF DispatchRequest
    <3>2. occupation' \in [Thread -> Nat] /\ UNCHANGED remote
      BY <3>1 DEF Incr, TypeInv, FlagTypes
    <3>3. /\ AwaitInv'
          /\ \E s : /\ stack' = [stack EXCEPT ![t] = s]
                    /\ s \in Seq(Inside(t)') /\ IsNested(s) /\ s # <<>> /\ Head(s).op = "handle"
      BY <1>1, <1>3, <1>4, <3>1, Pushing
    <3>4. NestInv'
      <4>1. PICK s : /\ stack' = [stack EXCEPT ![t] = s]
                     /\ s \in Seq(Inside(t)') /\ IsNested(s) /\ s # <<>> /\ Head(s).op = "handle"
        BY <3>3
      <4>2. NestInv /\ stack'[t] = s
        BY <4>1 DEF TypeInv, Contents, NestInv
      <4> QED
        BY <1>4, <1>5, <4>1, <4>2, NestKeeps
    <3>5. RemoteInv'
      BY <3>2 DEF TypeInv, Contents, RemoteInv
    <3> QED
      BY <3>2, <3>3, <3>4, <3>5
  <2> QED
    BY <2>1, <2>2
<1>11. FlagTypes'
  BY <1>1, <1>5, <1>9, <1>10 DEF TypeInv, FlagTypes, closeVars
<1> QED
  BY <1>6, <1>7, <1>8, <1>10, <1>11 DEF Contents

-----------------------------------------------------------------------------
(* __serve_bound up to the poll *)
LEMMA OwnTypes ==
    ASSUME TypeInv, Grown, NEW t \in Thread, deque[t] # <<>>, TakeOwn(t),
           pc[t] \in {"loop", "asleep"}
    PROVE  /\ DequeInv' /\ RemoteInv' /\ HandInv'
           /\ \E l \in {"loop", "dispatch"} : Goto(t, l)
<1> DEFINE m == Head(deque[t])
<1>1. deque[t] \in Seq(Due(t) \cup {Wake}) /\ Due(t) \subseteq Due(t)'
  BY DEF TypeInv, Contents, DequeInv, Grown
<1>2. m \in Due(t) \cup {Wake} /\ Tail(deque[t]) \in Seq(Due(t) \cup {Wake})
  BY <1>1
<1>3. deque' = [deque EXCEPT ![t] = Tail(deque[t])] /\ deque \in [Thread -> Seq(Message \cup {Wake})]
  BY DEF TakeOwn, TypeInv, Contents, DequeInv
<1>4. DequeInv'
  <2>1. Tail(deque[t]) \in Seq(Due(t)' \cup {Wake})
    BY <1>1, <1>2, SeqGrows
  <2>2. deque' = [u \in Thread |-> IF u = t THEN Tail(deque[t]) ELSE deque[u]]
    BY <1>3
  <2> QED
    BY <2>1, <2>2, DequeKeeps DEF TypeInv, Contents
<1>5. CASE m = Wake
  <2>1. Goto(t, "loop") /\ UNCHANGED <<msg, remote>>
    BY <1>5 DEF TakeOwn
  <2>2. HandInv'
    BY <2>1, GoesOn DEF Place
  <2>3. RemoteInv'
    BY <2>1 DEF TypeInv, Contents, RemoteInv
  <2> QED
    BY <1>4, <2>1, <2>2, <2>3
<1>6. CASE m # Wake
  <2>1. Goto(t, "dispatch") /\ msg' = [msg EXCEPT ![t] = m] /\ remote' = [remote EXCEPT ![t] = m.from]
    BY <1>6 DEF TakeOwn
  <2>2. m \in Due(t)' /\ m \in Sent(SideOf[t])' /\ m.from \in Thread /\ SideOf[m.from] # SideOf[t]
    BY <1>1, <1>2, <1>6 DEF Due, Sent, Message
  <2>3. pc'[t] = "dispatch" /\ \A u \in Thread : u # t => pc'[u] = pc[u]
    BY <2>1, GoesOn DEF Place
  <2>4. HandInv /\ RemoteInv
    BY DEF TypeInv, Contents
  <2> HIDE DEF m
  <2>5. HandInv'
    BY <2>1, <2>2, <2>3, <2>4, HandKeeps
  <2>6. RemoteInv'
    BY <2>1, <2>2, <2>4, RemoteKeeps
  <2> QED
    BY <1>4, <2>1, <2>5, <2>6
<1> QED
  BY <1>5, <1>6

LEMMA ProceedTypes ==
    ASSUME TypeInv, NEW t \in Thread, NEW p, Proceed(t, p), pc[t] \in {"loop", "asleep"},
           UNCHANGED <<await, stack, occupation, serve, kicked, closeVars, netVars>>
    PROVE  FlagTypes' /\ Contents' /\ \E l \in {"loop", "dispatch", "poll"} : Goto(t, l)
<1>1. Grown
  BY GrownBy DEF TypeInv, FlagTypes, Contents, netVars
<1>2. NumberInv' /\ AwaitInv' /\ WireInv'
  BY <1>1, ContentsStay DEF TypeInv, netVars
<1>3. /\ \E l \in {"loop", "dispatch", "poll"} : Goto(t, l)
      /\ DequeInv' /\ RemoteInv' /\ HandInv'
      /\ receiving' \in [Side -> BOOLEAN] /\ asleep' \subseteq Thread
  <2>1. receiving \in [Side -> BOOLEAN] /\ asleep \subseteq Thread
    BY DEF TypeInv, FlagTypes
  <2>2. ASSUME NEW l \in {"loop", "poll"}, Goto(t, l), UNCHANGED <<msg, deque, remote>>
        PROVE  DequeInv' /\ RemoteInv' /\ HandInv'
    <3>1. HandInv'
      BY <1>1, <2>2, GoesOn DEF Place
    <3> QED
      BY <1>1, <2>2, <3>1, ContentsStay DEF TypeInv, netVars
  <2>3. CASE Predicate(t)
    BY <2>1, <2>2, <2>3 DEF Proceed
  <2>4. CASE ~Predicate(t) /\ deque[t] # <<>>
    <3>1. TakeOwn(t) /\ UNCHANGED <<receiving, asleep>>
      BY <2>4 DEF Proceed
    <3> QED
      BY <1>1, <2>1, <2>4, <3>1, OwnTypes
  <2>5. CASE ~Predicate(t) /\ deque[t] = <<>> /\ serve[t]
    BY <2>1, <2>2, <2>5 DEF Proceed
  <2>6. CASE ~Predicate(t) /\ deque[t] = <<>> /\ ~serve[t]
    BY <2>1, <2>2, <2>6 DEF Proceed, GuardExit
  <2> QED
    BY <2>3, <2>4, <2>5, <2>6
<1>4. pc' \in [Thread -> Place] /\ NestInv'
  BY <1>1, <1>3, GoesOn DEF Place
<1>5. FlagTypes'
  BY <1>3, <1>4 DEF TypeInv, FlagTypes, closeVars
<1> QED
  BY <1>2, <1>3, <1>4, <1>5 DEF Contents

LEMMA EnterTypes ==
    ASSUME TypeInv, NEW t \in Thread, ServeEnter(t) \/ ServeWoken(t)
    PROVE  FlagTypes' /\ Contents'
<1>1. CASE Ready(t)
  BY <1>1, ProceedTypes DEF ServeEnter, ServeWoken
<1>2. CASE ~Ready(t)
  <2>1. /\ UNCHANGED <<await, stack, occupation, serve, kicked, closeVars, netVars>>
        /\ UNCHANGED <<msg, deque, remote, receiving>> /\ asleep' = asleep \cup {t}
    BY <1>2 DEF ServeEnter, ServeWoken
  <2>2. Goto(t, "asleep") \/ UNCHANGED pc
    BY <1>2 DEF ServeEnter, ServeWoken
  <2>3. Grown
    BY <2>1, GrownBy DEF TypeInv, FlagTypes, Contents, netVars
  <2>4. NumberInv' /\ AwaitInv' /\ WireInv' /\ DequeInv' /\ RemoteInv'
    BY <2>1, <2>3, ContentsStay DEF TypeInv, netVars
  <2>5. pc[t] \in {"loop", "asleep"}
    BY DEF ServeEnter, ServeWoken
  <2>6. Goto(t, "asleep")
    <3>1. UNCHANGED pc => pc[t] = "asleep"
      BY <1>2, <2>2 DEF ServeEnter, ServeWoken, Goto, TypeInv, FlagTypes
    <3> QED
      BY <2>2, <3>1 DEF Goto, TypeInv, FlagTypes
  <2>7. pc' \in [Thread -> Place] /\ NestInv' /\ HandInv'
    BY <2>1, <2>3, <2>5, <2>6, GoesOn DEF Place
  <2>8. FlagTypes'
    BY <2>1, <2>7 DEF TypeInv, FlagTypes, closeVars
  <2> QED
    BY <2>4, <2>7, <2>8 DEF Contents
<1> QED
  BY <1>1, <1>2

-----------------------------------------------------------------------------
(* the receiver *)
LEMMA PollTypes ==
    ASSUME TypeInv, NEW t \in Thread, PollData(t) \/ PollEOF(t) \/ PollWoken(t)
    PROVE  FlagTypes' /\ Contents'
<1>1. /\ pc[t] = "poll" /\ Goto(t, "received")
      /\ UNCHANGED <<await, stack, boundVars, asleep, pool, receiving, closeVars,
                     issued, owner, done, expired>>
  BY DEF PollData, PollEOF, PollWoken, Received, waitVars, netVars
<1>2. Grown
  BY <1>1, GrownBy DEF TypeInv, FlagTypes, Contents, boundVars
<1>3. /\ pc' \in [Thread -> Place] /\ pc'[t] = "received" /\ NestInv'
      /\ \A u \in Thread : u # t => pc'[u] = pc[u]
  BY <1>1, <1>2, GoesOn DEF Place
<1>4. NumberInv' /\ AwaitInv' /\ DequeInv' /\ RemoteInv'
  BY <1>1, <1>2, ContentsStay DEF TypeInv, boundVars
<1>5. PICK m : /\ msg' = [msg EXCEPT ![t] = m] /\ m \in Sent(SideOf[t]) \cup {NoMsg, EOF}
               /\ \/ UNCHANGED wire
                  \/ /\ wire[SideOf[t]] # <<>>
                     /\ wire' = [wire EXCEPT ![SideOf[t]] = Tail(wire[SideOf[t]])]
  <2>1. CASE PollData(t)
    <3>1. wire[SideOf[t]] \in Seq(Sent(SideOf[t])) /\ wire[SideOf[t]] # <<>>
      BY <2>1, Sides DEF PollData, TypeInv, Contents, WireInv
    <3>2. Head(wire[SideOf[t]]) \in Sent(SideOf[t])
      BY <3>1
    <3> QED
      BY <2>1, <3>1, <3>2 DEF PollData, Received
  <2>2. CASE PollEOF(t) \/ PollWoken(t)
    BY <2>2 DEF PollEOF, PollWoken, Received, netVars
  <2> QED
    BY <2>1, <2>2
<1>6. WireInv'
  <2>1. WireInv /\ SideOf[t] \in Side
    BY Sides DEF TypeInv, Contents
  <2>2. wire[SideOf[t]] \in Seq(Sent(SideOf[t])')
    BY <1>2, <2>1, SeqGrows DEF WireInv, Grown
  <2>3. wire[SideOf[t]] # <<>> => Tail(wire[SideOf[t]]) \in Seq(Sent(SideOf[t])')
    BY <2>2, TailOf
  <2> QED
    BY <1>2, <1>5, <2>1, <2>2, <2>3, WireKeeps
<1>7. HandInv'
  <2>1. HandInv /\ m \in Sent(SideOf[t])' \cup {NoMsg, EOF}
    BY <1>2, <1>5, Sides DEF TypeInv, Contents, Grown
  <2> QED
    BY <1>2, <1>3, <1>5, <2>1, HandKeeps
<1>8. FlagTypes'
  <2>1. kicked' \in [Side -> BOOLEAN]
    BY DEF PollData, PollEOF, PollWoken, waitVars, TypeInv, FlagTypes
  <2> QED
    BY <1>1, <1>3, <2>1 DEF TypeInv, FlagTypes, boundVars, closeVars
<1> QED
  BY <1>3, <1>4, <1>6, <1>7, <1>8 DEF Contents

(* what it received is for its end, and whom it hands it to can be given it *)
LEMMA GotTypes ==
    ASSUME TypeInv, NEW t \in Thread, Got(t)
    PROVE  /\ msg[t] \in Sent(SideOf[t])
           /\ Mine(t) => msg[t] \in Due(t)
           /\ \A u \in Recipient(t) : u \in Thread /\ SideOf[u] = SideOf[t] /\ msg[t] \in Due(u)
           /\ Recipient(t) = {} /\ ~Mine(t) /\ ~closed[SideOf[t]] =>
                \A u \in Thread : SideOf[u] = SideOf[t] => msg[t] \in Due(u)
<1>1. msg[t] \in Sent(SideOf[t])
  BY DEF Got, TypeInv, Contents, HandInv
<1>2. Mine(t) => msg[t] \in Due(t)
  BY <1>1 DEF Mine, Due
<1>3. CASE msg[t].to = Unbound
  <2>1. \A u \in Thread : SideOf[u] = SideOf[t] => msg[t] \in Due(u)
    BY <1>1, <1>3 DEF Due
  <2>2. ASSUME NEW u \in Recipient(t) PROVE u \in Thread /\ SideOf[u] = SideOf[t]
    <3>1. \E i \in 1 .. Len(pool[SideOf[t]]) : u = pool[SideOf[t]][i]
      BY <1>3 DEF Recipient, First
    <3>2. pool[SideOf[t]] \in Seq(Thread) /\ Range(pool[SideOf[t]]) \subseteq On(SideOf[t])
      BY Sides DEF TypeInv, PoolInv
    <3>3. u \in On(SideOf[t])
      BY <3>1, <3>2 DEF Range
    <3> QED
      BY <3>3 DEF On
  <2> QED
    BY <1>1, <1>2, <2>1, <2>2
<1>4. CASE msg[t].to # Unbound
  <2>1. msg[t].to \in Thread /\ SideOf[msg[t].to] = SideOf[t]
    BY <1>1, <1>4 DEF Sent, Message
  <2>2. Recipient(t) = {u \in {msg[t].to} : serve[u]}
    BY <1>4 DEF Recipient
  <2>3. \A u \in Recipient(t) : u = msg[t].to
    BY <2>2
  <2>4. Recipient(t) = {} => closed[SideOf[t]]
    BY <2>1, <2>2 DEF TypeInv, ClosedInv
  <2>5. \A u \in Recipient(t) : msg[t] \in Due(u)
    BY <1>1, <2>1, <2>3 DEF Due
  <2> QED
    BY <1>1, <1>2, <2>1, <2>3, <2>4, <2>5 DEF Due
<1> QED
  BY <1>3, <1>4

LEMMA ReceivedTypes ==
    ASSUME TypeInv, NEW t \in Thread, LeaveEmpty(t) \/ TakeMessage(t)
    PROVE  FlagTypes' /\ Contents'
<1>1. /\ pc[t] = "received" /\ GuardExit(SideOf[t], pool[SideOf[t]], deque)
      /\ UNCHANGED <<await, stack, deque, occupation, serve, pool, kicked, closeVars, netVars>>
  BY DEF LeaveEmpty, TakeMessage, Got, boundVars
<1>2. PICK l \in {"eof", "loop", "dispatch"} : Goto(t, l)
  BY DEF LeaveEmpty, TakeMessage
<1>3. Grown
  BY <1>1, GrownBy DEF TypeInv, FlagTypes, Contents, netVars
<1>4. /\ pc' \in [Thread -> Place] /\ pc'[t] = l /\ NestInv'
      /\ \A u \in Thread : u # t => pc'[u] = pc[u]
  BY <1>1, <1>2, <1>3, GoesOn DEF Place
<1>5. NumberInv' /\ AwaitInv' /\ DequeInv' /\ WireInv'
  BY <1>1, <1>3, ContentsStay DEF TypeInv, netVars
<1>6. HandInv' /\ RemoteInv'
  <2>1. HandInv /\ RemoteInv
    BY DEF TypeInv, Contents
  <2>2. CASE LeaveEmpty(t)
    <3>1. /\ l # "dispatch" /\ msg' = [msg EXCEPT ![t] = NoMsg] /\ UNCHANGED remote
      BY <1>2, <1>4, <2>2 DEF LeaveEmpty, boundVars, Goto, TypeInv, FlagTypes
    <3>2. RemoteInv'
      BY <2>1, <3>1 DEF RemoteInv
    <3>3. pc'[t] # "dispatch" /\ NoMsg \in Sent(SideOf[t])' \cup {NoMsg, EOF}
      BY <1>4, <3>1
    <3>4. HandInv'
      BY <1>3, <1>4, <2>1, <3>1, <3>3, HandKeeps
    <3> QED
      BY <3>2, <3>4
  <2>3. CASE TakeMessage(t)
    <3>1. Got(t) /\ Mine(t) /\ UNCHANGED msg /\ remote' = [remote EXCEPT ![t] = msg[t].from]
      BY <2>3 DEF TakeMessage
    <3>2. msg[t] \in Due(t) /\ msg[t] \in Sent(SideOf[t])
      BY <3>1, GotTypes
    <3>3. /\ msg[t] \in Due(t)' /\ msg[t] \in Sent(SideOf[t])'
          /\ msg[t].from \in Thread /\ SideOf[msg[t].from] # SideOf[t]
      BY <1>3, <3>2, Sides DEF Grown, Sent, Message
    <3>4. l = "dispatch"
      BY <1>2, <1>4, <2>3 DEF TakeMessage, Goto, TypeInv, FlagTypes
    <3> QED
      BY <1>3, <1>4, <2>1, <3>1, <3>3, <3>4, HandKeeps, RemoteKeeps
  <2> QED
    BY <2>2, <2>3
<1>7. FlagTypes'
  BY <1>1, <1>4 DEF GuardExit, TypeInv, FlagTypes, closeVars
<1> QED
  BY <1>4, <1>5, <1>6, <1>7 DEF Contents

LEMMA HandingTypes ==
    ASSUME TypeInv, NEW t \in Thread, HandOver(t) \/ StartWorker(t) \/ DropMessage(t)
    PROVE  FlagTypes' /\ Contents'
<1>1. /\ Got(t) /\ msg' = [msg EXCEPT ![t] = NoMsg]
      /\ UNCHANGED <<await, stack, remote, occupation, serve, pool, kicked,
                     closed, open, cleaner, joining, netVars>>
  BY DEF HandOver, StartWorker, DropMessage, ReceiveNext, boundVars, closeVars
<1>2. /\ receiving' \in [Side -> BOOLEAN] /\ asleep' \subseteq Thread
  <2>1. \E woken, queues : ReceiveNext(t, woken, queues)
    BY DEF HandOver, StartWorker, DropMessage
  <2> QED
    BY <2>1 DEF ReceiveNext, TypeInv, FlagTypes
<1>3. Grown
  BY <1>1, GrownBy DEF TypeInv, FlagTypes, Contents, netVars
<1>4. NumberInv' /\ AwaitInv' /\ WireInv' /\ RemoteInv'
  BY <1>1, <1>3, ContentsStay DEF TypeInv, netVars
<1>5. /\ pc' \in [Thread -> Place] /\ pc'[t] \in {"poll", "loop"}
      /\ \A u \in Thread : u # t => pc'[u] = pc[u] \/ (pc[u] = "idle" /\ pc'[u] = "loop")
      /\ workers' \in [Side -> SUBSET Worker]
  <2>1. pc \in [Thread -> Place] /\ AfterHandOver(t) \in {"poll", "loop"} /\ pc[t] = "received"
    BY DEF TypeInv, FlagTypes, AfterHandOver, HandOver, StartWorker, DropMessage, Got
  <2>2. CASE HandOver(t) \/ DropMessage(t)
    <3>1. Goto(t, AfterHandOver(t)) /\ UNCHANGED workers
      BY <2>2 DEF HandOver, DropMessage, closeVars
    <3> QED
      BY <2>1, <3>1 DEF Goto, Place, TypeInv, FlagTypes
  <2>3. CASE StartWorker(t)
    <3>1. PICK w \in Worker \cap On(SideOf[t]) :
              /\ pc[w] = "idle" /\ workers' = [workers EXCEPT ![SideOf[t]] = @ \cup {w}]
              /\ pc' = [pc EXCEPT ![w] = "loop", ![t] = AfterHandOver(t)]
      BY <2>3 DEF StartWorker
    <3>2. workers \in [Side -> SUBSET Worker] /\ w \in Thread /\ w # t
      BY <2>1, <3>1 DEF TypeInv, FlagTypes, On
    <3> QED
      BY <2>1, <3>1, <3>2, Sides DEF Place
  <2> QED
    BY <2>2, <2>3
<1>6. NestInv'
  <2>1. NestInv /\ stack[t] \in Seq(Inside(t)') /\ IsNested(stack[t])
    BY <1>3, SeqGrows DEF TypeInv, Contents, NestInv, Grown
  <2>2. \A u \in Thread : u # t /\ pc'[u] = "handler" => pc[u] = "handler"
    BY <1>5
  <2>3. pc'[t] # "handler" /\ UNCHANGED stack
    BY <1>1, <1>5
  <2> QED
    BY <1>3, <2>1, <2>2, <2>3, NestKeeps
<1>7. HandInv'
  <2>1. HandInv /\ NoMsg \in Sent(SideOf[t])' \cup {NoMsg, EOF}
    BY DEF TypeInv, Contents
  <2>2. \A u \in Thread : u # t => \/ pc'[u] = pc[u]
                                   \/ {pc[u], pc'[u]} \cap {"received", "dispatch"} = {}
    BY <1>5
  <2>3. pc'[t] # "dispatch"
    BY <1>5
  <2> QED
    BY <1>1, <1>3, <2>1, <2>2, <2>3, HandKeeps
<1>8. DequeInv'
  <2>1. DequeInv
    BY DEF TypeInv, Contents
  <2>2. ASSUME NEW u \in Thread, NEW q \in Seq(Due(u) \cup {Wake}), msg[t] \in Due(u),
               deque' = [deque EXCEPT ![u] = Append(q, msg[t])]
        PROVE  DequeInv'
    <3>1. msg[t] \in Due(u)' /\ q \in Seq(Due(u)' \cup {Wake})
      BY <1>3, <2>2, SeqGrows DEF Grown
    <3>2. Append(q, msg[t]) \in Seq(Due(u)' \cup {Wake})
      BY <3>1
    <3>3. deque' = [v \in Thread |-> IF v = u THEN Append(q, msg[t]) ELSE deque[v]]
      BY <2>1, <2>2 DEF DequeInv
    <3> QED
      BY <1>3, <2>1, <3>2, <3>3, DequeKeeps
  <2>3. CASE HandOver(t)
    <3>1. PICK u \in Recipient(t) : deque' = [deque EXCEPT ![u] = Append(deque[u], msg[t])]
      BY <2>3 DEF HandOver
    <3>2. u \in Thread /\ msg[t] \in Due(u)
      BY <1>1, <3>1, GotTypes
    <3>3. deque[u] \in Seq(Due(u) \cup {Wake})
      BY <2>1, <3>2 DEF DequeInv
    <3> QED
      BY <2>2, <3>1, <3>2, <3>3
  <2>4. CASE StartWorker(t)
    <3>1. PICK w \in Worker \cap On(SideOf[t]) : deque' = [deque EXCEPT ![w] = <<msg[t]>>]
      BY <2>4 DEF StartWorker
    <3>2. w \in Thread /\ SideOf[w] = SideOf[t]
      BY <3>1 DEF On
    <3>3. msg[t] \in Due(w)
      BY <1>1, <2>4, <3>2, GotTypes DEF StartWorker
    <3>4. <<msg[t]>> = Append(<<>>, msg[t]) /\ <<>> \in Seq(Due(w) \cup {Wake})
      OBVIOUS
    <3> QED
      BY <2>2, <3>1, <3>2, <3>3, <3>4
  <2>5. CASE DropMessage(t)
    <3>1. UNCHANGED deque
      BY <2>5 DEF DropMessage, boundVars
    <3> QED
      BY <1>1, <1>3, <3>1, ContentsStay DEF TypeInv, netVars
  <2> QED
    BY <2>3, <2>4, <2>5
<1>9. FlagTypes'
  BY <1>1, <1>2, <1>5 DEF TypeInv, FlagTypes
<1> QED
  BY <1>4, <1>6, <1>7, <1>8, <1>9 DEF Contents

-----------------------------------------------------------------------------
(* close() and what it ends *)
LEMMA CleanedTypes ==
    ASSUME TypeInv, Grown, NEW t \in Thread, pc[t] \in {"cleanup", "threads", "join"}, Cleaned(t),
           UNCHANGED msg
    PROVE  /\ pc' \in [Thread -> Place] /\ AwaitInv' /\ NestInv' /\ HandInv'
           /\ \E l \in {"handler", "idle", "raise", "end"} : Goto(t, l) /\ (l = "idle" => t \in Client)
<1>1. stack[t] # <<>>
  BY DEF TypeInv, BInv, FrameInv, NeedsFrame
<1>2. stack[t] \in Seq(Inside(t)) /\ Head(stack[t]) \in Inside(t)
  BY <1>1 DEF TypeInv, Contents, NestInv
<1>3. CASE Head(stack[t]).op = "handle"
  <2>1. Goto(t, "handler") /\ UNCHANGED <<await, stack>>
    BY <1>3 DEF Cleaned
  <2>2. pc' \in [Thread -> Place] /\ NestInv' /\ HandInv'
    BY <1>1, <1>3, <2>1, GoesOn DEF Place
  <2>3. AwaitInv'
    BY <2>1 DEF TypeInv, Contents, AwaitInv, Grown
  <2> QED
    BY <2>1, <2>2, <2>3
<1>4. CASE Head(stack[t]).op # "handle"
  <2> DEFINE l == Head(stack[t]).arg
  <2>1. /\ Head(stack[t]).op = "close" /\ l \in {"handler", "idle", "raise", "end"}
        /\ l = "idle" => t \in Client
    BY <1>2, <1>4 DEF Inside, Frame
  <2>2. Goto(t, l) /\ Pop(t)
    BY <1>4 DEF Cleaned
  <2>3. /\ AwaitInv' /\ stack' = [stack EXCEPT ![t] = Tail(stack[t])]
        /\ Tail(stack[t]) \in Seq(Inside(t)') /\ IsNested(Tail(stack[t]))
        /\ l = "handler" => Tail(stack[t]) # <<>> /\ Head(Tail(stack[t])).op = "handle"
    BY <1>1, <2>1, <2>2, Popping
  <2> HIDE DEF l
  <2>4. /\ pc' \in [Thread -> Place] /\ pc'[t] = l /\ HandInv'
        /\ \A u \in Thread : u # t => pc'[u] = pc[u]
    BY <2>1, <2>2, GoesOn DEF Place
  <2>5. NestInv /\ stack'[t] = Tail(stack[t])
    BY <2>3 DEF TypeInv, Contents, NestInv
  <2>6. NestInv'
    BY <2>3, <2>4, <2>5, NestKeeps
  <2> QED
    BY <2>1, <2>2, <2>3, <2>4, <2>6
<1> QED
  BY <1>3, <1>4

LEMMA CloseTypes ==
    ASSUME TypeInv, NEW t \in Thread,
           Close(t, "eof", "raise") \/ Close(t, "closing", "end") \/ UserCloses(t)
    PROVE  FlagTypes' /\ Contents'
<1>1. /\ UNCHANGED <<msg, boundVars, waitVars, workers, open, cleaner, joining, netVars>>
      /\ closed' = [closed EXCEPT ![SideOf[t]] = TRUE]
  BY DEF Close, UserCloses
<1>2. PICK arg \in {"raise", "end", "idle", "handler"} :
          /\ \/ Goto(t, arg) /\ UNCHANGED <<stack, await>>
             \/ Push(t, "close", arg) /\ Goto(t, "sendclose")
          /\ arg = "handler" => pc[t] = "handler"
          /\ arg = "idle" => t \in Client
          /\ pc[t] \in {"eof", "closing", "idle", "handler"}
  <2>1. CASE Close(t, "eof", "raise")
    BY <2>1 DEF Close
  <2>2. CASE Close(t, "closing", "end")
    BY <2>2 DEF Close
  <2>3. CASE UserCloses(t)
    BY <2>3 DEF Close, UserCloses
  <2> QED
    BY <2>1, <2>2, <2>3
<1>3. Grown
  BY <1>1, GrownBy DEF TypeInv, FlagTypes, Contents, boundVars, netVars
<1>4. NumberInv' /\ DequeInv' /\ WireInv' /\ RemoteInv'
  BY <1>1, <1>3, ContentsStay DEF TypeInv, boundVars, netVars
<1>5. pc' \in [Thread -> Place] /\ NestInv' /\ AwaitInv' /\ HandInv'
  <2>1. CASE Goto(t, arg) /\ UNCHANGED <<stack, await>>
    <3>1. arg = "handler" => stack[t] # <<>> /\ Head(stack[t]).op = "handle"
      BY <1>2 DEF TypeInv, Contents, NestInv
    <3>2. pc' \in [Thread -> Place] /\ NestInv' /\ HandInv'
      BY <1>1, <1>2, <1>3, <2>1, <3>1, GoesOn DEF Place
    <3> QED
      BY <1>3, <2>1, <3>2 DEF TypeInv, Contents, AwaitInv, Grown
  <2>2. CASE Push(t, "close", arg) /\ Goto(t, "sendclose")
    <3>1. /\ pc' \in [Thread -> Place] /\ pc'[t] = "sendclose" /\ HandInv'
          /\ \A u \in Thread : u # t => pc'[u] = pc[u]
      BY <1>1, <1>2, <1>3, <2>2, GoesOn DEF Place
    <3>2. /\ AwaitInv'
          /\ \E s : /\ stack' = [stack EXCEPT ![t] = s]
                    /\ s \in Seq(Inside(t)') /\ IsNested(s) /\ s # <<>> /\ Head(s).op = "close"
      BY <1>2, <1>3, <2>2, Pushing
    <3>3. NestInv'
      <4>1. PICK s : /\ stack' = [stack EXCEPT ![t] = s]
                     /\ s \in Seq(Inside(t)') /\ IsNested(s)
        BY <3>2
      <4>2. NestInv
        BY DEF TypeInv, Contents
      <4> QED
        BY <1>3, <3>1, <4>1, <4>2, NestKeeps
    <3> QED
      BY <3>1, <3>2, <3>3
  <2> QED
    BY <1>2, <2>1, <2>2
<1>6. FlagTypes'
  BY <1>1, <1>5 DEF TypeInv, FlagTypes, boundVars, waitVars
<1> QED
  BY <1>4, <1>5, <1>6 DEF Contents

(* the workers of an end are told to end *)
LEMMA EndTypes ==
    ASSUME TypeInv, NEW d \in Side, EndWorkers(d), UNCHANGED netVars
    PROVE  /\ Grown /\ DequeInv' /\ RemoteInv' /\ NumberInv' /\ WireInv'
           /\ serve' \in [Thread -> BOOLEAN] /\ asleep' \subseteq Thread
           /\ workers' \in [Side -> SUBSET Worker] /\ joining' \in [Side -> SUBSET Worker]
           /\ UNCHANGED <<remote, occupation, pool, receiving, kicked, closed, open>>
<1>1. /\ serve' \in [Thread -> BOOLEAN] /\ asleep' \subseteq Thread
      /\ \A t \in Thread : serve'[t] => serve[t]
      /\ workers' \in [Side -> SUBSET Worker] /\ joining' \in [Side -> SUBSET Worker]
      /\ UNCHANGED <<remote, occupation, pool, receiving, kicked, closed, open>>
  BY DEF EndWorkers, TypeInv, FlagTypes
<1>2. Grown
  BY <1>1, GrownBy DEF TypeInv, Contents, netVars
<1>3. DequeInv'
  <2>1. deque' = [t \in Thread |-> IF t \in workers[d] /\ serve[t] THEN Append(deque[t], Wake)
                                                                  ELSE deque[t]]
    BY DEF EndWorkers
  <2>2. ASSUME NEW t \in Thread PROVE Append(deque[t], Wake) \in Seq(Due(t)' \cup {Wake})
    <3>1. deque[t] \in Seq(Due(t)' \cup {Wake})
      <4>1. deque[t] \in Seq(Due(t) \cup {Wake}) /\ Due(t) \subseteq Due(t)'
        BY <1>2 DEF TypeInv, Contents, DequeInv, Grown
      <4> QED
        BY <4>1, SeqGrows
    <3> QED
      BY <3>1
  <2>3. DequeInv
    BY DEF TypeInv, Contents
  <2> QED
    BY <1>2, <2>1, <2>2, <2>3, DequeKeeps
<1> QED
  BY <1>1, <1>2, <1>3, ContentsStay DEF TypeInv, netVars

LEMMA CleanupTypes ==
    ASSUME TypeInv, NEW t \in Thread, Cleanup(t) \/ CleanupThreads(t) \/ JoinWorkers(t)
    PROVE  FlagTypes' /\ Contents'
<1>1. pc[t] \in {"cleanup", "threads", "join"} /\ UNCHANGED <<msg, netVars>>
  BY DEF Cleanup, CleanupThreads, JoinWorkers
<1>2. CASE CleanupThreads(t) /\ t \notin workers[SideOf[t]]
  <2>1. EndWorkers(SideOf[t]) /\ Goto(t, "join") /\ UNCHANGED <<cleaner, await, stack>>
    BY <1>2 DEF CleanupThreads
  <2>2. /\ Grown /\ DequeInv' /\ RemoteInv' /\ NumberInv' /\ WireInv'
        /\ serve' \in [Thread -> BOOLEAN] /\ asleep' \subseteq Thread
        /\ workers' \in [Side -> SUBSET Worker] /\ joining' \in [Side -> SUBSET Worker]
        /\ UNCHANGED <<remote, occupation, pool, receiving, kicked, closed, open>>
    BY <1>1, <2>1, EndTypes, Sides
  <2>3. pc' \in [Thread -> Place] /\ NestInv' /\ HandInv'
    BY <1>1, <2>1, <2>2, GoesOn DEF Place
  <2>4. AwaitInv'
    BY <2>1, <2>2 DEF TypeInv, Contents, AwaitInv, Grown
  <2>5. FlagTypes'
    BY <2>1, <2>2, <2>3 DEF TypeInv, FlagTypes
  <2> QED
    BY <2>2, <2>3, <2>4, <2>5 DEF Contents
<1>3. CASE ~(CleanupThreads(t) /\ t \notin workers[SideOf[t]])
  <2>1. UNCHANGED <<boundVars, waitVars, workers, joining>>
    BY <1>3 DEF Cleanup, CleanupThreads, JoinWorkers, closeVars
  <2>2. Grown
    BY <1>1, <2>1, GrownBy DEF TypeInv, FlagTypes, Contents, boundVars, netVars
  <2>3. NumberInv' /\ DequeInv' /\ WireInv' /\ RemoteInv'
    BY <1>1, <2>1, <2>2, ContentsStay DEF TypeInv, boundVars, netVars
  <2>4. Cleaned(t) \/ (Goto(t, "threads") /\ UNCHANGED <<await, stack>>)
    BY <1>3 DEF Cleanup, CleanupThreads, JoinWorkers
  <2>5. pc' \in [Thread -> Place] /\ AwaitInv' /\ NestInv' /\ HandInv'
    <3>1. CASE Cleaned(t)
      BY <1>1, <2>2, <3>1, CleanedTypes
    <3>2. CASE Goto(t, "threads") /\ UNCHANGED <<await, stack>>
      <4>1. pc' \in [Thread -> Place] /\ NestInv' /\ HandInv'
        BY <1>1, <2>2, <3>2, GoesOn DEF Place
      <4> QED
        BY <2>2, <3>2, <4>1 DEF TypeInv, Contents, AwaitInv, Grown
    <3> QED
      BY <2>4, <3>1, <3>2
  <2>6. /\ closed' \in [Side -> BOOLEAN] /\ open' \in [Side -> BOOLEAN]
        /\ cleaner' \in [Side -> {"none", "start", "join", "end"}]
    BY <1>3 DEF Cleanup, CleanupThreads, JoinWorkers, closeVars, TypeInv, FlagTypes
  <2>7. FlagTypes'
    BY <2>1, <2>5, <2>6 DEF TypeInv, FlagTypes, boundVars, waitVars
  <2> QED
    BY <2>3, <2>5, <2>7 DEF Contents
<1> QED
  BY <1>2, <1>3

LEMMA CleanerTypes ==
    ASSUME TypeInv, NEW d \in Side, CleanerStep(d)
    PROVE  FlagTypes' /\ Contents'
<1>1. UNCHANGED <<threadVars, netVars>> /\ cleaner' \in [Side -> {"none", "start", "join", "end"}]
  BY DEF CleanerStep, TypeInv, FlagTypes
<1>2. /\ Grown /\ DequeInv' /\ RemoteInv' /\ NumberInv' /\ WireInv'
      /\ serve' \in [Thread -> BOOLEAN] /\ asleep' \subseteq Thread
      /\ workers' \in [Side -> SUBSET Worker] /\ joining' \in [Side -> SUBSET Worker]
      /\ UNCHANGED <<remote, occupation, pool, receiving, kicked, closed, open>>
  <2>1. CASE EndWorkers(d)
    BY <1>1, <2>1, EndTypes
  <2>2. CASE UNCHANGED <<boundVars, waitVars, workers, closed, open, joining>>
    <3>1. Grown
      BY <1>1, <2>2, GrownBy DEF TypeInv, FlagTypes, Contents, boundVars, netVars
    <3>2. NumberInv' /\ DequeInv' /\ WireInv' /\ RemoteInv'
      BY <1>1, <2>2, <3>1, ContentsStay DEF TypeInv, boundVars, netVars
    <3> QED
      BY <2>2, <3>1, <3>2 DEF TypeInv, FlagTypes, boundVars, waitVars
  <2> QED
    BY <2>1, <2>2 DEF CleanerStep
<1>3. UNCHANGED <<pc, await, stack, msg>>
  BY <1>1 DEF threadVars
<1>4. AwaitInv' /\ NestInv' /\ HandInv'
  <2>1. AwaitInv'
    BY <1>2, <1>3 DEF TypeInv, Contents, AwaitInv, Grown
  <2>2. NestInv'
    BY <1>2, <1>3, SeqGrows DEF TypeInv, Contents, NestInv, Grown
  <2>3. HandInv'
    BY <1>2, <1>3, Sides DEF TypeInv, Contents, HandInv, Grown
  <2> QED
    BY <2>1, <2>2, <2>3
<1>5. FlagTypes'
  BY <1>1, <1>2, <1>3 DEF TypeInv, FlagTypes
<1> QED
  BY <1>2, <1>4, <1>5 DEF Contents

-----------------------------------------------------------------------------
(* the pool, and who sleeps *)
LEMMA LeaveRemoves ==
    ASSUME NEW S, NEW p \in Seq(S), IsInjective(p), NEW t \in Range(p)
    PROVE  /\ Leave(p, t) \in Seq(S) /\ IsInjective(Leave(p, t))
           /\ Range(Leave(p, t)) = Range(p) \ {t}
<1> DEFINE k == CHOOSE i \in 1 .. Len(p) : p[i] = t
           q == Leave(p, t)
<1>0. DOMAIN p = 1 .. Len(p) /\ Len(p) \in Nat
  OBVIOUS
<1>1. k \in 1 .. Len(p) /\ p[k] = t
  <2>1. \E i \in 1 .. Len(p) : p[i] = t
    BY <1>0 DEF Range
  <2> QED
    BY <2>1
<1>2. q = RemoveAt(p, k)
  BY DEF Leave
<1> HIDE DEF k, q
<1>a. q = SubSeq(p, 1, k - 1) \o SubSeq(p, k + 1, Len(p))
  BY <1>2 DEF RemoveAt
<1> DEFINE a == SubSeq(p, 1, k - 1)
           b == SubSeq(p, k + 1, Len(p))
<1>3. a \in Seq(S) /\ Len(a) = k - 1 /\ \A i \in 1 .. k - 1 : a[i] = p[i]
  BY <1>0, <1>1
<1>4. b \in Seq(S) /\ Len(b) = Len(p) - k /\ \A i \in 1 .. Len(p) - k : b[i] = p[k + i]
  <2>1. k + 1 \in Int /\ Len(p) \in Int /\ \A i \in k + 1 .. Len(p) : p[i] \in S
    BY <1>0, <1>1
  <2>2. /\ b \in Seq(S)
        /\ Len(b) = IF k + 1 <= Len(p) THEN Len(p) - (k + 1) + 1 ELSE 0
        /\ \A i \in 1 .. Len(p) - (k + 1) + 1 : b[i] = p[k + 1 + i - 1]
    BY <2>1, SubSeqProperties
  <2> HIDE DEF b
  <2>3. Len(p) - (k + 1) + 1 = Len(p) - k
    BY <1>0, <1>1
  <2>4. ASSUME ~(k + 1 <= Len(p)) PROVE Len(p) - k = 0
    <3>1. \A n \in Nat : \A i \in 1 .. n : ~(i + 1 <= n) => n - i = 0
      OBVIOUS
    <3> QED
      BY <1>0, <1>1, <2>4, <3>1
  <2>5. ASSUME NEW i \in 1 .. Len(p) - k PROVE b[i] = p[k + i]
    <3>1. k + 1 + i - 1 = k + i
      BY <1>0, <1>1
    <3>2. b[i] = p[k + 1 + i - 1]
      BY <2>2, <2>3
    <3> QED
      BY <3>1, <3>2
  <2>6. Len(b) = Len(p) - k
    BY <2>2, <2>3, <2>4
  <2> QED
    BY <2>2, <2>5, <2>6
<1> HIDE DEF a, b
<1>5. /\ q \in Seq(S) /\ Len(q) = Len(p) - 1
      /\ \A i \in 1 .. Len(p) - 1 : q[i] = IF i < k THEN p[i] ELSE p[i + 1]
  <2>1. q = a \o b
    BY <1>a DEF a, b
  <2>2. /\ q \in Seq(S) /\ Len(q) = Len(a) + Len(b)
        /\ \A i \in 1 .. Len(a) + Len(b) : q[i] = IF i <= Len(a) THEN a[i] ELSE b[i - Len(a)]
    BY <1>3, <1>4, <2>1, ConcatProperties
  <2>3. ASSUME NEW i \in 1 .. Len(p) - 1 PROVE q[i] = IF i < k THEN p[i] ELSE p[i + 1]
    <3>1. q[i] = IF i <= k - 1 THEN a[i] ELSE b[i - (k - 1)]
      BY <1>0, <1>1, <1>3, <1>4, <2>2
    <3>2. CASE i < k
      BY <1>0, <1>1, <1>3, <3>1, <3>2
    <3>3. CASE ~(i < k)
      <4>1. i - (k - 1) \in 1 .. Len(p) - k /\ k + (i - (k - 1)) = i + 1
        BY <1>0, <1>1, <3>3
      <4>2. q[i] = b[i - (k - 1)]
        BY <1>0, <1>1, <3>1, <3>3
      <4> QED
        BY <1>4, <3>3, <4>1, <4>2
    <3> QED
      BY <3>2, <3>3
  <2>4. Len(q) = Len(p) - 1
    BY <1>0, <1>1, <1>3, <1>4, <2>2
  <2> QED
    BY <2>2, <2>3, <2>4
<1>6. DOMAIN q = 1 .. Len(p) - 1
  BY <1>5
<1>7. \A i, j \in 1 .. Len(p) : p[i] = p[j] => i = j
  BY <1>0 DEF IsInjective
<1>8. IsInjective(q)
  <2> SUFFICES ASSUME NEW i \in 1 .. Len(p) - 1, NEW j \in 1 .. Len(p) - 1, q[i] = q[j]
               PROVE  i = j
    BY <1>6 DEF IsInjective
  <2> DEFINE x == IF i < k THEN i ELSE i + 1
             y == IF j < k THEN j ELSE j + 1
  <2>1. x \in 1 .. Len(p) /\ y \in 1 .. Len(p) /\ p[x] = p[y]
    BY <1>0, <1>1, <1>5
  <2>2. x = y
    BY <1>7, <2>1
  <2> QED
    BY <1>0, <1>1, <2>2
<1>9. Range(q) = Range(p) \ {t}
  <2>1. ASSUME NEW i \in 1 .. Len(p) - 1 PROVE q[i] \in Range(p) \ {t}
    <3> DEFINE x == IF i < k THEN i ELSE i + 1
    <3>1. x \in 1 .. Len(p) /\ x # k /\ q[i] = p[x]
      BY <1>0, <1>1, <1>5
    <3>2. p[x] # t
      BY <1>1, <1>7, <3>1
    <3> QED
      BY <1>0, <3>1, <3>2 DEF Range
  <2>2. ASSUME NEW x \in 1 .. Len(p), p[x] # t PROVE p[x] \in Range(q)
    <3> DEFINE i == IF x < k THEN x ELSE x - 1
    <3>1. i \in 1 .. Len(p) - 1 /\ q[i] = p[x]
      BY <1>0, <1>1, <1>5, <2>2
    <3> QED
      BY <1>6, <3>1 DEF Range
  <2> QED
    BY <1>0, <1>6, <2>1, <2>2 DEF Range
<1> QED
  BY <1>5, <1>8, <1>9 DEF q

LEMMA AppendAdds ==
    ASSUME NEW S, NEW p \in Seq(S), IsInjective(p), NEW t \in S, t \notin Range(p)
    PROVE  /\ Append(p, t) \in Seq(S) /\ IsInjective(Append(p, t))
           /\ Range(Append(p, t)) = Range(p) \cup {t}
<1>1. /\ Append(p, t) \in Seq(S) /\ DOMAIN Append(p, t) = 1 .. Len(p) + 1
      /\ DOMAIN p = 1 .. Len(p) /\ Len(p) \in Nat
      /\ Append(p, t)[Len(p) + 1] = t /\ \A i \in 1 .. Len(p) : Append(p, t)[i] = p[i]
  OBVIOUS
<1>2. \A i \in 1 .. Len(p) : p[i] # t
  BY <1>1 DEF Range
<1>3. IsInjective(Append(p, t))
  BY <1>1, <1>2 DEF IsInjective
<1>4. Range(Append(p, t)) = Range(p) \cup {t}
  BY <1>1 DEF Range
<1> QED
  BY <1>1, <1>3, <1>4

LEMMA PoolStays ==
    ASSUME PoolInv, UNCHANGED pool,
           \A t \in Thread : pc'[t] = "asleep" <=> pc[t] = "asleep"
    PROVE  PoolInv'
  BY DEF PoolInv, On

LEMMA PoolSteps ==
    ASSUME TypeInv, NEW t \in Thread, ServeEnter(t) \/ ServeWoken(t)
    PROVE  PoolInv'
<1> DEFINE d == SideOf[t]
<1>1. /\ PoolInv /\ d \in Side /\ pc \in [Thread -> Place]
      /\ pool[d] \in Seq(Thread) /\ IsInjective(pool[d])
      /\ Range(pool[d]) = {u \in On(d) : pc[u] = "asleep"}
  BY Sides DEF TypeInv, FlagTypes, PoolInv
<1>2. ASSUME NEW p \in Seq(Thread), IsInjective(p), pool' = [pool EXCEPT ![d] = p],
             \A u \in Thread : u # t => pc'[u] = pc[u],
             Range(p) = {u \in On(d) : pc'[u] = "asleep"}
      PROVE  PoolInv'
  <2>1. pool' \in [Side -> Seq(Thread)]
    BY <1>1, <1>2 DEF PoolInv
  <2>2. ASSUME NEW e \in Side
        PROVE  Range(pool'[e]) = {u \in On(e) : pc'[u] = "asleep"} /\ IsInjective(pool'[e])
    <3>1. CASE e = d
      BY <1>1, <1>2, <3>1 DEF PoolInv
    <3>2. CASE e # d
      <4>1. pool'[e] = pool[e] /\ \A u \in On(e) : pc'[u] = pc[u]
        BY <1>1, <1>2, <3>2 DEF PoolInv, On
      <4> QED
        BY <1>1, <4>1 DEF PoolInv
    <3> QED
      BY <3>1, <3>2
  <2> QED
    BY <2>1, <2>2 DEF PoolInv
<1>3. t \in On(d)
  BY DEF On
<1> HIDE DEF d
<1>4. CASE ServeEnter(t) /\ Ready(t)
  <2>1. pc[t] = "loop" /\ Proceed(t, pool[SideOf[t]])
    BY <1>4 DEF ServeEnter
  <2>2. PICK l \in {"loop", "dispatch", "poll"} : Goto(t, l)
    BY <1>4, <2>1, ProceedTypes DEF ServeEnter
  <2>3. pool' = [pool EXCEPT ![d] = pool[d]]
    BY <2>1 DEF Proceed, d
  <2>4. pc'[t] # "asleep" /\ \A u \in Thread : u # t => pc'[u] = pc[u]
    BY <1>1, <2>2 DEF Goto
  <2>5. Range(pool[d]) = {u \in On(d) : pc'[u] = "asleep"}
    BY <1>1, <2>1, <2>4 DEF On
  <2> QED
    BY <1>1, <1>2, <2>3, <2>4, <2>5
<1>5. CASE ServeEnter(t) /\ ~Ready(t)
  <2>1. pc[t] = "loop" /\ Goto(t, "asleep") /\ pool' = [pool EXCEPT ![d] = Append(pool[d], t)]
    BY <1>5 DEF ServeEnter, d
  <2>2. pc'[t] = "asleep" /\ \A u \in Thread : u # t => pc'[u] = pc[u]
    BY <1>1, <2>1 DEF Goto
  <2>3. t \notin Range(pool[d])
    BY <1>1, <2>1
  <2>4. /\ Append(pool[d], t) \in Seq(Thread) /\ IsInjective(Append(pool[d], t))
        /\ Range(Append(pool[d], t)) = Range(pool[d]) \cup {t}
    BY <1>1, <2>3, AppendAdds
  <2>5. Range(Append(pool[d], t)) = {u \in On(d) : pc'[u] = "asleep"}
    BY <1>1, <1>3, <2>2, <2>4 DEF On
  <2> QED
    BY <1>2, <2>1, <2>2, <2>4, <2>5
<1>6. CASE ServeWoken(t) /\ Ready(t)
  <2>1. pc[t] = "asleep" /\ Proceed(t, Leave(pool[SideOf[t]], t))
    BY <1>6 DEF ServeWoken
  <2>2. PICK l \in {"loop", "dispatch", "poll"} : Goto(t, l)
    BY <1>6, <2>1, ProceedTypes DEF ServeWoken
  <2>3. pool' = [pool EXCEPT ![d] = Leave(pool[d], t)]
    BY <2>1 DEF Proceed, d
  <2>4. pc'[t] # "asleep" /\ \A u \in Thread : u # t => pc'[u] = pc[u]
    BY <1>1, <2>2 DEF Goto
  <2>5. t \in Range(pool[d])
    BY <1>1, <1>3, <2>1
  <2>6. /\ Leave(pool[d], t) \in Seq(Thread) /\ IsInjective(Leave(pool[d], t))
        /\ Range(Leave(pool[d], t)) = Range(pool[d]) \ {t}
    BY <1>1, <2>5, LeaveRemoves
  <2>7. Range(Leave(pool[d], t)) = {u \in On(d) : pc'[u] = "asleep"}
    BY <1>1, <2>4, <2>6 DEF On
  <2> QED
    BY <1>2, <2>3, <2>4, <2>6, <2>7
<1>7. CASE ServeWoken(t) /\ ~Ready(t)
  <2>1. UNCHANGED <<pc, pool>>
    BY <1>7 DEF ServeWoken
  <2> QED
    BY <1>1, <2>1, PoolStays
<1> QED
  BY <1>4, <1>5, <1>6, <1>7

(* nobody else falls asleep or wakes up for good *)
LEMMA PoolKept ==
    ASSUME TypeInv, NEW t \in Thread, NEW l \in Place \ {"asleep"},
           pc[t] # "asleep", Goto(t, l), UNCHANGED pool
    PROVE  PoolInv'
<1>1. \A u \in Thread : pc'[u] = "asleep" <=> pc[u] = "asleep"
  BY DEF TypeInv, FlagTypes, Goto
<1> QED
  BY <1>1, PoolStays DEF TypeInv

LEMMA ServeKeepsPool ==
    ASSUME TypeInv, NEW t \in Thread, ServeStep(t)
    PROVE  PoolInv'
<1>1. CASE WaitDone(t) \/ Raise(t) \/ LoopEnds(t)
  BY <1>1, AfterPlace, PoolKept DEF WaitDone, Raise, LoopEnds, waitVars, Place
<1>2. CASE PollData(t) \/ PollEOF(t) \/ PollWoken(t)
  BY <1>2, PoolKept DEF PollData, PollEOF, PollWoken, Received, waitVars, Place
<1>3. CASE LeaveEmpty(t) \/ TakeMessage(t) \/ HandOver(t) \/ DropMessage(t)
  BY <1>3, PoolKept DEF LeaveEmpty, TakeMessage, HandOver, DropMessage, Got, AfterHandOver, Place
<1>4. CASE StartWorker(t)
  <2>1. \E w \in Worker : /\ pc[w] = "idle" /\ pc[t] = "received" /\ UNCHANGED pool
                          /\ pc' = [pc EXCEPT ![w] = "loop", ![t] = AfterHandOver(t)]
    BY <1>4 DEF StartWorker, Got
  <2>2. \A u \in Thread : pc'[u] = "asleep" <=> pc[u] = "asleep"
    BY <2>1 DEF TypeInv, FlagTypes, AfterHandOver
  <2> QED
    BY <2>1, <2>2, PoolStays DEF TypeInv
<1>5. CASE DispatchReply(t) \/ DispatchRequest(t) \/ SendReply(t)
  BY <1>5, PoolKept DEF DispatchReply, DispatchRequest, SendReply, waitVars, Place
<1> QED
  BY <1>1, <1>2, <1>3, <1>4, <1>5, PoolSteps DEF ServeStep

LEMMA CloseKeepsPool ==
    ASSUME TypeInv, NEW t \in Thread,
           CloseStep(t) \/ ClientCalls(t) \/ HandlerCalls(t) \/ UserCloses(t)
    PROVE  PoolInv'
<1>1. CASE ClientCalls(t) \/ HandlerCalls(t) \/ SendClose(t)
  BY <1>1, PoolKept DEF ClientCalls, HandlerCalls, SendClose, SendRequest, waitVars, Place
<1>2. CASE Close(t, "eof", "raise") \/ Close(t, "closing", "end") \/ UserCloses(t)
  BY <1>2, PoolKept DEF Close, UserCloses, waitVars, Place
<1>3. CASE Cleanup(t) \/ CleanupThreads(t) \/ JoinWorkers(t)
  <2>1. pc[t] \in {"cleanup", "threads", "join"} /\ UNCHANGED <<pool, msg>>
    BY <1>3 DEF Cleanup, CleanupThreads, JoinWorkers, EndWorkers, waitVars
  <2>2. Cleaned(t) \/ Goto(t, "threads") \/ Goto(t, "join")
    BY <1>3 DEF Cleanup, CleanupThreads, JoinWorkers
  <2>3. CASE Cleaned(t)
    <3>1. /\ stack[t] # <<>> /\ stack[t] \in Seq(Inside(t))
      BY <2>1 DEF TypeInv, BInv, FrameInv, NeedsFrame, Contents, NestInv
    <3>2. Head(stack[t]) \in Inside(t)
      BY <3>1
    <3>3. PICK l \in {"handler", "idle", "raise", "end"} : Goto(t, l)
      BY <2>3, <3>2 DEF Cleaned, Inside, Frame
    <3> QED
      BY <2>1, <3>3, PoolKept DEF Place
  <2> QED
    BY <2>1, <2>2, <2>3, PoolKept DEF Place
<1> QED
  BY <1>1, <1>2, <1>3 DEF CloseStep

(* close() of an end, and what comes with it *)
LEMMA ClosedKeeps ==
    ASSUME ClosedInv,
           \A d \in Side : /\ closed[d] => closed'[d]
                           /\ ~open'[d] => ~open[d] \/ closed'[d]
                           /\ cleaner'[d] # "none" => cleaner[d] # "none" \/ closed'[d]
                           /\ workers'[d] \subseteq workers[d] \cup On(d),
           \A t \in Thread :
              /\ pc'[t] \in {"raise", "sendclose", "threads", "join"} =>
                   pc[t] \in {"raise", "sendclose", "threads", "join"} \/ closed'[SideOf[t]]
              /\ HasClose(stack'[t]) => HasClose(stack[t]) \/ closed'[SideOf[t]]
              /\ ~serve'[t] => ~serve[t] \/ closed'[SideOf[t]]
    PROVE  ClosedInv'
<1>1. ASSUME NEW d \in Side
      PROVE  (~open'[d] \/ cleaner'[d] # "none" => closed'[d]) /\ workers'[d] \subseteq On(d)
  BY DEF ClosedInv
<1>2. ASSUME NEW t \in Thread
      PROVE  /\ pc'[t] \in {"raise", "sendclose", "threads", "join"} => closed'[SideOf[t]]
             /\ HasClose(stack'[t]) \/ ~serve'[t] => closed'[SideOf[t]]
  BY Sides DEF ClosedInv
<1> QED
  BY <1>1, <1>2 DEF ClosedInv, On

(* a thread goes on, and nothing is closed *)
LEMMA ClosedStays ==
    ASSUME TypeInv, NEW t \in Thread, NEW l, Goto(t, l), UNCHANGED <<closed, open, cleaner, workers, serve>>,
           l \in {"raise", "sendclose", "threads", "join"} =>
             pc[t] \in {"raise", "sendclose", "threads", "join"} \/ closed[SideOf[t]],
           \A u \in Thread : HasClose(stack'[u]) => HasClose(stack[u])
    PROVE  ClosedInv'
<1>1. \A u \in Thread : pc'[u] = IF u = t THEN l ELSE pc[u]
  BY DEF Goto, TypeInv, FlagTypes
<1> QED
  BY <1>1, ClosedKeeps DEF TypeInv

LEMMA TopClose ==
    ASSUME NEW S, NEW s \in Seq(S)
    PROVE  /\ s # <<>> => (HasClose(Tail(s)) \/ Head(s).op = "close" => HasClose(s))
           /\ \A f : HasClose(<<f>> \o s) => f.op = "close" \/ HasClose(s)
<1>1. ASSUME s # <<>>, HasClose(Tail(s)) PROVE HasClose(s)
  <2>1. Len(Tail(s)) = Len(s) - 1 /\ \A i \in 1 .. Len(s) - 1 : Tail(s)[i] = s[i + 1]
    BY <1>1
  <2>2. PICK i \in 1 .. Len(s) - 1 : Tail(s)[i].op = "close"
    BY <1>1, <2>1 DEF HasClose
  <2>3. i + 1 \in 1 .. Len(s) /\ s[i + 1].op = "close"
    BY <2>1, <2>2
  <2> QED
    BY <2>3 DEF HasClose
<1>2. ASSUME s # <<>>, Head(s).op = "close" PROVE HasClose(s)
  <2>1. 1 \in 1 .. Len(s) /\ s[1].op = "close"
    BY <1>2
  <2> QED
    BY <2>1 DEF HasClose
<1>3. ASSUME NEW f, HasClose(<<f>> \o s), f.op # "close" PROVE HasClose(s)
  <2>1. s \in Seq(S \cup {f}) /\ <<f>> \in Seq(S \cup {f})
    OBVIOUS
  <2>2. Len(<<f>> \o s) = Len(s) + 1
        /\ \A i \in 1 .. Len(s) + 1 : (<<f>> \o s)[i] = IF i = 1 THEN f ELSE s[i - 1]
    BY <2>1
  <2>3. PICK i \in 1 .. Len(s) + 1 : (<<f>> \o s)[i].op = "close"
    BY <1>3, <2>2 DEF HasClose
  <2>4. i - 1 \in 1 .. Len(s) /\ s[i - 1].op = "close"
    BY <1>3, <2>2, <2>3
  <2> QED
    BY <2>4 DEF HasClose
<1> QED
  BY <1>1, <1>2, <1>3

LEMMA PoppedClose ==
    ASSUME TypeInv, NEW t \in Thread, stack[t] # <<>>, Pop(t)
    PROVE  \A u \in Thread : HasClose(stack'[u]) => HasClose(stack[u])
<1>1. \A u \in Thread : stack'[u] = IF u = t THEN Tail(stack[t]) ELSE stack[u]
  BY DEF Pop, TypeInv, Contents, NestInv
<1>2. stack[t] \in Seq(Frame)
  BY DEF TypeInv, Contents, NestInv
<1> QED
  BY <1>1, <1>2, TopClose

LEMMA PushedClose ==
    ASSUME TypeInv, NEW t \in Thread, NEW op, NEW arg, Push(t, op, arg)
    PROVE  \A u \in Thread : HasClose(stack'[u]) => HasClose(stack[u]) \/ (u = t /\ op = "close")
<1>1. \A u \in Thread : stack'[u] = IF u = t THEN <<[op |-> op, await |-> await[t], arg |-> arg]>> \o stack[t]
                                             ELSE stack[u]
  BY DEF Push, TypeInv, Contents, NestInv
<1>2. stack[t] \in Seq(Frame)
  BY DEF TypeInv, Contents, NestInv
<1>3. HasClose(stack'[t]) => op = "close" \/ HasClose(stack[t])
  BY <1>1, <1>2, TopClose
<1> QED
  BY <1>1, <1>3

(* a thread that is done with __cleanup raises only after a close() of its own *)
LEMMA CleanedClose ==
    ASSUME TypeInv, NEW t \in Thread, pc[t] \in {"cleanup", "threads", "join"}, Cleaned(t)
    PROVE  /\ \E l : Goto(t, l) /\ (l \in {"raise", "sendclose", "threads", "join"} => closed[SideOf[t]])
           /\ \A u \in Thread : HasClose(stack'[u]) => HasClose(stack[u])
<1>1. stack[t] # <<>> /\ stack[t] \in Seq(Inside(t))
  BY DEF TypeInv, BInv, FrameInv, NeedsFrame, Contents, NestInv
<1>2. Head(stack[t]) \in Inside(t)
  BY <1>1
<1>3. CASE Head(stack[t]).op = "handle"
  BY <1>3 DEF Cleaned
<1>4. CASE Head(stack[t]).op # "handle"
  <2>1. Goto(t, Head(stack[t]).arg) /\ Pop(t)
    BY <1>4 DEF Cleaned
  <2>2. Head(stack[t]).op = "close"
    BY <1>2, <1>4 DEF Inside, Frame
  <2>3. closed[SideOf[t]]
    BY <1>1, <2>2, TopClose DEF TypeInv, ClosedInv
  <2> QED
    BY <1>1, <2>1, <2>3, PoppedClose
<1> QED
  BY <1>3, <1>4

LEMMA ServeKeepsClosed ==
    ASSUME TypeInv, NEW t \in Thread, ServeStep(t)
    PROVE  ClosedInv'
<1>1. CASE WaitDone(t) \/ LoopEnds(t)
  BY <1>1, AfterPlace, ClosedStays DEF WaitDone, LoopEnds, closeVars, boundVars
<1>2. CASE Raise(t)
  <2>1. /\ closed[SideOf[t]] /\ UNCHANGED <<closed, open, cleaner, workers, stack>>
        /\ \A u \in Thread : u # t => serve'[u] = serve[u]
    BY <1>2 DEF Raise, closeVars, TypeInv, FlagTypes, ClosedInv
  <2>2. \A u \in Thread : u # t => pc'[u] = pc[u]
    BY <1>2 DEF Raise, Goto, TypeInv, FlagTypes
  <2> QED
    BY <2>1, <2>2, ClosedKeeps DEF TypeInv
<1>3. CASE ServeEnter(t) \/ ServeWoken(t)
  <2>1. UNCHANGED <<closed, open, cleaner, workers, serve, stack>>
    BY <1>3 DEF ServeEnter, ServeWoken, closeVars
  <2>2. UNCHANGED pc \/ \E l \in {"loop", "dispatch", "poll", "asleep"} : Goto(t, l)
    <3>1. CASE Ready(t)
      BY <1>3, <3>1, ProceedTypes DEF ServeEnter, ServeWoken
    <3>2. CASE ~Ready(t)
      BY <1>3, <3>2 DEF ServeEnter, ServeWoken
    <3> QED
      BY <3>1, <3>2
  <2> QED
    BY <2>1, <2>2, ClosedStays, ClosedKeeps DEF TypeInv
<1>4. CASE PollData(t) \/ PollEOF(t) \/ PollWoken(t)
  BY <1>4, ClosedStays DEF PollData, PollEOF, PollWoken, Received, closeVars, boundVars
<1>5. CASE LeaveEmpty(t) \/ TakeMessage(t) \/ HandOver(t) \/ DropMessage(t)
  BY <1>5, ClosedStays DEF LeaveEmpty, TakeMessage, HandOver, DropMessage, AfterHandOver, closeVars, boundVars
<1>6. CASE StartWorker(t)
  <2>1. PICK w \in Worker \cap On(SideOf[t]) :
            /\ workers' = [workers EXCEPT ![SideOf[t]] = @ \cup {w}]
            /\ pc' = [pc EXCEPT ![w] = "loop", ![t] = AfterHandOver(t)]
    BY <1>6 DEF StartWorker
  <2>2. UNCHANGED <<closed, open, cleaner, serve, stack>>
    BY <1>6 DEF StartWorker
  <2>3. \A d \in Side : workers'[d] \subseteq workers[d] \cup On(d)
    BY <2>1 DEF TypeInv, FlagTypes
  <2>4. \A u \in Thread : pc'[u] = pc[u] \/ pc'[u] \in {"loop", "poll"}
    BY <2>1 DEF TypeInv, FlagTypes, AfterHandOver
  <2> QED
    BY <2>2, <2>3, <2>4, ClosedKeeps DEF TypeInv
<1>7. CASE DispatchReply(t)
  BY <1>7, ClosedStays DEF DispatchReply, closeVars
<1>8. CASE DispatchRequest(t)
  <2>1. Push(t, "handle", msg[t].seq) /\ UNCHANGED <<closed, open, cleaner, workers, serve>>
    BY <1>8 DEF DispatchRequest, closeVars
  <2>2. \E l \in {"cleanup", "handler"} : Goto(t, l)
    BY <1>8 DEF DispatchRequest
  <2>3. \A u \in Thread : HasClose(stack'[u]) => HasClose(stack[u])
    BY <2>1, PushedClose
  <2> QED
    BY <2>1, <2>2, <2>3, ClosedStays
<1>9. CASE SendReply(t)
  <2>1. stack[t] # <<>> /\ Pop(t) /\ UNCHANGED <<closed, open, cleaner, workers, serve>>
    BY <1>9 DEF SendReply, closeVars, TypeInv, Contents, NestInv
  <2>2. \E l \in {"loop", "raise"} : Goto(t, l) /\ (l = "raise" => closed[SideOf[t]])
    BY <1>9, Sides DEF SendReply, TypeInv, ClosedInv
  <2>3. \A u \in Thread : HasClose(stack'[u]) => HasClose(stack[u])
    BY <2>1, PoppedClose
  <2> QED
    BY <2>1, <2>2, <2>3, ClosedStays
<1> QED
  BY <1>1, <1>2, <1>3, <1>4, <1>5, <1>6, <1>7, <1>8, <1>9 DEF ServeStep

LEMMA EndingKeepsClosed ==
    ASSUME TypeInv, NEW d \in Side, closed[d], EndWorkers(d), UNCHANGED stack,
           \A u \in Thread : pc'[u] \in {"raise", "sendclose", "threads", "join"} =>
                               pc[u] \in {"raise", "sendclose", "threads", "join"},
           \A e \in Side : cleaner'[e] # "none" => cleaner[e] # "none"
    PROVE  ClosedInv'
<1>1. UNCHANGED <<closed, open>> /\ \A e \in Side : workers'[e] \subseteq workers[e]
  BY DEF EndWorkers, TypeInv, FlagTypes
<1>2. \A u \in Thread : ~serve'[u] => ~serve[u] \/ u \in workers[d]
  BY DEF EndWorkers
<1>3. \A u \in workers[d] : SideOf[u] = d
  BY DEF TypeInv, ClosedInv, On
<1> QED
  BY <1>1, <1>2, <1>3, ClosedKeeps DEF TypeInv

LEMMA CloseKeepsClosed ==
    ASSUME TypeInv, NEW t \in Thread,
           CloseStep(t) \/ ClientCalls(t) \/ HandlerCalls(t) \/ UserCloses(t)
    PROVE  ClosedInv'
<1>1. CASE ClientCalls(t) \/ HandlerCalls(t) \/ SendClose(t)
  <2>1. UNCHANGED <<closed, open, cleaner, workers, serve, stack>>
    BY <1>1 DEF ClientCalls, HandlerCalls, SendClose, closeVars
  <2>2. \E l \in {"loop", "raise"} : Goto(t, l) /\ (l = "raise" => closed[SideOf[t]])
    BY <1>1, Sides DEF ClientCalls, HandlerCalls, SendClose, SendRequest, TypeInv, ClosedInv
  <2> QED
    BY <2>1, <2>2, ClosedStays
<1>2. CASE Close(t, "eof", "raise") \/ Close(t, "closing", "end") \/ UserCloses(t)
  <2>1. /\ closed' = [closed EXCEPT ![SideOf[t]] = TRUE]
        /\ UNCHANGED <<open, cleaner, workers, serve>>
        /\ UNCHANGED stack \/ \E arg : Push(t, "close", arg)
        /\ \E l : Goto(t, l)
    BY <1>2 DEF Close, UserCloses, boundVars
  <2>2. \A e \in Side : closed'[e] <=> closed[e] \/ e = SideOf[t]
    BY <2>1 DEF TypeInv, FlagTypes
  <2>3. \A u \in Thread : HasClose(stack'[u]) => HasClose(stack[u]) \/ u = t
    BY <2>1, PushedClose
  <2>4. \A u \in Thread : u # t => pc'[u] = pc[u]
    BY <2>1 DEF Goto, TypeInv, FlagTypes
  <2> QED
    BY <2>1, <2>2, <2>3, <2>4, Sides, ClosedKeeps DEF TypeInv
<1>3. CASE Cleanup(t)
  <2>1. /\ closed' = [closed EXCEPT ![SideOf[t]] = TRUE]
        /\ open' = [open EXCEPT ![SideOf[t]] = FALSE]
        /\ UNCHANGED <<cleaner, workers, serve>> /\ pc[t] = "cleanup"
        /\ (Goto(t, "threads") /\ UNCHANGED stack) \/ Cleaned(t)
    BY <1>3 DEF Cleanup, boundVars
  <2>2. \A e \in Side : /\ closed'[e] <=> closed[e] \/ e = SideOf[t]
                        /\ open'[e] <=> open[e] /\ e # SideOf[t]
    BY <2>1 DEF TypeInv, FlagTypes
  <2>3. (\E l : Goto(t, l)) /\ \A u \in Thread : HasClose(stack'[u]) => HasClose(stack[u])
    BY <2>1, CleanedClose
  <2>4. \A u \in Thread : u # t => pc'[u] = pc[u]
    BY <2>3 DEF Goto, TypeInv, FlagTypes
  <2> QED
    BY <2>1, <2>2, <2>3, <2>4, Sides, ClosedKeeps DEF TypeInv
<1>4. CASE CleanupThreads(t)
  <2>1. pc[t] = "threads" /\ closed[SideOf[t]]
    BY <1>4 DEF CleanupThreads, TypeInv, ClosedInv
  <2>2. CASE t \in workers[SideOf[t]]
    <3>1. /\ cleaner' = [cleaner EXCEPT ![SideOf[t]] = IF @ = "none" THEN "start" ELSE @]
          /\ Cleaned(t) /\ UNCHANGED <<closed, open, workers, serve>>
      BY <1>4, <2>2 DEF CleanupThreads, boundVars
    <3>2. \A e \in Side : cleaner'[e] # "none" => cleaner[e] # "none" \/ closed'[e]
      BY <2>1, <3>1 DEF TypeInv, FlagTypes
    <3>3. PICK l : Goto(t, l)
      BY <2>1, <3>1, CleanedClose
    <3>4. \A u \in Thread : HasClose(stack'[u]) => HasClose(stack[u])
      BY <2>1, <3>1, CleanedClose
    <3>5. \A u \in Thread : u # t => pc'[u] = pc[u]
      BY <3>3 DEF Goto, TypeInv, FlagTypes
    <3> QED
      BY <2>1, <3>1, <3>2, <3>4, <3>5, ClosedKeeps DEF TypeInv
  <2>3. CASE t \notin workers[SideOf[t]]
    <3>1. EndWorkers(SideOf[t]) /\ Goto(t, "join") /\ UNCHANGED <<cleaner, stack>>
      BY <1>4, <2>3 DEF CleanupThreads
    <3>2. \A u \in Thread : u # t => pc'[u] = pc[u]
      BY <3>1 DEF Goto, TypeInv, FlagTypes
    <3> QED
      BY <2>1, <3>1, <3>2, Sides, EndingKeepsClosed
  <2> QED
    BY <2>2, <2>3
<1>5. CASE JoinWorkers(t)
  <2>1. /\ pc[t] = "join" /\ Cleaned(t)
        /\ UNCHANGED <<closed, open, cleaner, workers, serve>>
    BY <1>5 DEF JoinWorkers, closeVars, boundVars
  <2>2. PICK l : Goto(t, l) /\ (l \in {"raise", "sendclose", "threads", "join"} => closed[SideOf[t]])
    BY <2>1, CleanedClose
  <2>3. \A u \in Thread : HasClose(stack'[u]) => HasClose(stack[u])
    BY <2>1, CleanedClose
  <2> QED
    BY <2>1, <2>2, <2>3, ClosedStays
<1> QED
  BY <1>1, <1>2, <1>3, <1>4, <1>5 DEF CloseStep

LEMMA CleanerKeepsClosed ==
    ASSUME TypeInv, NEW d \in Side, CleanerStep(d)
    PROVE  ClosedInv'
<1>1. UNCHANGED <<pc, stack>> /\ \A e \in Side : cleaner'[e] # "none" => cleaner[e] # "none"
  BY DEF CleanerStep, threadVars, TypeInv, FlagTypes
<1>2. CASE cleaner[d] = "start"
  BY <1>1, <1>2, EndingKeepsClosed DEF CleanerStep, TypeInv, ClosedInv
<1>3. CASE cleaner[d] # "start"
  BY <1>1, <1>3, ClosedKeeps DEF CleanerStep, boundVars, TypeInv
<1> QED
  BY <1>2, <1>3

LEMMA InitTypes == Init => TypeInv
<1> SUFFICES ASSUME Init PROVE TypeInv
  OBVIOUS
<1>1. /\ pc = [t \in Thread |-> IF t \in Server THEN "loop" ELSE "idle"]
      /\ await = [t \in Thread |-> NoSeq] /\ stack = [t \in Thread |-> <<>>]
      /\ msg = [t \in Thread |-> NoMsg] /\ deque = [t \in Thread |-> <<>>]
      /\ remote = [t \in Thread |-> Unbound] /\ wire = [d \in Side |-> <<>>]
      /\ pool = [d \in Side |-> <<>>]
      /\ issued = 0 /\ owner = <<>> /\ done = {} /\ expired = {}
  BY DEF Init
<1>2. \A S : <<>> \in Seq(S)
  OBVIOUS
<1>3. NumberInv
  BY <1>1, BoundServingAssumption DEF NumberInv
<1>4. AwaitInv /\ RemoteInv /\ HandInv
  BY <1>1 DEF AwaitInv, RemoteInv, HandInv
<1>5. NestInv
  <2>1. IsNested(<<>>)
    BY DEF IsNested
  <2> QED
    BY <1>1, <1>2, <2>1 DEF NestInv
<1>6. DequeInv /\ WireInv
  BY <1>1, <1>2 DEF DequeInv, WireInv
<1>7. FlagTypes
  BY DEF Init, FlagTypes, Place, Thread
<1>8. PoolInv
  <2>1. Range(<<>>) = {} /\ IsInjective(<<>>)
    BY DEF Range, IsInjective
  <2> QED
    BY <1>1, <1>2, <2>1 DEF PoolInv, On
<1>9. ClosedInv
  BY DEF Init, ClosedInv, HasClose
<1> QED
  BY <1>3, <1>4, <1>5, <1>6, <1>7, <1>8, <1>9, InitRole DEF TypeInv, Contents

LEMMA StepKeepsTypes == TypeInv /\ [Next]_vars => TypeInv'
<1> SUFFICES ASSUME TypeInv, [Next]_vars PROVE TypeInv'
  OBVIOUS
<1>0. BInv'
  BY StepKeepsRole DEF TypeInv
<1>1. ASSUME NEW t \in Thread, ServeStep(t)
      PROVE  FlagTypes' /\ Contents' /\ PoolInv' /\ ClosedInv'
  BY <1>1, LoopTypes, EnterTypes, PollTypes, ReceivedTypes, HandingTypes, DispatchTypes,
     ReplyTypes, ServeKeepsPool, ServeKeepsClosed DEF ServeStep
<1>2. ASSUME NEW t \in Thread, CloseStep(t) \/ ClientCalls(t) \/ HandlerCalls(t) \/ UserCloses(t)
      PROVE  FlagTypes' /\ Contents' /\ PoolInv' /\ ClosedInv'
  <2>1. CASE ClientCalls(t) \/ HandlerCalls(t) \/ SendClose(t)
    BY <1>2, <2>1, RequestTypes, CloseKeepsPool, CloseKeepsClosed DEF ClientCalls, HandlerCalls, SendClose
  <2>2. CASE ~(ClientCalls(t) \/ HandlerCalls(t) \/ SendClose(t))
    BY <1>2, <2>2, CloseTypes, CleanupTypes, CloseKeepsPool, CloseKeepsClosed DEF CloseStep
  <2> QED
    BY <2>1, <2>2
<1>3. ASSUME NEW d \in Side, CleanerStep(d)
      PROVE  FlagTypes' /\ Contents' /\ PoolInv' /\ ClosedInv'
  <2>1. UNCHANGED <<pc, pool>>
    BY <1>3 DEF CleanerStep, EndWorkers, threadVars, waitVars
  <2> QED
    BY <1>3, <2>1, CleanerTypes, CleanerKeepsClosed, PoolStays DEF TypeInv
<1>4. ASSUME UNCHANGED <<threadVars, boundVars, waitVars, closeVars, wire, issued, owner, done>>,
             expired' \subseteq expired \cup {s \in SeqNo : s < issued}
      PROVE  FlagTypes' /\ Contents' /\ PoolInv' /\ ClosedInv'
  <2>1. Grown
    BY <1>4, GrownBy DEF TypeInv, FlagTypes, Contents, boundVars
  <2>2. NumberInv'
    BY <1>4, NumberKeeps DEF TypeInv, Contents
  <2>3. FlagTypes' /\ PoolInv' /\ ClosedInv'
    <3>1. FlagTypes'
      BY <1>4 DEF TypeInv, FlagTypes, threadVars, boundVars, waitVars, closeVars
    <3> QED
      BY <1>4, <3>1, PoolStays, ClosedKeeps DEF TypeInv, threadVars, boundVars, waitVars, closeVars
  <2>4. AwaitInv' /\ RemoteInv'
    BY <1>4, <2>1 DEF TypeInv, Contents, AwaitInv, RemoteInv, Grown, threadVars, boundVars
  <2>5. NestInv'
    BY <1>4, <2>1, SeqGrows DEF TypeInv, Contents, NestInv, Grown, threadVars
  <2>6. HandInv'
    BY <1>4, <2>1, Sides DEF TypeInv, Contents, HandInv, Grown, threadVars
  <2>7. DequeInv'
    <3>1. DequeInv
      BY DEF TypeInv, Contents
    <3> QED
      BY <1>4, <2>1, <3>1, DequeKeeps DEF DequeInv, boundVars
  <2>8. WireInv'
    BY <1>4, <2>1, SeqGrows DEF TypeInv, Contents, WireInv, Grown
  <2> QED
    BY <2>2, <2>3, <2>4, <2>5, <2>6, <2>7, <2>8 DEF Contents
<1>5. CASE UNCHANGED vars
  BY <1>0, <1>4, <1>5 DEF vars, netVars, TypeInv
<1>6. ASSUME NEW s \in SeqNo, Expire(s)
      PROVE  FlagTypes' /\ Contents' /\ PoolInv' /\ ClosedInv'
  BY <1>4, <1>6 DEF Expire
<1> QED
  BY <1>0, <1>1, <1>2, <1>3, <1>4, <1>5, <1>6 DEF Next, TypeInv

(* Every variable holds what TypeOK says it does, whoever serves, calls and closes. *)
THEOREM TypeCorrect == Spec => []TypeOK
<1>1. TypeInv => TypeOK
  BY DEF TypeInv, FlagTypes, Place, Contents, NumberInv, AwaitInv, NestInv, HandInv, DequeInv,
         WireInv, RemoteInv, PoolInv, TypeOK
<1> QED
  BY <1>1, InitTypes, StepKeepsTypes, PTL DEF Spec

-----------------------------------------------------------------------------
(* The conversation of two threads.  P is whom a thread talks to, H the requests
   it handles, O those it has sent and not had answered, R the thread it is bound
   to, W the threads that wait for an answer and M the messages on their way. *)
Key(m) == IF m.to = Unbound THEN m.from ELSE m.to

Paired(P, H, O) ==
    \A x \in Thread :
        /\ P[x] \in Thread =>
             P[x] # x /\ P[P[x]] = x /\ (H[x] # {} \/ H[P[x]] # {})
        /\ H[x] # {} => P[x] \in Thread /\ H[x] \subseteq O[P[x]]

Single(P, O, W) ==
    \A x \in Thread : /\ x \in W => O[x] # {}
                      /\ P[x] = Unbound /\ O[x] # {} => x \in W /\ \E s : O[x] = {s}

Turns(P, W, M) ==
    /\ \A x \in Thread : x \notin W /\ P[x] \in Thread =>
                           P[x] \in W /\ \A m \in M : Key(m) # P[x]
    /\ \A m \in M : /\ Key(m) \in W
                    /\ P[Key(m)] \in Thread =>
                         P[Key(m)] \in W /\ \A n \in M : Key(n) # P[Key(m)]
    /\ \A m, n \in M : Key(m) = Key(n) => m = n

(* what one of a pair waits for is with the other, or on its way *)
Open(P, H, O, M) ==
    \A x \in Thread : P[x] \in Thread =>
        \A s \in O[x] : s \in H[P[x]] \/ \E m \in M : m.seq = s /\ Key(m) \in {x, P[x]}

Asked(P, H, O, M) ==
    \A m \in M : m.type # "reply" =>
        /\ P[m.from] = m.to /\ m.seq \in O[m.from]
        /\ m.to \in Thread => \A s \in H[m.to] \cup O[m.to] : s < m.seq

Answered(P, H, O, M) ==
    \A m \in M : m.type = "reply" =>
        /\ m.to \in Thread /\ m.seq \in O[m.to] /\ \A s \in O[m.to] : s <= m.seq
        /\ P[m.to] \in Thread => m.from = P[m.to] /\ m.seq \notin H[P[m.to]]

Shapes(P, H, O, W, M) ==
    /\ P \in [Thread -> Thread \cup {Unbound}] /\ W \subseteq Thread
    /\ \A x \in Thread : H[x] \subseteq Nat /\ O[x] \subseteq Nat
    /\ \A x, y \in Thread : \A s : s \in O[x] /\ s \in O[y] => x = y
    /\ \A m \in M : m.from \in Thread /\ m.to \in Thread \cup {Unbound} /\ m.seq \in Nat

Remotes(P, H, R) == \A x \in Thread : H[x] # {} => R[x] = P[x]

Core(P, H, O, R, W, M) ==
    /\ Shapes(P, H, O, W, M) /\ Paired(P, H, O) /\ Single(P, O, W) /\ Turns(P, W, M)
    /\ Open(P, H, O, M) /\ Asked(P, H, O, M) /\ Answered(P, H, O, M) /\ Remotes(P, H, R)

(* what a thread sends to p, and one that is changed of what each thread has *)
Asks(m, x, p)    == m.type # "reply" /\ m.from = x /\ m.to = p /\ m.seq \in Nat
Answers(m, x, p) == m.type = "reply" /\ m.from = x /\ m.to = p
Changed(g, f, x, v) == \A y \in Thread : g[y] = IF y = x THEN v ELSE f[y]

(* a thread whose turn it is asks the thread it talks to, or nobody in particular *)
LEMMA CoreAsk ==
    ASSUME NEW P, NEW H, NEW O, NEW R, NEW W, NEW M, Core(P, H, O, R, W, M),
           NEW x \in Thread, x \notin W, P[x] = Unbound => O[x] = {},
           NEW m, Asks(m, x, P[x]), \A y \in Thread : \A r \in H[y] \cup O[y] : r < m.seq,
           NEW O2, Changed(O2, O, x, O[x] \cup {m.seq})
    PROVE  Core(P, H, O2, R, W \cup {x}, M \cup {m})
<1> USE DEF Asks, Changed
<1> DEFINE V == W \cup {x}
           N == M \cup {m}
<1>0. Unbound \notin Thread
  BY BoundServingAssumption
<1>1. /\ Shapes(P, H, O, W, M) /\ Paired(P, H, O) /\ Single(P, O, W) /\ Turns(P, W, M)
      /\ Open(P, H, O, M) /\ Asked(P, H, O, M) /\ Answered(P, H, O, M) /\ Remotes(P, H, R)
  BY DEF Core
<1>2. /\ \A y \in Thread : P[y] \in Thread \cup {Unbound}
      /\ \A y \in Thread : P[y] \in Thread => P[y] # y /\ P[P[y]] = y
      /\ \A n \in M : Key(n) \in W
      /\ P[x] \in Thread => P[x] \in W /\ \A n \in M : Key(n) # P[x]
  BY <1>1 DEF Shapes, Paired, Turns
<1>3. Key(m) = IF P[x] = Unbound THEN x ELSE P[x]
  BY DEF Key
<1>4. Shapes(P, H, O2, V, N)
  <2>1. \A y \in Thread : O2[y] \subseteq Nat /\ H[y] \subseteq Nat
    BY <1>1 DEF Shapes
  <2>2. ASSUME NEW y \in Thread, NEW z \in Thread, NEW s, s \in O2[y], s \in O2[z] PROVE y = z
    <3>1. \A v \in Thread : m.seq \notin O[v]
      <4>1. \A v \in Thread : \A r \in O[v] : r < m.seq
        OBVIOUS
      <4> QED
        BY <4>1
    <3> QED
      BY <1>1, <2>2, <3>1 DEF Shapes
  <2> QED
    BY <1>1, <2>1, <2>2 DEF Shapes
<1>5. Paired(P, H, O2)
  BY <1>1, <1>2 DEF Paired
<1>6. Single(P, O2, V)
  <2>1. O2[x] # {} /\ (P[x] = Unbound => O2[x] = {m.seq}) /\ x \in V
    OBVIOUS
  <2>2. \A y \in Thread : y # x => O2[y] = O[y] /\ (y \in V <=> y \in W)
    OBVIOUS
  <2> HIDE DEF V
  <2>3. ASSUME NEW y \in Thread
        PROVE  /\ y \in V => O2[y] # {}
               /\ P[y] = Unbound /\ O2[y] # {} => y \in V /\ \E s : O2[y] = {s}
    <3>1. CASE y = x
      BY <2>1, <3>1
    <3>2. CASE y # x
      BY <1>1, <2>2, <3>2 DEF Single
    <3> QED
      BY <3>1, <3>2
  <2> QED
    BY <2>3 DEF Single
<1>7. Turns(P, V, N)
  <2>1. ASSUME NEW z \in Thread, z \notin V, P[z] \in Thread
        PROVE  P[z] \in V /\ \A n \in N : Key(n) # P[z]
    <3>1. P[z] \in W /\ \A n \in M : Key(n) # P[z]
      BY <1>1, <2>1 DEF Turns
    <3>2. Key(m) # P[z]
      BY <1>0, <1>2, <1>3, <2>1
    <3> QED
      BY <3>1, <3>2
  <2>2. ASSUME NEW n \in M
        PROVE  /\ Key(n) \in V /\ Key(n) # Key(m)
               /\ P[Key(n)] \in Thread => P[Key(n)] \in V /\ \A k \in N : Key(k) # P[Key(n)]
    <3>1. Key(n) \in W /\ Key(n) \in Thread /\ Key(n) # x
      BY <1>1, <1>2 DEF Shapes
    <3>2. P[Key(n)] \in Thread => P[Key(n)] \in W /\ \A k \in M : Key(k) # P[Key(n)]
      BY <1>1 DEF Turns
    <3>3. Key(n) # Key(m)
      BY <1>2, <1>3, <3>1
    <3>4. P[Key(n)] \in Thread => Key(m) # P[Key(n)]
      BY <1>0, <1>2, <1>3, <3>1
    <3> QED
      BY <3>1, <3>2, <3>3, <3>4
  <2>3. /\ Key(m) \in V
        /\ P[Key(m)] \in Thread => P[Key(m)] \in V /\ \A k \in N : Key(k) # P[Key(m)]
    <3>1. CASE P[x] = Unbound
      BY <1>0, <1>3, <3>1
    <3>2. CASE P[x] # Unbound
      <4>1. Key(m) = P[x] /\ P[x] \in W /\ P[P[x]] = x /\ P[x] # x
        BY <1>2, <1>3, <3>2
      <4>2. \A n \in M : Key(n) # x
        BY <1>2
      <4> QED
        BY <4>1, <4>2
    <3> QED
      BY <3>1, <3>2
  <2>4. \A n, k \in N : Key(n) = Key(k) => n = k
    BY <1>1, <2>2 DEF Turns
  <2> QED
    BY <2>1, <2>2, <2>3, <2>4 DEF Turns
<1>8. Open(P, H, O2, N)
  <2> SUFFICES ASSUME NEW y \in Thread, P[y] \in Thread, NEW s \in O2[y]
               PROVE  s \in H[P[y]] \/ \E n \in N : n.seq = s /\ Key(n) \in {y, P[y]}
    BY DEF Open
  <2>1. CASE s \in O[y]
    BY <1>1, <2>1 DEF Open
  <2>2. CASE y = x /\ s = m.seq
    BY <1>0, <1>3, <2>2
  <2> QED
    BY <2>1, <2>2
<1>9. \A n \in M : Key(n) # x
  BY <1>2
<1>10. Asked(P, H, O2, N)
  <2>1. ASSUME NEW n \in M, n.type # "reply"
        PROVE  /\ P[n.from] = n.to /\ n.seq \in O2[n.from]
               /\ n.to \in Thread => \A s \in H[n.to] \cup O2[n.to] : s < n.seq
    <3>1. /\ P[n.from] = n.to /\ n.seq \in O[n.from] /\ n.from \in Thread
          /\ n.to \in Thread => \A s \in H[n.to] \cup O[n.to] : s < n.seq
      BY <1>1, <2>1 DEF Asked, Shapes
    <3>2. n.to # x
      BY <1>0, <1>9 DEF Key
    <3> QED
      BY <3>1, <3>2
  <2>2. m.to \in Thread => m.to # x
    BY <1>2
  <2> QED
    BY <2>1, <2>2 DEF Asked
<1>11. Answered(P, H, O2, N)
  <2>1. ASSUME NEW n \in M, n.type = "reply"
        PROVE  /\ n.to \in Thread /\ n.seq \in O2[n.to] /\ \A s \in O2[n.to] : s <= n.seq
               /\ P[n.to] \in Thread => n.from = P[n.to] /\ n.seq \notin H[P[n.to]]
    <3>1. /\ n.to \in Thread /\ n.seq \in O[n.to] /\ \A s \in O[n.to] : s <= n.seq
          /\ P[n.to] \in Thread => n.from = P[n.to] /\ n.seq \notin H[P[n.to]]
      BY <1>1, <2>1 DEF Answered
    <3>2. n.to # x
      BY <1>0, <1>9, <3>1 DEF Key
    <3> QED
      BY <3>1, <3>2
  <2> QED
    BY <2>1 DEF Answered
<1> QED
  BY <1>1, <1>4, <1>5, <1>6, <1>7, <1>8, <1>10, <1>11 DEF Core

(* a thread that waits is given a request of the one it talks to *)
LEMMA CoreServe ==
    ASSUME NEW P, NEW H, NEW O, NEW R, NEW W, NEW M, Core(P, H, O, R, W, M),
           NEW y \in Thread, NEW m \in M, m.type # "reply", m.to = y, R[y] = m.from,
           NEW H2, \A z \in Thread : H2[z] = IF z = y THEN H[y] \cup {m.seq} ELSE H[z]
    PROVE  Core(P, H2, O, R, W \ {y}, M \ {m})
<1> DEFINE x == m.from
           V == W \ {y}
           N == M \ {m}
<1>0. Unbound \notin Thread
  BY BoundServingAssumption
<1>1. /\ Shapes(P, H, O, W, M) /\ Paired(P, H, O) /\ Single(P, O, W) /\ Turns(P, W, M)
      /\ Open(P, H, O, M) /\ Asked(P, H, O, M) /\ Answered(P, H, O, M) /\ Remotes(P, H, R)
  BY DEF Core
<1>2. /\ \A z \in Thread : P[z] \in Thread => P[z] # z /\ P[P[z]] = z
      /\ x \in Thread /\ P[x] = y /\ m.seq \in O[x] /\ Key(m) = y /\ m.seq \in Nat
  BY <1>0, <1>1 DEF Shapes, Paired, Asked, Key
<1>3. P[y] = x /\ x # y
  BY <1>2
<1>4. x \in W /\ \A n \in M : Key(n) # x
  BY <1>1, <1>2, <1>3 DEF Turns
<1>5. \A n \in N : Key(n) # y
  BY <1>1, <1>2 DEF Turns
<1> HIDE DEF x
<1>6. Shapes(P, H2, O, V, N)
  BY <1>1, <1>2 DEF Shapes
<1>7. Paired(P, H2, O)
  <2>1. ASSUME NEW z \in Thread, P[z] \in Thread
        PROVE  P[z] # z /\ P[P[z]] = z /\ (H2[z] # {} \/ H2[P[z]] # {})
    BY <1>1, <2>1 DEF Paired
  <2>2. ASSUME NEW z \in Thread, H2[z] # {} PROVE P[z] \in Thread /\ H2[z] \subseteq O[P[z]]
    <3>1. CASE z = y
      BY <1>1, <1>2, <1>3, <3>1 DEF Paired
    <3>2. CASE z # y
      BY <1>1, <2>2, <3>2 DEF Paired
    <3> QED
      BY <3>1, <3>2
  <2> QED
    BY <2>1, <2>2 DEF Paired
<1>8. Single(P, O, V)
  <2>1. P[y] # Unbound
    BY <1>0, <1>2, <1>3
  <2> QED
    BY <1>1, <2>1 DEF Single
<1>9. Turns(P, V, N)
  <2>1. ASSUME NEW z \in Thread, z \notin V, P[z] \in Thread
        PROVE  P[z] \in V /\ \A n \in N : Key(n) # P[z]
    <3>1. CASE z = y
      BY <1>3, <1>4, <3>1
    <3>2. CASE z # y
      <4>1. P[z] \in W /\ \A n \in M : Key(n) # P[z]
        BY <1>1, <2>1, <3>2 DEF Turns
      <4>2. P[z] # y
        BY <1>2, <1>3, <1>4, <2>1, <3>2
      <4> QED
        BY <4>1, <4>2
    <3> QED
      BY <3>1, <3>2
  <2>2. ASSUME NEW n \in N
        PROVE  /\ Key(n) \in V
               /\ P[Key(n)] \in Thread => P[Key(n)] \in V /\ \A k \in N : Key(k) # P[Key(n)]
    <3>1. /\ Key(n) \in W
          /\ P[Key(n)] \in Thread => P[Key(n)] \in W /\ \A k \in M : Key(k) # P[Key(n)]
      BY <1>1 DEF Turns
    <3> QED
      BY <1>2, <1>5, <3>1
  <2>3. \A n, k \in N : Key(n) = Key(k) => n = k
    BY <1>1 DEF Turns
  <2> QED
    BY <2>1, <2>2, <2>3 DEF Turns
<1>10. Open(P, H2, O, N)
  <2> SUFFICES ASSUME NEW z \in Thread, P[z] \in Thread, NEW s \in O[z]
               PROVE  s \in H2[P[z]] \/ \E n \in N : n.seq = s /\ Key(n) \in {z, P[z]}
    BY DEF Open
  <2>1. CASE s \in H[P[z]]
    BY <2>1
  <2>2. ASSUME NEW n \in M, n.seq = s, Key(n) \in {z, P[z]}
        PROVE  s \in H2[P[z]] \/ \E k \in N : k.seq = s /\ Key(k) \in {z, P[z]}
    <3>1. CASE n = m
      <4>1. z # y
        BY <1>1, <1>2, <1>3, <2>2, <3>1 DEF Shapes
      <4>2. P[z] = y
        BY <1>2, <2>2, <3>1, <4>1
      <4> QED
        BY <2>2, <3>1, <4>2
    <3>2. CASE n # m
      BY <2>2, <3>2
    <3> QED
      BY <3>1, <3>2
  <2> QED
    BY <1>1, <2>1, <2>2 DEF Open
<1>11. Asked(P, H2, O, N)
  <2> SUFFICES ASSUME NEW n \in N, n.type # "reply"
               PROVE  /\ P[n.from] = n.to /\ n.seq \in O[n.from]
                      /\ n.to \in Thread => \A s \in H2[n.to] \cup O[n.to] : s < n.seq
    BY DEF Asked
  <2>1. n.to # y
    BY <1>0, <1>5 DEF Key
  <2> QED
    BY <1>1, <2>1 DEF Asked
<1>12. Answered(P, H2, O, N)
  <2> SUFFICES ASSUME NEW n \in N, n.type = "reply"
               PROVE  /\ n.to \in Thread /\ n.seq \in O[n.to] /\ \A s \in O[n.to] : s <= n.seq
                      /\ P[n.to] \in Thread => n.from = P[n.to] /\ n.seq \notin H2[P[n.to]]
    BY DEF Answered
  <2>1. /\ n.to \in Thread /\ n.seq \in O[n.to] /\ \A s \in O[n.to] : s <= n.seq
        /\ P[n.to] \in Thread => n.from = P[n.to] /\ n.seq \notin H[P[n.to]]
    BY <1>1 DEF Answered
  <2>2. n.to # x
    BY <1>0, <1>4, <2>1 DEF Key
  <2>3. P[n.to] # y
    BY <1>2, <1>3, <2>1, <2>2
  <2> QED
    BY <2>1, <2>3
<1>13. Remotes(P, H2, R)
  BY <1>1, <1>3 DEF Remotes, x
<1> QED
  BY <1>6, <1>7, <1>8, <1>9, <1>10, <1>11, <1>12, <1>13 DEF Core

(* a thread that is not occupied is given a request for nobody in particular *)
LEMMA CoreServeNew ==
    ASSUME NEW P, NEW H, NEW O, NEW R, NEW W, NEW M, Core(P, H, O, R, W, M),
           NEW y \in Thread, H[y] = {}, O[y] = {},
           NEW m \in M, m.to = Unbound, R[y] = m.from,
           NEW H2, \A z \in Thread : H2[z] = IF z = y THEN {m.seq} ELSE H[z]
    PROVE  Core([P EXCEPT ![y] = m.from, ![m.from] = y], H2, O, R, W \ {y}, M \ {m})
<1> DEFINE x == m.from
           Q == [P EXCEPT ![y] = m.from, ![m.from] = y]
           V == W \ {y}
           N == M \ {m}
<1>0. Unbound \notin Thread
  BY BoundServingAssumption
<1>1. /\ Shapes(P, H, O, W, M) /\ Paired(P, H, O) /\ Single(P, O, W) /\ Turns(P, W, M)
      /\ Open(P, H, O, M) /\ Asked(P, H, O, M) /\ Answered(P, H, O, M) /\ Remotes(P, H, R)
  BY DEF Core
<1>2. /\ \A z \in Thread : P[z] \in Thread \cup {Unbound}
      /\ \A z \in Thread : P[z] \in Thread => P[z] # z /\ P[P[z]] = z
      /\ x \in Thread /\ Key(m) = x /\ m.seq \in Nat
  BY <1>1 DEF Shapes, Paired, Key
<1>3. m.type # "reply" /\ P[x] = Unbound /\ m.seq \in O[x] /\ x # y
  BY <1>0, <1>1 DEF Asked, Answered
<1>4. O[x] = {m.seq} /\ x \in W
  BY <1>1, <1>2, <1>3 DEF Single
<1>5. P[y] = Unbound
  BY <1>1, <1>2 DEF Paired
<1>6. /\ Q \in [Thread -> Thread \cup {Unbound}] /\ Q[x] = y /\ Q[y] = x
      /\ \A z \in Thread \ {x, y} : Q[z] = P[z] /\ P[z] # x /\ P[z] # y
  <2>1. P \in [Thread -> Thread \cup {Unbound}]
    BY <1>1 DEF Shapes
  <2>2. /\ Q \in [Thread -> Thread \cup {Unbound}] /\ Q[x] = y /\ Q[y] = x
        /\ \A z \in Thread \ {x, y} : Q[z] = P[z]
    BY <1>2, <1>3, <2>1
  <2>3. \A z \in Thread \ {x, y} : P[z] # x /\ P[z] # y
    BY <1>0, <1>2, <1>3, <1>5
  <2> QED
    BY <2>2, <2>3
<1>7. y \notin W /\ V = W
  BY <1>1 DEF Single
<1>8. \A n \in N : Key(n) # x /\ Key(n) # y /\ Key(n) \in W
  BY <1>1, <1>2, <1>7 DEF Turns
<1> HIDE DEF x, Q, V
<1>9. Shapes(Q, H2, O, V, N)
  BY <1>1, <1>2, <1>6, <1>7 DEF Shapes
<1>10. Paired(Q, H2, O)
  <2>1. ASSUME NEW z \in Thread, Q[z] \in Thread
        PROVE  Q[z] # z /\ Q[Q[z]] = z /\ (H2[z] # {} \/ H2[Q[z]] # {})
    <3>1. CASE z \in {x, y}
      BY <1>2, <1>3, <1>6, <3>1
    <3>2. CASE z \notin {x, y}
      BY <1>1, <1>6, <2>1, <3>2 DEF Paired
    <3> QED
      BY <3>1, <3>2
  <2>2. ASSUME NEW z \in Thread, H2[z] # {} PROVE Q[z] \in Thread /\ H2[z] \subseteq O[Q[z]]
    <3>1. CASE z = y
      BY <1>2, <1>3, <1>6, <3>1
    <3>2. CASE z # y
      <4>1. P[z] \in Thread /\ H[z] \subseteq O[P[z]] /\ H2[z] = H[z]
        BY <1>1, <2>2, <3>2 DEF Paired
      <4>2. z # x
        BY <1>0, <1>3, <4>1
      <4> QED
        BY <1>6, <3>2, <4>1, <4>2
    <3> QED
      BY <3>1, <3>2
  <2> QED
    BY <2>1, <2>2 DEF Paired
<1>11. Single(Q, O, V)
  <2> SUFFICES ASSUME NEW z \in Thread
               PROVE  /\ z \in W => O[z] # {}
                      /\ Q[z] = Unbound /\ O[z] # {} => z \in W /\ \E s : O[z] = {s}
    BY <1>7 DEF Single
  <2>1. Q[z] = Unbound => P[z] = Unbound
    BY <1>3, <1>5, <1>6
  <2> QED
    BY <1>1, <2>1 DEF Single
<1>12. Turns(Q, V, N)
  <2>1. ASSUME NEW z \in Thread, z \notin W, Q[z] \in Thread
        PROVE  Q[z] \in W /\ \A n \in N : Key(n) # Q[z]
    <3>1. CASE z = y
      BY <1>4, <1>6, <1>8, <3>1
    <3>2. CASE z # y
      <4>1. z # x /\ Q[z] = P[z]
        BY <1>4, <1>6, <2>1, <3>2
      <4> QED
        BY <1>1, <2>1, <4>1 DEF Turns
    <3> QED
      BY <3>1, <3>2
  <2>2. ASSUME NEW n \in N
        PROVE  /\ Key(n) \in W
               /\ Q[Key(n)] \in Thread => Q[Key(n)] \in W /\ \A k \in N : Key(k) # Q[Key(n)]
    <3>1. Key(n) \in Thread \ {x, y}
      BY <1>1, <1>8 DEF Shapes
    <3> QED
      BY <1>1, <1>6, <1>8, <3>1 DEF Turns
  <2>3. \A n, k \in N : Key(n) = Key(k) => n = k
    BY <1>1 DEF Turns
  <2> QED
    BY <1>7, <2>1, <2>2, <2>3 DEF Turns
<1>13. Open(Q, H2, O, N)
  <2> SUFFICES ASSUME NEW z \in Thread, Q[z] \in Thread, NEW s \in O[z]
               PROVE  s \in H2[Q[z]] \/ \E n \in N : n.seq = s /\ Key(n) \in {z, Q[z]}
    BY DEF Open
  <2>1. CASE z = x
    BY <1>4, <1>6, <2>1
  <2>2. CASE z # x
    <3>1. z # y /\ Q[z] = P[z] /\ P[z] # x /\ P[z] # y
      BY <1>6, <2>2
    <3>2. s \in H[P[z]] \/ \E n \in M : n.seq = s /\ Key(n) \in {z, P[z]}
      BY <1>1, <3>1 DEF Open
    <3>3. m.seq = s => Key(m) \notin {z, P[z]}
      BY <1>2, <2>2, <3>1
    <3> QED
      BY <3>1, <3>2, <3>3
  <2> QED
    BY <2>1, <2>2
<1>14. Asked(Q, H2, O, N)
  <2> SUFFICES ASSUME NEW n \in N, n.type # "reply"
               PROVE  /\ Q[n.from] = n.to /\ n.seq \in O[n.from]
                      /\ n.to \in Thread => \A s \in H2[n.to] \cup O[n.to] : s < n.seq
    BY DEF Asked
  <2>1. /\ P[n.from] = n.to /\ n.seq \in O[n.from] /\ n.from \in Thread
        /\ n.to \in Thread => \A s \in H[n.to] \cup O[n.to] : s < n.seq
    BY <1>1 DEF Asked, Shapes
  <2>2. n.from # y
    BY <2>1
  <2>3. n.from # x
    BY <1>3, <1>8, <2>1 DEF Key
  <2>4. n.to # y
    BY <1>0, <1>8 DEF Key
  <2> QED
    BY <1>6, <2>1, <2>2, <2>3, <2>4
<1>15. Answered(Q, H2, O, N)
  <2> SUFFICES ASSUME NEW n \in N, n.type = "reply"
               PROVE  /\ n.to \in Thread /\ n.seq \in O[n.to] /\ \A s \in O[n.to] : s <= n.seq
                      /\ Q[n.to] \in Thread => n.from = Q[n.to] /\ n.seq \notin H2[Q[n.to]]
    BY DEF Answered
  <2>1. /\ n.to \in Thread /\ n.seq \in O[n.to] /\ \A s \in O[n.to] : s <= n.seq
        /\ P[n.to] \in Thread => n.from = P[n.to] /\ n.seq \notin H[P[n.to]]
    BY <1>1 DEF Answered
  <2>2. n.to \notin {x, y}
    BY <1>0, <1>8, <2>1 DEF Key
  <2> QED
    BY <1>6, <2>1, <2>2
<1>16. Remotes(Q, H2, R)
  <2> SUFFICES ASSUME NEW z \in Thread, H2[z] # {} PROVE R[z] = Q[z]
    BY DEF Remotes
  <2>1. CASE z = y
    BY <1>6, <2>1 DEF x
  <2>2. CASE z # y
    <3>1. H[z] # {} /\ P[z] \in Thread
      BY <1>1, <2>2 DEF Paired
    <3> QED
      BY <1>0, <1>1, <1>3, <1>6, <2>2, <3>1 DEF Remotes
  <2> QED
    BY <2>1, <2>2
<1> QED
  BY <1>9, <1>10, <1>11, <1>12, <1>13, <1>14, <1>15, <1>16 DEF Core, Q, V

(* a thread takes the answer to its last request *)
LEMMA CoreTake ==
    ASSUME NEW P, NEW H, NEW O, NEW R, NEW W, NEW M, Core(P, H, O, R, W, M),
           NEW m \in M, m.type = "reply", NEW y \in Thread, m.to = y,
           NEW O2, \A z \in Thread : O2[z] = IF z = y THEN O[y] \ {m.seq} ELSE O[z]
    PROVE  Core(P, H, O2, R, W \ {y}, M \ {m})
<1> DEFINE V == W \ {y}
           N == M \ {m}
<1>0. Unbound \notin Thread
  BY BoundServingAssumption
<1>1. /\ Shapes(P, H, O, W, M) /\ Paired(P, H, O) /\ Single(P, O, W) /\ Turns(P, W, M)
      /\ Open(P, H, O, M) /\ Asked(P, H, O, M) /\ Answered(P, H, O, M) /\ Remotes(P, H, R)
  BY DEF Core
<1>2. /\ \A z \in Thread : P[z] \in Thread => P[z] # z /\ P[P[z]] = z
      /\ \A z, v \in Thread : \A s : s \in O[z] /\ s \in O[v] => z = v
      /\ Key(m) = y /\ m.seq \in O[y]
      /\ P[y] \in Thread => m.seq \notin H[P[y]]
  BY <1>0, <1>1 DEF Shapes, Paired, Answered, Key
<1>3. P[y] \in Thread => P[y] \in W /\ \A n \in M : Key(n) # P[y]
  BY <1>1, <1>2 DEF Turns
<1>4. \A n \in N : Key(n) # y
  BY <1>1, <1>2 DEF Turns
<1>5. Shapes(P, H, O2, V, N)
  <2>1. \A z \in Thread : O2[z] \subseteq O[z]
    OBVIOUS
  <2> QED
    BY <1>1, <2>1 DEF Shapes
<1>6. Paired(P, H, O2)
  <2>1. ASSUME NEW z \in Thread, H[z] # {} PROVE P[z] \in Thread /\ H[z] \subseteq O2[P[z]]
    <3>1. P[z] \in Thread /\ H[z] \subseteq O[P[z]]
      BY <1>1, <2>1 DEF Paired
    <3>2. P[z] = y => m.seq \notin H[z]
      BY <1>2, <3>1
    <3> QED
      BY <3>1, <3>2
  <2> QED
    BY <1>1, <2>1 DEF Paired
<1>7. Single(P, O2, V)
  <2>1. P[y] = Unbound => O2[y] = {}
    BY <1>1, <1>2 DEF Single
  <2>2. ASSUME NEW z \in Thread, z # y
        PROVE  /\ z \in V => O2[z] # {}
               /\ P[z] = Unbound /\ O2[z] # {} => z \in V /\ \E s : O2[z] = {s}
    BY <1>1, <2>2 DEF Single
  <2> QED
    BY <2>1, <2>2 DEF Single
<1>8. Turns(P, V, N)
  <2>1. ASSUME NEW z \in Thread, z \notin V, P[z] \in Thread
        PROVE  P[z] \in V /\ \A n \in N : Key(n) # P[z]
    <3>1. CASE z = y
      BY <1>2, <1>3, <2>1, <3>1
    <3>2. CASE z # y
      <4>1. P[z] \in W /\ \A n \in M : Key(n) # P[z]
        BY <1>1, <2>1, <3>2 DEF Turns
      <4>2. P[z] # y
        BY <1>2, <1>3, <2>1, <3>2
      <4> QED
        BY <4>1, <4>2
    <3> QED
      BY <3>1, <3>2
  <2>2. ASSUME NEW n \in N
        PROVE  /\ Key(n) \in V
               /\ P[Key(n)] \in Thread => P[Key(n)] \in V /\ \A k \in N : Key(k) # P[Key(n)]
    <3>1. /\ Key(n) \in W
          /\ P[Key(n)] \in Thread => P[Key(n)] \in W /\ \A k \in M : Key(k) # P[Key(n)]
      BY <1>1 DEF Turns
    <3> QED
      BY <1>2, <1>4, <3>1
  <2>3. \A n, k \in N : Key(n) = Key(k) => n = k
    BY <1>1 DEF Turns
  <2> QED
    BY <2>1, <2>2, <2>3 DEF Turns
<1>9. Open(P, H, O2, N)
  <2> SUFFICES ASSUME NEW z \in Thread, P[z] \in Thread, NEW s \in O2[z]
               PROVE  s \in H[P[z]] \/ \E n \in N : n.seq = s /\ Key(n) \in {z, P[z]}
    BY DEF Open
  <2>1. s \in O[z] /\ (z = y => s # m.seq)
    OBVIOUS
  <2>2. s # m.seq
    BY <1>2, <2>1
  <2> QED
    BY <1>1, <2>1, <2>2 DEF Open
<1>10. Asked(P, H, O2, N)
  <2> SUFFICES ASSUME NEW n \in N, n.type # "reply"
               PROVE  /\ P[n.from] = n.to /\ n.seq \in O2[n.from]
                      /\ n.to \in Thread => \A s \in H[n.to] \cup O2[n.to] : s < n.seq
    BY DEF Asked
  <2>1. /\ P[n.from] = n.to /\ n.seq \in O[n.from] /\ n.from \in Thread
        /\ n.to \in Thread \cup {Unbound}
        /\ n.to \in Thread => \A s \in H[n.to] \cup O[n.to] : s < n.seq
    BY <1>1 DEF Asked, Shapes
  <2>2. n.from # y
    BY <1>3, <1>4, <2>1 DEF Key
  <2> QED
    BY <2>1, <2>2
<1>11. Answered(P, H, O2, N)
  <2> SUFFICES ASSUME NEW n \in N, n.type = "reply"
               PROVE  /\ n.to \in Thread /\ n.seq \in O2[n.to] /\ \A s \in O2[n.to] : s <= n.seq
                      /\ P[n.to] \in Thread => n.from = P[n.to] /\ n.seq \notin H[P[n.to]]
    BY DEF Answered
  <2>1. /\ n.to \in Thread /\ n.seq \in O[n.to] /\ \A s \in O[n.to] : s <= n.seq
        /\ P[n.to] \in Thread => n.from = P[n.to] /\ n.seq \notin H[P[n.to]]
    BY <1>1 DEF Answered
  <2>2. n.to # y
    BY <1>0, <1>4, <2>1 DEF Key
  <2> QED
    BY <2>1, <2>2
<1> QED
  BY <1>1, <1>5, <1>6, <1>7, <1>8, <1>9, <1>10, <1>11 DEF Core

(* what is left of a conversation once a thread has answered the request it took last *)
LEMMA CoreAnswers ==
    ASSUME NEW P, NEW H, NEW O, NEW R, NEW W, NEW M, Core(P, H, O, R, W, M),
           NEW x \in Thread, x \notin W, NEW s \in H[x], \A r \in H[x] : r <= s
    PROVE  /\ P[x] \in Thread /\ P[P[x]] = x /\ P[x] # x /\ P[x] \in W
           /\ s \in O[P[x]] /\ O[P[x]] \subseteq H[x]
           /\ \A n \in M : Key(n) # x /\ Key(n) # P[x]
           /\ H[P[x]] = {} => O[x] = {}
<1>1. /\ Shapes(P, H, O, W, M) /\ Paired(P, H, O) /\ Turns(P, W, M) /\ Open(P, H, O, M)
  BY DEF Core
<1>2. P[x] \in Thread /\ P[P[x]] = x /\ P[x] # x /\ s \in O[P[x]]
  BY <1>1 DEF Paired
<1>3. P[x] \in W /\ \A n \in M : Key(n) # x /\ Key(n) # P[x]
  BY <1>1, <1>2 DEF Turns
<1>4. \A r \in O[P[x]] : r \in H[x]
  BY <1>1, <1>2, <1>3 DEF Open
<1>5. \A r \in O[x] : r \in H[P[x]]
  BY <1>1, <1>2, <1>3 DEF Open
<1> QED
  BY <1>2, <1>3, <1>4, <1>5

(* a thread answers, and there is more between the two *)
LEMMA CoreAnswer ==
    ASSUME NEW P, NEW H, NEW O, NEW R, NEW W, NEW M, Core(P, H, O, R, W, M),
           NEW x \in Thread, x \notin W, O[x] # {},
           NEW m, Answers(m, x, P[x]), m.seq \in H[x], \A r \in H[x] : r <= m.seq,
           NEW H2, Changed(H2, H, x, H[x] \ {m.seq})
    PROVE  Core(P, H2, O, R, W \cup {x}, M \cup {m})
<1> USE DEF Answers, Changed
<1> DEFINE y == P[x]
           V == W \cup {x}
           N == M \cup {m}
<1>0. Unbound \notin Thread
  BY BoundServingAssumption
<1>1. /\ Shapes(P, H, O, W, M) /\ Paired(P, H, O) /\ Single(P, O, W) /\ Turns(P, W, M)
      /\ Open(P, H, O, M) /\ Asked(P, H, O, M) /\ Answered(P, H, O, M) /\ Remotes(P, H, R)
  BY DEF Core
<1>2. /\ y \in Thread /\ P[y] = x /\ y # x /\ y \in W
      /\ m.seq \in O[y] /\ O[y] \subseteq H[x]
      /\ \A n \in M : Key(n) # x /\ Key(n) # y
      /\ H[y] # {}
  BY CoreAnswers
<1>3. Key(m) = y /\ P[y] = x
  BY <1>0, <1>2 DEF Key
<1>4. \A z \in Thread : P[z] \in Thread => P[z] # z /\ P[P[z]] = z
  BY <1>1 DEF Paired
<1>5. \A z \in Thread : H2[z] \subseteq H[z]
  OBVIOUS
<1>6. Shapes(P, H2, O, V, N)
  <2>1. H[x] \subseteq Nat
    BY <1>1 DEF Shapes
  <2> QED
    BY <1>1, <1>2, <1>5, <2>1 DEF Shapes
<1>7. Paired(P, H2, O)
  <2>1. ASSUME NEW z \in Thread, P[z] \in Thread
        PROVE  P[z] # z /\ P[P[z]] = z /\ (H2[z] # {} \/ H2[P[z]] # {})
    <3>1. z = x \/ P[z] = x => H2[z] # {} \/ H2[P[z]] # {}
      BY <1>2, <1>4, <2>1
    <3> QED
      BY <1>1, <2>1, <3>1 DEF Paired
  <2> QED
    BY <1>1, <1>5, <2>1 DEF Paired
<1>8. Single(P, O, V)
  BY <1>0, <1>1, <1>2 DEF Single
<1>9. Turns(P, V, N)
  <2>1. ASSUME NEW z \in Thread, z \notin V, P[z] \in Thread
        PROVE  P[z] \in V /\ \A n \in N : Key(n) # P[z]
    <3>1. P[z] \in W /\ \A n \in M : Key(n) # P[z]
      BY <1>1, <2>1 DEF Turns
    <3>2. P[z] # y
      BY <1>2, <1>4, <2>1
    <3> QED
      BY <1>3, <3>1, <3>2
  <2>2. ASSUME NEW n \in M
        PROVE  /\ Key(n) \in V
               /\ P[Key(n)] \in Thread => P[Key(n)] \in V /\ \A k \in N : Key(k) # P[Key(n)]
    <3>1. /\ Key(n) \in W /\ Key(n) \in Thread
          /\ P[Key(n)] \in Thread => P[Key(n)] \in W /\ \A k \in M : Key(k) # P[Key(n)]
      BY <1>1 DEF Turns, Shapes
    <3>2. P[Key(n)] # y
      BY <1>2, <1>4, <3>1
    <3> QED
      BY <1>3, <3>1, <3>2
  <2>3. /\ Key(m) \in V
        /\ P[Key(m)] \in Thread => P[Key(m)] \in V /\ \A k \in N : Key(k) # P[Key(m)]
    BY <1>2, <1>3
  <2>4. \A n, k \in N : Key(n) = Key(k) => n = k
    BY <1>1, <1>2, <1>3 DEF Turns
  <2> QED
    BY <2>1, <2>2, <2>3, <2>4 DEF Turns
<1>10. Open(P, H2, O, N)
  <2> SUFFICES ASSUME NEW z \in Thread, P[z] \in Thread, NEW s \in O[z]
               PROVE  s \in H2[P[z]] \/ \E n \in N : n.seq = s /\ Key(n) \in {z, P[z]}
    BY DEF Open
  <2>1. s \in H[P[z]] \/ \E n \in M : n.seq = s /\ Key(n) \in {z, P[z]}
    BY <1>1 DEF Open
  <2>2. CASE s \in H[P[z]] /\ P[z] = x /\ s = m.seq
    <3>1. z = y
      BY <1>2, <1>4, <2>2
    <3> QED
      BY <1>3, <2>2, <3>1
  <2>3. CASE s \in H[P[z]] /\ ~(P[z] = x /\ s = m.seq)
    BY <2>3
  <2> QED
    BY <2>1, <2>2, <2>3
<1>11. Asked(P, H2, O, N)
  <2>1. ASSUME NEW n \in M, n.type # "reply"
        PROVE  /\ P[n.from] = n.to /\ n.seq \in O[n.from]
               /\ n.to \in Thread => \A s \in H2[n.to] \cup O[n.to] : s < n.seq
    BY <1>1, <1>5, <2>1 DEF Asked
  <2> QED
    BY <2>1 DEF Asked
<1>12. Answered(P, H2, O, N)
  <2>1. ASSUME NEW n \in M, n.type = "reply"
        PROVE  /\ n.to \in Thread /\ n.seq \in O[n.to] /\ \A s \in O[n.to] : s <= n.seq
               /\ P[n.to] \in Thread => n.from = P[n.to] /\ n.seq \notin H2[P[n.to]]
    BY <1>1, <1>5, <2>1 DEF Answered
  <2>2. \A s \in O[y] : s <= m.seq
    BY <1>2
  <2> QED
    BY <1>2, <2>1, <2>2 DEF Answered
<1>13. Remotes(P, H2, R)
  BY <1>1, <1>5 DEF Remotes
<1> QED
  BY <1>6, <1>7, <1>8, <1>9, <1>10, <1>11, <1>12, <1>13 DEF Core

(* a thread answers, and that was all between the two *)
LEMMA CoreAnswerLast ==
    ASSUME NEW P, NEW H, NEW O, NEW R, NEW W, NEW M, Core(P, H, O, R, W, M),
           NEW x \in Thread, x \notin W, H[P[x]] = {},
           NEW m, m.type = "reply", m.from = x, m.to = P[x], H[x] = {m.seq},
           NEW H2, \A z \in Thread : H2[z] = IF z = x THEN {} ELSE H[z]
    PROVE  Core([P EXCEPT ![x] = Unbound, ![P[x]] = Unbound], H2, O, R, W, M \cup {m})
<1> DEFINE y == P[x]
           Q == [P EXCEPT ![x] = Unbound, ![P[x]] = Unbound]
           N == M \cup {m}
<1>0. Unbound \notin Thread
  BY BoundServingAssumption
<1>1. /\ Shapes(P, H, O, W, M) /\ Paired(P, H, O) /\ Single(P, O, W) /\ Turns(P, W, M)
      /\ Open(P, H, O, M) /\ Asked(P, H, O, M) /\ Answered(P, H, O, M) /\ Remotes(P, H, R)
  BY DEF Core
<1>2. /\ y \in Thread /\ P[y] = x /\ y # x /\ y \in W
      /\ m.seq \in O[y] /\ O[y] \subseteq H[x]
      /\ \A n \in M : Key(n) # x /\ Key(n) # y
      /\ O[x] = {} /\ m.seq \in Nat
  <2>1. H[x] \subseteq Nat /\ m.seq \in H[x]
    BY <1>1 DEF Shapes
  <2>2. \A r \in H[x] : r <= m.seq
    BY <2>1
  <2> QED
    BY <2>1, <2>2, CoreAnswers
<1>3. O[y] = {m.seq} /\ Key(m) = y
  BY <1>0, <1>2 DEF Key
<1>4. \A z \in Thread : P[z] \in Thread => P[z] # z /\ P[P[z]] = z
  BY <1>1 DEF Paired
<1>5. /\ Q \in [Thread -> Thread \cup {Unbound}] /\ Q[x] = Unbound /\ Q[y] = Unbound
      /\ \A z \in Thread \ {x, y} : Q[z] = P[z] /\ P[z] # x /\ P[z] # y
  <2>1. P \in [Thread -> Thread \cup {Unbound}]
    BY <1>1 DEF Shapes
  <2>2. /\ Q \in [Thread -> Thread \cup {Unbound}] /\ Q[x] = Unbound /\ Q[y] = Unbound
        /\ \A z \in Thread \ {x, y} : Q[z] = P[z]
    BY <1>2, <2>1
  <2>3. \A z \in Thread \ {x, y} : P[z] # x /\ P[z] # y
    BY <1>2, <1>4
  <2> QED
    BY <2>2, <2>3
<1>6. \A z \in Thread : H2[z] \subseteq H[z]
  OBVIOUS
<1>7. H2[x] = {} /\ H2[y] = {}
  BY <1>2
<1> HIDE DEF y, Q
<1>8. Shapes(Q, H2, O, W, N)
  BY <1>1, <1>2, <1>5, <1>6 DEF Shapes, y
<1>9. Paired(Q, H2, O)
  <2>1. ASSUME NEW z \in Thread, Q[z] \in Thread
        PROVE  Q[z] # z /\ Q[Q[z]] = z /\ (H2[z] # {} \/ H2[Q[z]] # {})
    <3>1. z \notin {x, y} /\ Q[z] = P[z] /\ P[z] \notin {x, y}
      BY <1>0, <1>5, <2>1
    <3> QED
      BY <1>1, <1>5, <2>1, <3>1 DEF Paired
  <2>2. ASSUME NEW z \in Thread, H2[z] # {} PROVE Q[z] \in Thread /\ H2[z] \subseteq O[Q[z]]
    <3>1. z \notin {x, y} /\ Q[z] = P[z]
      BY <1>5, <1>7, <2>2
    <3> QED
      BY <1>1, <1>6, <2>2, <3>1 DEF Paired
  <2> QED
    BY <2>1, <2>2 DEF Paired
<1>10. Single(Q, O, W)
  <2> SUFFICES ASSUME NEW z \in Thread
               PROVE  /\ z \in W => O[z] # {}
                      /\ Q[z] = Unbound /\ O[z] # {} => z \in W /\ \E s : O[z] = {s}
    BY DEF Single
  <2>1. CASE z \in {x, y}
    BY <1>1, <1>2, <1>3, <2>1 DEF Single
  <2>2. CASE z \notin {x, y}
    <3>1. Q[z] = P[z]
      BY <1>5, <2>2
    <3> QED
      BY <1>1, <3>1 DEF Single
  <2> QED
    BY <2>1, <2>2
<1>11. Turns(Q, W, N)
  <2>1. ASSUME NEW z \in Thread, z \notin W, Q[z] \in Thread
        PROVE  Q[z] \in W /\ \A n \in N : Key(n) # Q[z]
    <3>1. z \notin {x, y} /\ Q[z] = P[z] /\ P[z] \notin {x, y}
      BY <1>0, <1>5, <2>1
    <3> QED
      BY <1>1, <1>3, <2>1, <3>1 DEF Turns
  <2>2. ASSUME NEW n \in M
        PROVE  /\ Key(n) \in W
               /\ Q[Key(n)] \in Thread => Q[Key(n)] \in W /\ \A k \in N : Key(k) # Q[Key(n)]
    <3>1. Key(n) \in Thread \ {x, y}
      BY <1>1, <1>2 DEF Shapes, Turns
    <3> QED
      BY <1>1, <1>3, <1>5, <3>1 DEF Turns
  <2>3. Key(m) \in W /\ Q[Key(m)] \notin Thread
    BY <1>0, <1>2, <1>3, <1>5
  <2>4. \A n, k \in N : Key(n) = Key(k) => n = k
    BY <1>1, <1>2, <1>3 DEF Turns
  <2> QED
    BY <2>1, <2>2, <2>3, <2>4 DEF Turns
<1>12. Open(Q, H2, O, N)
  <2> SUFFICES ASSUME NEW z \in Thread, Q[z] \in Thread, NEW s \in O[z]
               PROVE  s \in H2[Q[z]] \/ \E n \in N : n.seq = s /\ Key(n) \in {z, Q[z]}
    BY DEF Open
  <2>1. z \notin {x, y} /\ Q[z] = P[z] /\ P[z] \notin {x, y}
    BY <1>0, <1>5
  <2>2. s \in H[P[z]] \/ \E n \in M : n.seq = s /\ Key(n) \in {z, P[z]}
    BY <1>1, <2>1 DEF Open
  <2> QED
    BY <2>1, <2>2
<1>13. Asked(Q, H2, O, N)
  <2>1. ASSUME NEW n \in M, n.type # "reply"
        PROVE  /\ Q[n.from] = n.to /\ n.seq \in O[n.from]
               /\ n.to \in Thread => \A s \in H2[n.to] \cup O[n.to] : s < n.seq
    <3>1. /\ P[n.from] = n.to /\ n.seq \in O[n.from] /\ n.from \in Thread
          /\ n.to \in Thread => \A s \in H[n.to] \cup O[n.to] : s < n.seq
      BY <1>1, <2>1 DEF Asked, Shapes
    <3>2. n.from # x
      BY <1>2, <3>1
    <3>3. n.from # y
      BY <1>0, <1>2, <3>1 DEF Key
    <3> QED
      BY <1>5, <1>6, <3>1, <3>2, <3>3
  <2> QED
    BY <2>1 DEF Asked
<1>14. Answered(Q, H2, O, N)
  <2>1. ASSUME NEW n \in M, n.type = "reply"
        PROVE  /\ n.to \in Thread /\ n.seq \in O[n.to] /\ \A s \in O[n.to] : s <= n.seq
               /\ Q[n.to] \in Thread => n.from = Q[n.to] /\ n.seq \notin H2[Q[n.to]]
    <3>1. /\ n.to \in Thread /\ n.seq \in O[n.to] /\ \A s \in O[n.to] : s <= n.seq
          /\ P[n.to] \in Thread => n.from = P[n.to] /\ n.seq \notin H[P[n.to]]
      BY <1>1, <2>1 DEF Answered
    <3>2. Q[n.to] \in Thread => Q[n.to] = P[n.to]
      BY <1>0, <1>5, <3>1
    <3> QED
      BY <1>6, <3>1, <3>2
  <2>2. /\ m.to \in Thread /\ m.seq \in O[m.to] /\ \A s \in O[m.to] : s <= m.seq
        /\ Q[m.to] \notin Thread
    BY <1>0, <1>2, <1>3, <1>5 DEF y
  <2> QED
    BY <2>1, <2>2 DEF Answered
<1>15. Remotes(Q, H2, R)
  <2> SUFFICES ASSUME NEW z \in Thread, H2[z] # {} PROVE R[z] = Q[z]
    BY DEF Remotes
  <2>1. z \notin {x, y} /\ H[z] # {}
    BY <1>6, <1>7
  <2> QED
    BY <1>1, <1>5, <2>1 DEF Remotes
<1> QED
  BY <1>8, <1>9, <1>10, <1>11, <1>12, <1>13, <1>14, <1>15 DEF Core, Q, y

(* a request that is for nobody in particular is dropped *)
LEMMA CoreDrop ==
    ASSUME NEW P, NEW H, NEW O, NEW R, NEW W, NEW M, Core(P, H, O, R, W, M),
           NEW m \in M, m.to = Unbound
    PROVE  Core(P, H, O, R, W, M \ {m})
<1> DEFINE N == M \ {m}
<1>0. Unbound \notin Thread
  BY BoundServingAssumption
<1>1. /\ Shapes(P, H, O, W, M) /\ Paired(P, H, O) /\ Single(P, O, W) /\ Turns(P, W, M)
      /\ Open(P, H, O, M) /\ Asked(P, H, O, M) /\ Answered(P, H, O, M) /\ Remotes(P, H, R)
  BY DEF Core
<1>2. P[m.from] = Unbound /\ Key(m) = m.from /\ m.from \in Thread
  BY <1>0, <1>1 DEF Asked, Answered, Key, Shapes
<1>3. Open(P, H, O, N)
  <2> SUFFICES ASSUME NEW z \in Thread, P[z] \in Thread, NEW s \in O[z]
               PROVE  s \in H[P[z]] \/ \E n \in N : n.seq = s /\ Key(n) \in {z, P[z]}
    BY DEF Open
  <2>1. s \in H[P[z]] \/ \E n \in M : n.seq = s /\ Key(n) \in {z, P[z]}
    BY <1>1 DEF Open
  <2>2. Key(m) \notin {z, P[z]}
    BY <1>0, <1>1, <1>2 DEF Paired
  <2> QED
    BY <2>1, <2>2
<1>4. Shapes(P, H, O, W, N) /\ Turns(P, W, N) /\ Asked(P, H, O, N) /\ Answered(P, H, O, N)
  BY <1>1 DEF Shapes, Turns, Asked, Answered
<1> QED
  BY <1>1, <1>3, <1>4 DEF Core

(* a thread takes up a message, and is bound to whom it is from *)
LEMMA CoreBind ==
    ASSUME NEW P, NEW H, NEW O, NEW R, NEW W, NEW M, Core(P, H, O, R, W, M),
           NEW t \in Thread, NEW m \in M, m.to = t \/ H[t] = {},
           NEW R2, \A z \in Thread : R2[z] = IF z = t THEN m.from ELSE R[z]
    PROVE  Core(P, H, O, R2, W, M)
<1>1. /\ Shapes(P, H, O, W, M) /\ Paired(P, H, O)
      /\ Asked(P, H, O, M) /\ Answered(P, H, O, M) /\ Remotes(P, H, R)
  BY DEF Core
<1>2. H[t] # {} => m.from = P[t]
  <2>1. ASSUME H[t] # {} PROVE m.from = P[t]
    <3>1. m.to = t /\ P[t] \in Thread /\ P[P[t]] = t /\ m.from \in Thread
      BY <1>1, <2>1 DEF Paired, Shapes
    <3>2. CASE m.type = "reply"
      BY <1>1, <3>1, <3>2 DEF Answered
    <3>3. CASE m.type # "reply"
      <4>1. P[m.from] = t
        BY <1>1, <3>1, <3>3 DEF Asked
      <4> QED
        BY <1>1, <3>1, <4>1 DEF Paired
    <3> QED
      BY <3>2, <3>3
  <2> QED
    BY <2>1
<1>3. Remotes(P, H, R2)
  BY <1>1, <1>2 DEF Remotes
<1> QED
  BY <1>3 DEF Core

-----------------------------------------------------------------------------
(* Who is notified.  The first of a pool that has no message, if there is one. *)
LEMMA LessIs ==
    ASSUME NEW i \in Nat, NEW j \in Nat
    PROVE  <<j, i>> \in OpToRel(<, Nat) <=> j < i
<1>1. OpToRel(<, Nat) = {ss \in Nat \X Nat : ss[1] < ss[2]}
  BY DEF OpToRel
<1> QED
  BY <1>1

LEMMA LeastIs ==
    ASSUME NEW I \in SUBSET Nat, I # {}
    PROVE  \E i \in I : \A j \in I : i <= j
<1>1. PICK i \in I : \A j \in I : <<j, i>> \notin OpToRel(<, Nat)
  BY NatLessThanWellFounded, WFMin, Zenon
<1>2. \A j \in I : ~(j < i)
  <2> TAKE j \in I
  <2>1. i \in Nat /\ j \in Nat
    OBVIOUS
  <2> QED
    BY <1>1, <2>1, LessIs, Zenon
<1>3. \A j \in I : i <= j
  <2> TAKE j \in I
  <2> QED
    BY <1>2
<1> QED
  BY <1>3

LEMMA FirstIs ==
    ASSUME NEW S, NEW p \in Seq(S), NEW those
    PROVE  /\ First(p, those) \subseteq Range(p) \cap those
           /\ Range(p) \cap those # {} => First(p, those) # {}
<1>1. DOMAIN p = 1 .. Len(p) /\ Len(p) \in Nat
  OBVIOUS
<1>2. First(p, those) \subseteq Range(p) \cap those
  BY <1>1 DEF First, Range
<1>3. ASSUME Range(p) \cap those # {} PROVE First(p, those) # {}
  <2> DEFINE I == {j \in 1 .. Len(p) : p[j] \in those}
  <2>1. I \in SUBSET Nat /\ I # {}
    BY <1>1, <1>3 DEF Range
  <2>2. PICK i \in I : \A j \in I : i <= j
    BY <2>1, LeastIs
  <2>3. i \in 1 .. Len(p) /\ p[i] \in those
    OBVIOUS
  <2>4. ASSUME NEW k \in 1 .. i - 1 PROVE p[k] \notin those
    <3>1. k \in 1 .. Len(p) /\ ~(i <= k)
      BY <1>1, <2>3
    <3> QED
      BY <2>2, <3>1
  <2>5. p[i] \in First(p, those)
    BY <2>3, <2>4 DEF First
  <2> QED
    BY <2>5
<1> QED
  BY <1>2, <1>3

(* a thread that is idle is a client, or a worker that has not been started *)
LEMMA IdleStays ==
    ASSUME TypeInv, [Next]_vars
    PROVE  \A w \in Worker : pc'[w] = "idle" => pc[w] = "idle"
<1>0. \A w \in Worker : w \in Thread /\ w \notin Client
  BY BoundServingAssumption DEF Thread
<1>1. ASSUME NEW t \in Thread, NEW l, Goto(t, l), l = "idle" => t \in Client \/ pc[t] = "idle"
      PROVE  \A w \in Worker : pc'[w] = "idle" => pc[w] = "idle"
  BY <1>0, <1>1 DEF Goto, TypeInv, FlagTypes
<1>2. ASSUME UNCHANGED pc PROVE \A w \in Worker : pc'[w] = "idle" => pc[w] = "idle"
  BY <1>2
<1>3. ASSUME NEW t \in Thread, ServeStep(t)
      PROVE  \A w \in Worker : pc'[w] = "idle" => pc[w] = "idle"
  <2>1. CASE WaitDone(t) \/ Raise(t) \/ LoopEnds(t)
    BY <1>1, <2>1, AfterPlace DEF WaitDone, Raise, LoopEnds
  <2>2. CASE ServeEnter(t) \/ ServeWoken(t)
    <3>1. UNCHANGED pc \/ \E l \in {"loop", "dispatch", "poll", "asleep"} : Goto(t, l)
      <4>1. CASE Ready(t)
        BY <2>2, <4>1, ProceedTypes DEF ServeEnter, ServeWoken
      <4>2. CASE ~Ready(t)
        BY <2>2, <4>2 DEF ServeEnter, ServeWoken
      <4> QED
        BY <4>1, <4>2
    <3> QED
      BY <1>1, <1>2, <3>1
  <2>3. CASE PollData(t) \/ PollEOF(t) \/ PollWoken(t)
    BY <1>1, <2>3 DEF PollData, PollEOF, PollWoken, Received
  <2>4. CASE LeaveEmpty(t) \/ TakeMessage(t) \/ HandOver(t) \/ DropMessage(t)
    BY <1>1, <2>4 DEF LeaveEmpty, TakeMessage, HandOver, DropMessage, AfterHandOver
  <2>5. CASE StartWorker(t)
    <3>1. \E w \in Worker : pc' = [pc EXCEPT ![w] = "loop", ![t] = AfterHandOver(t)]
      BY <2>5 DEF StartWorker
    <3> QED
      BY <1>0, <3>1 DEF AfterHandOver, TypeInv, FlagTypes
  <2>6. CASE DispatchReply(t) \/ DispatchRequest(t) \/ SendReply(t)
    BY <1>1, <2>6 DEF DispatchReply, DispatchRequest, SendReply
  <2> QED
    BY <1>3, <2>1, <2>2, <2>3, <2>4, <2>5, <2>6 DEF ServeStep
<1>4. ASSUME NEW t \in Thread, CloseStep(t) \/ ClientCalls(t) \/ HandlerCalls(t) \/ UserCloses(t)
      PROVE  \A w \in Worker : pc'[w] = "idle" => pc[w] = "idle"
  <2>1. CASE ClientCalls(t) \/ HandlerCalls(t) \/ SendClose(t)
    BY <1>1, <2>1 DEF ClientCalls, HandlerCalls, SendClose, SendRequest
  <2>2. CASE Close(t, "eof", "raise") \/ Close(t, "closing", "end") \/ UserCloses(t)
    BY <1>1, <2>2 DEF Close, UserCloses
  <2>3. CASE Cleanup(t) \/ CleanupThreads(t) \/ JoinWorkers(t)
    <3>1. pc[t] \in {"cleanup", "threads", "join"} /\ UNCHANGED <<msg, netVars>>
      BY <2>3 DEF Cleanup, CleanupThreads, JoinWorkers
    <3>2. Cleaned(t) \/ Goto(t, "threads") \/ Goto(t, "join")
      BY <2>3 DEF Cleanup, CleanupThreads, JoinWorkers
    <3>3. Grown
      BY <3>1, GrownBy DEF TypeInv, Contents, netVars
    <3>4. Cleaned(t) => \E l : Goto(t, l) /\ (l = "idle" => t \in Client)
      BY <3>1, <3>3, CleanedTypes
    <3> QED
      BY <1>1, <3>2, <3>4
  <2> QED
    BY <1>4, <2>1, <2>2, <2>3 DEF CloseStep
<1>5. ASSUME NEW d \in Side, CleanerStep(d) PROVE UNCHANGED pc
  BY <1>5 DEF CleanerStep, threadVars
<1>6. ASSUME NEW s \in SeqNo, Expire(s) PROVE UNCHANGED pc
  BY <1>6 DEF Expire, threadVars
<1>7. CASE UNCHANGED vars
  BY <1>2, <1>7 DEF vars, threadVars
<1> QED
  BY <1>2, <1>3, <1>4, <1>5, <1>6, <1>7 DEF Next

(* a thread that waits on its condition has no message *)
AsleepInv ==
    \A t \in asleep : deque[t] = <<>> /\ (t \in Worker => pc[t] # "idle")

(* who sleeps after a step slept before, with no message since, or has just gone to sleep *)
LEMMA SleepersKeep ==
    ASSUME TypeInv, AsleepInv, [Next]_vars
    PROVE  \A u \in asleep' : \/ u \in asleep /\ deque'[u] = deque[u]
                              \/ deque'[u] = <<>> /\ pc'[u] = "asleep"
<1> SUFFICES ASSUME NEW u \in asleep'
             PROVE  \/ u \in asleep /\ deque'[u] = deque[u]
                    \/ deque'[u] = <<>> /\ pc'[u] = "asleep"
  OBVIOUS
<1>0. DOMAIN deque = Thread /\ DOMAIN pc = Thread /\ asleep \subseteq Thread
  BY DEF TypeInv, FlagTypes, Contents, DequeInv
<1>1. ASSUME asleep' \subseteq asleep, UNCHANGED deque PROVE u \in asleep /\ deque'[u] = deque[u]
  BY <1>1
<1>2. ASSUME NEW t \in Thread, ServeStep(t)
      PROVE  \/ u \in asleep /\ deque'[u] = deque[u]
             \/ deque'[u] = <<>> /\ pc'[u] = "asleep"
  <2>1. CASE WaitDone(t) \/ Raise(t) \/ LoopEnds(t)
    BY <1>1, <2>1 DEF WaitDone, Raise, LoopEnds, boundVars, waitVars
  <2>2. ASSUME NEW p, Proceed(t, p)
        PROVE  u \in asleep /\ deque'[u] = deque[u]
    <3>1. CASE ~Predicate(t) /\ deque[t] # <<>>
      <4>1. UNCHANGED asleep /\ deque' = [deque EXCEPT ![t] = Tail(deque[t])]
        BY <2>2, <3>1 DEF Proceed, TakeOwn
      <4>2. u # t
        BY <3>1, <4>1 DEF AsleepInv
      <4> QED
        BY <4>1, <4>2
    <3>2. CASE ~(~Predicate(t) /\ deque[t] # <<>>)
      BY <1>1, <2>2, <3>2 DEF Proceed, GuardExit
    <3> QED
      BY <3>1, <3>2
  <2>3. CASE ServeEnter(t)
    <3>1. CASE Ready(t)
      BY <2>2, <2>3, <3>1 DEF ServeEnter
    <3>2. CASE ~Ready(t)
      <4>1. /\ asleep' = asleep \cup {t} /\ Goto(t, "asleep") /\ UNCHANGED deque /\ deque[t] = <<>>
        BY <2>3, <3>2 DEF ServeEnter, Ready
      <4> QED
        BY <1>0, <4>1 DEF Goto
    <3> QED
      BY <3>1, <3>2
  <2>4. CASE ServeWoken(t)
    <3>1. CASE Ready(t)
      BY <2>2, <2>4, <3>1 DEF ServeWoken
    <3>2. CASE ~Ready(t)
      BY <2>4, <3>2 DEF ServeWoken, Ready
    <3> QED
      BY <3>1, <3>2
  <2>5. CASE PollData(t) \/ PollEOF(t) \/ PollWoken(t)
    BY <1>1, <2>5 DEF PollData, PollEOF, PollWoken, boundVars, waitVars
  <2>6. CASE LeaveEmpty(t) \/ TakeMessage(t)
    BY <1>1, <2>6 DEF LeaveEmpty, TakeMessage, GuardExit, boundVars
  <2>7. CASE HandOver(t)
    <3>1. PICK v \in Recipient(t) : /\ deque' = [deque EXCEPT ![v] = Append(deque[v], msg[t])]
                                    /\ ReceiveNext(t, {v}, deque')
      BY <2>7 DEF HandOver
    <3>2. asleep' \subseteq asleep \ {v}
      BY <3>1 DEF ReceiveNext
    <3> QED
      BY <3>1, <3>2
  <2>8. CASE StartWorker(t)
    <3>1. PICK w \in Worker : pc[w] = "idle" /\ deque' = [deque EXCEPT ![w] = <<msg[t]>>]
      BY <2>8 DEF StartWorker
    <3>2. asleep' \subseteq asleep
      BY <2>8 DEF StartWorker, ReceiveNext
    <3>3. u # w
      BY <3>1, <3>2 DEF AsleepInv
    <3> QED
      BY <3>1, <3>2, <3>3
  <2>9. CASE DropMessage(t)
    BY <1>1, <2>9 DEF DropMessage, ReceiveNext, boundVars
  <2>10. CASE DispatchReply(t) \/ DispatchRequest(t) \/ SendReply(t)
    BY <1>1, <2>10 DEF DispatchReply, DispatchRequest, SendReply, waitVars
  <2> QED
    BY <1>2, <2>1, <2>3, <2>4, <2>5, <2>6, <2>7, <2>8, <2>9, <2>10 DEF ServeStep
<1>3. ASSUME NEW d \in Side, EndWorkers(d) PROVE u \in asleep /\ deque'[u] = deque[u]
  <2>1. /\ deque' = [t \in Thread |-> IF t \in workers[d] /\ serve[t] THEN Append(deque[t], Wake)
                                                                     ELSE deque[t]]
        /\ asleep' \subseteq asleep \ {t \in workers[d] : serve[t]}
    BY <1>3 DEF EndWorkers
  <2>2. u \in asleep /\ u \in Thread /\ ~(u \in workers[d] /\ serve[u])
    BY <1>0, <2>1
  <2> QED
    BY <2>1, <2>2
<1>4. ASSUME NEW t \in Thread, CloseStep(t) \/ ClientCalls(t) \/ HandlerCalls(t) \/ UserCloses(t)
      PROVE  u \in asleep /\ deque'[u] = deque[u]
  <2>1. CASE ClientCalls(t) \/ HandlerCalls(t) \/ SendClose(t)
    BY <1>1, <2>1 DEF ClientCalls, HandlerCalls, SendClose, waitVars
  <2>2. CASE Close(t, "eof", "raise") \/ Close(t, "closing", "end") \/ UserCloses(t)
    BY <1>1, <2>2 DEF Close, UserCloses, boundVars, waitVars
  <2>3. CASE Cleanup(t) \/ JoinWorkers(t)
    BY <1>1, <2>3 DEF Cleanup, JoinWorkers, boundVars, waitVars
  <2>4. CASE CleanupThreads(t)
    BY <1>1, <1>3, <2>4, Sides DEF CleanupThreads, boundVars, waitVars
  <2> QED
    BY <1>4, <2>1, <2>2, <2>3, <2>4 DEF CloseStep
<1>5. ASSUME NEW d \in Side, CleanerStep(d) PROVE u \in asleep /\ deque'[u] = deque[u]
  BY <1>1, <1>3, <1>5 DEF CleanerStep, boundVars, waitVars
<1>6. ASSUME NEW s \in SeqNo, Expire(s) PROVE u \in asleep /\ deque'[u] = deque[u]
  BY <1>1, <1>6 DEF Expire, boundVars, waitVars
<1>7. CASE UNCHANGED vars
  BY <1>1, <1>7 DEF vars, boundVars, waitVars
<1> QED
  BY <1>2, <1>4, <1>5, <1>6, <1>7 DEF Next

LEMMA AsleepKeeps ==
    ASSUME TypeInv, AsleepInv, [Next]_vars
    PROVE  AsleepInv'
<1>1. \A u \in asleep' : \/ u \in asleep /\ deque'[u] = deque[u]
                         \/ deque'[u] = <<>> /\ pc'[u] = "asleep"
  BY SleepersKeep
<1>2. \A w \in Worker : pc'[w] = "idle" => pc[w] = "idle"
  BY IdleStays
<1> QED
  BY <1>1, <1>2 DEF AsleepInv

(* One that sleeps is woken while nobody receives: somebody else of the pool has
   been notified and has no message, so that he will receive. *)
Sleeping(d) == {t \in On(d) : pc[t] = "asleep"}

WokenInv ==
    expired = {} => \A d \in Side :
        ~receiving[d] /\ Sleeping(d) \cap asleep # {} =>
            \E w \in Sleeping(d) : w \notin asleep /\ deque[w] = <<>>

(* as long as no deadline has passed: no thread sleeps or receives with its answer there *)
SleepInv ==
    expired = {} => \A t \in Thread :
        pc[t] \in {"asleep", "poll", "received", "dispatch"} => await[t] \notin done

(* the receiver leaves, and notifies *)
LEMMA NotifiedIsWoken ==
    ASSUME TypeInv, NEW d \in Side, NEW p \in Seq(Thread), NEW queues,
           asleep' \cap First(p, Empty(queues)) = {}, Range(p) \subseteq Thread,
           NEW x \in Range(p), queues[x] = <<>>
    PROVE  \E w \in Range(p) : w \notin asleep' /\ queues[w] = <<>>
<1>1. x \in Range(p) \cap Empty(queues)
  BY DEF Empty
<1>2. PICK w \in First(p, Empty(queues)) : w \in Range(p) \cap Empty(queues)
  BY <1>1, FirstIs
<1> QED
  BY <1>2 DEF Empty

(* the four ways in which an end keeps this *)
LEMMA WokenKeeps ==
    ASSUME TypeInv, AsleepInv, AsleepInv', WokenInv, expired' = {} => expired = {}, NEW d \in Side,
           \/ receiving'[d]
           \/ Sleeping(d)' \cap asleep' = {}
           \/ /\ PoolInv'
              /\ asleep' \cap First(pool'[d], Empty(deque')) = {}
           \/ /\ ~receiving[d] /\ Sleeping(d)' \cap asleep' \subseteq Sleeping(d) \cap asleep
              /\ \A w \in Sleeping(d) : w \notin asleep /\ deque[w] = <<>> =>
                   \/ w \in Sleeping(d)' /\ w \notin asleep' /\ deque'[w] = <<>>
                   \/ expired # {}
    PROVE  expired' = {} /\ ~receiving'[d] /\ Sleeping(d)' \cap asleep' # {} =>
             \E w \in Sleeping(d)' : w \notin asleep' /\ deque'[w] = <<>>
<1> SUFFICES ASSUME expired' = {}, ~receiving'[d], NEW x \in Sleeping(d)', x \in asleep'
             PROVE  \E w \in Sleeping(d)' : w \notin asleep' /\ deque'[w] = <<>>
  OBVIOUS
<1>1. CASE PoolInv' /\ asleep' \cap First(pool'[d], Empty(deque')) = {}
  <2>1. pool'[d] \in Seq(Thread) /\ Range(pool'[d]) = Sleeping(d)' /\ Sleeping(d)' \subseteq Thread
    BY <1>1 DEF PoolInv, Sleeping, On
  <2>2. deque'[x] = <<>>
    BY DEF AsleepInv
  <2> HIDE DEF Sleeping
  <2> QED
    BY <1>1, <2>1, <2>2, NotifiedIsWoken
<1>2. CASE /\ ~receiving[d] /\ Sleeping(d)' \cap asleep' \subseteq Sleeping(d) \cap asleep
           /\ \A w \in Sleeping(d) : w \notin asleep /\ deque[w] = <<>> =>
                   \/ w \in Sleeping(d)' /\ w \notin asleep' /\ deque'[w] = <<>>
                   \/ expired # {}
  BY <1>2 DEF WokenInv
<1> QED
  BY <1>1, <1>2

LEMMA WokenSteps ==
    ASSUME TypeInv, AsleepInv, SleepInv, WokenInv, [Next]_vars
    PROVE  WokenInv'
<1> DEFINE Kept(d) ==
             \/ receiving'[d]
             \/ Sleeping(d)' \cap asleep' = {}
             \/ asleep' \cap First(pool'[d], Empty(deque')) = {}
             \/ /\ ~receiving[d] /\ Sleeping(d)' \cap asleep' \subseteq Sleeping(d) \cap asleep
                /\ \A w \in Sleeping(d) : w \notin asleep /\ deque[w] = <<>> =>
                     \/ w \in Sleeping(d)' /\ w \notin asleep' /\ deque'[w] = <<>>
                     \/ expired # {}
<1>0. /\ DOMAIN deque = Thread /\ DOMAIN pc = Thread /\ asleep \subseteq Thread
      /\ receiving \in [Side -> BOOLEAN] /\ pool \in [Side -> Seq(Thread)]
      /\ \A d \in Side : Range(pool[d]) = Sleeping(d)
  BY DEF TypeInv, FlagTypes, Contents, DequeInv, PoolInv, Sleeping
<1>1. ASSUME NEW d \in Side, UNCHANGED receiving, asleep' \subseteq asleep,
             \A w \in Sleeping(d) : w \in Sleeping(d)' /\ (deque[w] = <<>> => deque'[w] = <<>>),
             Sleeping(d)' \subseteq Sleeping(d)
      PROVE  Kept(d)
  BY <1>1
<1>2. ASSUME NEW t \in Thread, NEW l, l # "asleep", pc[t] # "asleep", Goto(t, l)
      PROVE  \A d \in Side : Sleeping(d)' = Sleeping(d)
  BY <1>0, <1>2 DEF Goto, Sleeping
<1>3. ASSUME NEW t \in Thread, NEW l, l # "asleep", pc[t] # "asleep", Goto(t, l),
             UNCHANGED receiving, asleep' \subseteq asleep, UNCHANGED deque
      PROVE  \A d \in Side : Kept(d)
  BY <1>1, <1>2, <1>3
<1>4. ASSUME NEW t \in Thread, ServeStep(t) PROVE \A d \in Side : Kept(d)
  <2>1. CASE WaitDone(t) \/ Raise(t) \/ LoopEnds(t)
    <3>1. After(t) # "asleep"
      BY AfterPlace
    <3> QED
      BY <1>3, <2>1, <3>1 DEF WaitDone, Raise, LoopEnds, boundVars, waitVars
  <2>2. ASSUME NEW d \in Side, d # SideOf[t],
               \A u \in Thread : u # t => pc'[u] = pc[u] /\ deque'[u] = deque[u],
               receiving'[d] = receiving[d], asleep' \subseteq asleep \cup {t}
        PROVE  Kept(d)
    BY <2>2 DEF Sleeping, On
  <2>3. CASE ServeEnter(t) \/ ServeWoken(t)
    <3> SUFFICES ASSUME NEW d \in Side PROVE Kept(d)
      OBVIOUS
    <3>1. CASE ~Ready(t)
      <4>1. receiving[SideOf[t]] /\ UNCHANGED <<receiving, deque>> /\ asleep' = asleep \cup {t}
        BY <2>3, <3>1 DEF ServeEnter, ServeWoken, Ready
      <4>2. \A u \in Thread : u # t => pc'[u] = pc[u]
        BY <1>0, <2>3, <3>1 DEF ServeEnter, ServeWoken, Goto
      <4> QED
        BY <2>2, <4>1, <4>2
    <3>2. CASE Ready(t)
      <4>1. PICK p : Proceed(t, p)
        BY <2>3, <3>2 DEF ServeEnter, ServeWoken
      <4>2. /\ asleep' \subseteq asleep
            /\ \A u \in Thread : u # t => deque'[u] = deque[u]
            /\ receiving' = receiving \/ \E b : receiving' = [receiving EXCEPT ![SideOf[t]] = b]
        BY <1>0, <4>1 DEF Proceed, TakeOwn, GuardExit
      <4>3. PICK l \in {"loop", "dispatch", "poll"} : Goto(t, l)
        BY <2>3, <4>1, ProceedTypes DEF ServeEnter, ServeWoken
      <4>4. pc'[t] # "asleep" /\ \A u \in Thread : u # t => pc'[u] = pc[u]
        BY <1>0, <4>3 DEF Goto
      <4>5. d # SideOf[t] => receiving'[d] = receiving[d]
        BY <1>0, <4>2
      <4>6. CASE d # SideOf[t]
        BY <2>2, <4>2, <4>4, <4>5, <4>6
      <4>7. CASE d = SideOf[t] /\ (Predicate(t) \/ deque[t] # <<>>)
        <5>1. UNCHANGED receiving
          BY <4>1, <4>7 DEF Proceed
        <5>2. CASE receiving[d]
          BY <5>1, <5>2
        <5>3. CASE ~receiving[d]
          <6>1. Sleeping(d)' \cap asleep' \subseteq Sleeping(d) \cap asleep
            BY <4>2, <4>4 DEF Sleeping
          <6>2. ASSUME NEW w \in Sleeping(d), w \notin asleep, deque[w] = <<>>, expired = {}
                PROVE  w \in Sleeping(d)' /\ w \notin asleep' /\ deque'[w] = <<>>
            <7>1. w \in Thread /\ pc[w] = "asleep"
              BY <6>2 DEF Sleeping, On
            <7>2. w # t
              <8>1. ~Predicate(w)
                BY <6>2, <7>1 DEF SleepInv, Predicate
              <8> QED
                BY <4>7, <6>2, <8>1
            <7> QED
              BY <4>2, <4>4, <6>2, <7>1, <7>2 DEF Sleeping
          <6> QED
            BY <5>3, <6>1, <6>2
        <5> QED
          BY <5>2, <5>3
      <4>8. CASE d = SideOf[t] /\ ~Predicate(t) /\ deque[t] = <<>>
        <5>1. CASE serve[t]
          BY <1>0, <4>1, <4>8, <5>1 DEF Proceed
        <5>2. CASE ~serve[t]
          <6>1. pool' = [pool EXCEPT ![d] = p] /\ GuardExit(d, p, deque) /\ UNCHANGED deque
            BY <4>1, <4>8, <5>2 DEF Proceed
          <6>2. pool'[d] = p /\ asleep' = asleep \ First(p, Empty(deque))
            BY <1>0, <6>1 DEF GuardExit
          <6>3. asleep' \cap First(pool'[d], Empty(deque')) = {}
            BY <6>1, <6>2
          <6> QED
            BY <6>3
        <5> QED
          BY <5>1, <5>2
      <4> QED
        BY <4>6, <4>7, <4>8
    <3> QED
      BY <3>1, <3>2
  <2>4. CASE PollData(t) \/ PollEOF(t) \/ PollWoken(t)
    BY <1>3, <2>4 DEF PollData, PollEOF, PollWoken, Received, boundVars, waitVars
  <2>5. CASE LeaveEmpty(t) \/ TakeMessage(t)
    <3> SUFFICES ASSUME NEW d \in Side PROVE Kept(d)
      OBVIOUS
    <3>1. GuardExit(SideOf[t], pool[SideOf[t]], deque) /\ UNCHANGED <<deque, pool>>
      BY <2>5 DEF LeaveEmpty, TakeMessage, boundVars
    <3>2. \A u \in Thread : u # t => pc'[u] = pc[u]
      BY <1>0, <2>5 DEF LeaveEmpty, TakeMessage, Goto
    <3>3. CASE d = SideOf[t]
      BY <3>1, <3>3 DEF GuardExit
    <3>4. CASE d # SideOf[t]
      BY <1>0, <2>2, <3>1, <3>2, <3>4 DEF GuardExit
    <3> QED
      BY <3>3, <3>4
  <2>6. CASE HandOver(t) \/ StartWorker(t) \/ DropMessage(t)
    <3> SUFFICES ASSUME NEW d \in Side PROVE Kept(d)
      OBVIOUS
    <3>1. PICK woken : ReceiveNext(t, woken, deque') /\ UNCHANGED pool
      <4>1. CASE HandOver(t)
        BY <4>1 DEF HandOver
      <4>2. CASE StartWorker(t)
        BY <4>2 DEF StartWorker
      <4>3. CASE DropMessage(t)
        BY <4>3 DEF DropMessage, boundVars
      <4> QED
        BY <2>6, <4>1, <4>2, <4>3
    <3>2. asleep' \subseteq asleep
      BY <3>1 DEF ReceiveNext
    <3>3. CASE d = SideOf[t]
      <4>1. receiving[d]
        BY <2>6, <3>3, Sides DEF HandOver, StartWorker, DropMessage, Got, TypeInv, BInv, RoleInv, OneReceiver, On
      <4>2. CASE serve[t]
        BY <3>1, <4>1, <4>2 DEF ReceiveNext
      <4>3. CASE ~serve[t]
        <5>1. asleep' \cap First(pool'[d], Empty(deque')) = {}
          BY <3>1, <3>3, <4>3 DEF ReceiveNext
        <5> QED
          BY <5>1
      <4> QED
        BY <4>2, <4>3
    <3>4. CASE d # SideOf[t]
      <4>1. receiving'[d] = receiving[d]
        BY <1>0, <3>1, <3>4 DEF ReceiveNext
      <4>2. ASSUME NEW u \in Thread, SideOf[u] = d
            PROVE  (pc'[u] = "asleep" <=> pc[u] = "asleep") /\ deque'[u] = deque[u]
        <5>1. CASE HandOver(t)
          <6>1. PICK v \in Recipient(t) : deque' = [deque EXCEPT ![v] = Append(deque[v], msg[t])]
            BY <5>1 DEF HandOver
          <6>2. v # u /\ u # t
            BY <3>4, <4>2, <5>1, GotTypes DEF HandOver
          <6> QED
            BY <1>0, <5>1, <6>1, <6>2 DEF HandOver, Goto
        <5>2. CASE StartWorker(t)
          <6>1. PICK w \in Worker \cap On(SideOf[t]) :
                    /\ deque' = [deque EXCEPT ![w] = <<msg[t]>>]
                    /\ pc' = [pc EXCEPT ![w] = "loop", ![t] = AfterHandOver(t)]
            BY <5>2 DEF StartWorker
          <6>2. w # u /\ u # t
            BY <3>4, <4>2, <6>1 DEF On
          <6> QED
            BY <1>0, <6>1, <6>2
        <5>3. CASE DropMessage(t)
          BY <1>0, <3>4, <4>2, <5>3 DEF DropMessage, Goto, boundVars
        <5> QED
          BY <2>6, <5>1, <5>2, <5>3
      <4> QED
        BY <3>2, <4>1, <4>2 DEF Sleeping, On
    <3> QED
      BY <3>3, <3>4
  <2>7. CASE DispatchReply(t)
    <3> SUFFICES ASSUME NEW d \in Side PROVE Kept(d)
      OBVIOUS
    <3>1. asleep' = asleep \ On(SideOf[t]) /\ UNCHANGED <<receiving, deque>>
      BY <2>7 DEF DispatchReply
    <3>2. \A u \in Thread : u # t => pc'[u] = pc[u]
      BY <1>0, <2>7 DEF DispatchReply, Goto
    <3>3. CASE d = SideOf[t]
      BY <3>1, <3>3 DEF Sleeping
    <3>4. CASE d # SideOf[t]
      BY <2>2, <3>1, <3>2, <3>4
    <3> QED
      BY <3>3, <3>4
  <2>8. CASE DispatchRequest(t) \/ SendReply(t)
    BY <1>3, <2>8 DEF DispatchRequest, SendReply, waitVars
  <2> QED
    BY <1>4, <2>1, <2>3, <2>4, <2>5, <2>6, <2>7, <2>8 DEF ServeStep
<1>5. ASSUME NEW e \in Side, EndWorkers(e),
             \A u \in Thread : pc'[u] = "asleep" <=> pc[u] = "asleep"
      PROVE  \A d \in Side : Kept(d)
  <2> SUFFICES ASSUME NEW d \in Side PROVE Kept(d)
    OBVIOUS
  <2>1. /\ UNCHANGED <<receiving, pool>> /\ asleep' \subseteq asleep
        /\ deque' = [t \in Thread |-> IF t \in workers[e] /\ serve[t] THEN Append(deque[t], Wake)
                                                                     ELSE deque[t]]
        /\ ~receiving[e] => asleep' \cap First(pool[e], Empty(deque')) = {}
    BY <1>5 DEF EndWorkers
  <2>2. CASE d = e
    BY <2>1, <2>2
  <2>3. CASE d # e
    <3>1. \A u \in On(d) : u \in Thread /\ u \notin workers[e] /\ deque'[u] = deque[u]
      BY <2>1, <2>3 DEF TypeInv, ClosedInv, On
    <3>2. Sleeping(d)' = Sleeping(d) /\ Sleeping(d) \subseteq On(d)
      BY <1>5 DEF Sleeping, On
    <3> QED
      BY <1>1, <2>1, <3>1, <3>2
  <2> QED
    BY <2>2, <2>3
<1>6. ASSUME NEW t \in Thread, CloseStep(t) \/ ClientCalls(t) \/ HandlerCalls(t) \/ UserCloses(t)
      PROVE  \A d \in Side : Kept(d)
  <2>1. CASE ClientCalls(t) \/ HandlerCalls(t) \/ SendClose(t)
    BY <1>3, <2>1 DEF ClientCalls, HandlerCalls, SendClose, SendRequest, waitVars
  <2>2. CASE Close(t, "eof", "raise") \/ Close(t, "closing", "end") \/ UserCloses(t)
    BY <1>3, <2>2 DEF Close, UserCloses, boundVars, waitVars
  <2>3. ASSUME Cleaned(t), pc[t] \in {"cleanup", "threads", "join"}
        PROVE  \E l : l # "asleep" /\ Goto(t, l)
    <3>1. stack[t] # <<>> /\ stack[t] \in Seq(Inside(t))
      BY <2>3 DEF TypeInv, BInv, FrameInv, NeedsFrame, Contents, NestInv
    <3>2. Head(stack[t]) \in Inside(t)
      BY <3>1
    <3>3. \E l \in {"handler", "idle", "raise", "end"} : Goto(t, l)
      BY <2>3, <3>2 DEF Cleaned, Inside, Frame
    <3> QED
      BY <3>3
  <2>4. CASE Cleanup(t) \/ JoinWorkers(t)
    BY <1>3, <2>3, <2>4 DEF Cleanup, JoinWorkers, boundVars, waitVars
  <2>5. CASE CleanupThreads(t)
    <3>1. CASE t \in workers[SideOf[t]]
      BY <1>3, <2>3, <2>5, <3>1 DEF CleanupThreads, boundVars, waitVars
    <3>2. CASE t \notin workers[SideOf[t]]
      <4>1. EndWorkers(SideOf[t]) /\ Goto(t, "join") /\ pc[t] = "threads"
        BY <2>5, <3>2 DEF CleanupThreads
      <4>2. \A u \in Thread : pc'[u] = "asleep" <=> pc[u] = "asleep"
        BY <1>0, <4>1 DEF Goto
      <4> QED
        BY <1>5, <4>1, <4>2, Sides
    <3> QED
      BY <3>1, <3>2
  <2> QED
    BY <1>6, <2>1, <2>2, <2>4, <2>5 DEF CloseStep
<1>7. ASSUME UNCHANGED <<pc, deque, receiving, asleep>> PROVE \A d \in Side : Kept(d)
  BY <1>1, <1>7 DEF Sleeping
<1>8. ASSUME NEW e \in Side, CleanerStep(e) PROVE \A d \in Side : Kept(d)
  BY <1>5, <1>7, <1>8 DEF CleanerStep, threadVars, boundVars, waitVars
<1>9. ASSUME NEW s \in SeqNo, Expire(s) PROVE \A d \in Side : Kept(d)
  BY <1>7, <1>9 DEF Expire, threadVars, boundVars, waitVars
<1>10. ASSUME UNCHANGED vars PROVE \A d \in Side : Kept(d)
  BY <1>7, <1>10 DEF vars, threadVars, boundVars, waitVars
<1>11. \A d \in Side : Kept(d)
  BY <1>4, <1>6, <1>8, <1>9, <1>10 DEF Next
<1>12. expired' = {} => expired = {}
  <2>1. expired \subseteq expired'
    BY DEF Next, vars, ServeStep, CloseStep, netVars, WaitDone, Raise, LoopEnds, ServeEnter, ServeWoken,
       PollData, PollEOF, PollWoken, LeaveEmpty, TakeMessage, HandOver, StartWorker, DropMessage,
       DispatchReply, DispatchRequest, SendReply, Close, SendClose, Cleanup, CleanupThreads, JoinWorkers,
       ClientCalls, HandlerCalls, UserCloses, CleanerStep, Expire
  <2> QED
    BY <2>1
<1>13. TypeInv' /\ AsleepInv'
  BY StepKeepsTypes, AsleepKeeps
<1>14. PoolInv'
  BY <1>13 DEF TypeInv
<1>15. ASSUME NEW d \in Side
       PROVE  expired' = {} /\ ~receiving'[d] /\ Sleeping(d)' \cap asleep' # {} =>
                \E w \in Sleeping(d)' : w \notin asleep' /\ deque'[w] = <<>>
  <2>1. Kept(d)
    BY <1>11
  <2> QED
    BY <1>12, <1>13, <1>14, <2>1, WokenKeeps
<1> QED
  BY <1>15 DEF WokenInv

-----------------------------------------------------------------------------
(* A thread that waits in __serve_bound came there from the loop of a request that
   had no answer, of serve_all or of a worker. *)
Serving == {"asleep", "poll", "received", "dispatch"}

ClientInv == \A t \in Client : pc[t] \in Serving => await[t] # NoSeq

LEMMA ServingSteps ==
    ASSUME TypeInv, [Next]_vars
    PROVE  \A u \in Thread : pc'[u] \in Serving =>
              /\ await'[u] = await[u]
              /\ pc[u] \in Serving \/ (pc[u] = "loop" /\ Looping(u) /\ ~Predicate(u))
<1> SUFFICES ASSUME NEW u \in Thread, pc'[u] \in Serving
             PROVE  /\ await'[u] = await[u]
                    /\ pc[u] \in Serving \/ (pc[u] = "loop" /\ Looping(u) /\ ~Predicate(u))
  OBVIOUS
<1> DEFINE Came == /\ await'[u] = await[u]
                   /\ pc[u] \in Serving \/ (pc[u] = "loop" /\ Looping(u) /\ ~Predicate(u))
<1>0. DOMAIN pc = Thread /\ DOMAIN await = Thread
  BY DEF TypeInv, FlagTypes, Contents, AwaitInv
<1>1. ASSUME NEW t \in Thread, NEW l \in Place \ Serving, Goto(t, l),
             \A v \in Thread : v # t => await'[v] = await[v]
      PROVE  Came
  BY <1>0, <1>1 DEF Goto
<1>2. ASSUME NEW t \in Thread, ServeStep(t) PROVE Came
  <2>1. CASE WaitDone(t) \/ Raise(t) \/ LoopEnds(t)
    <3>1. After(t) \in Place \ Serving
      BY AfterPlace DEF Place, Serving
    <3> QED
      BY <1>0, <1>1, <2>1, <3>1 DEF WaitDone, Raise, LoopEnds
  <2>2. CASE ServeEnter(t) \/ ServeWoken(t)
    <3>1. /\ UNCHANGED await
          /\ pc[t] = "asleep" \/ (pc[t] = "loop" /\ Looping(t) /\ ~Predicate(t))
      BY <2>2 DEF ServeEnter, ServeWoken
    <3>2. \A v \in Thread : v # t => pc'[v] = pc[v]
      <4>1. CASE Ready(t)
        <5>1. \E l \in {"loop", "dispatch", "poll"} : Goto(t, l)
          BY <2>2, <4>1, ProceedTypes DEF ServeEnter, ServeWoken
        <5> QED
          BY <1>0, <5>1 DEF Goto
      <4>2. CASE ~Ready(t)
        BY <1>0, <2>2, <4>2 DEF ServeEnter, ServeWoken, Goto
      <4> QED
        BY <4>1, <4>2
    <3> QED
      BY <3>1, <3>2 DEF Serving
  <2>3. CASE \/ PollData(t) \/ PollEOF(t) \/ PollWoken(t) \/ LeaveEmpty(t) \/ TakeMessage(t)
             \/ HandOver(t) \/ DropMessage(t)
    <3>1. UNCHANGED await /\ pc[t] \in Serving
      BY <2>3 DEF PollData, PollEOF, PollWoken, LeaveEmpty, TakeMessage, HandOver, DropMessage, Got, Serving
    <3>2. \A v \in Thread : v # t => pc'[v] = pc[v]
      BY <1>0, <2>3 DEF PollData, PollEOF, PollWoken, Received, LeaveEmpty, TakeMessage, HandOver,
                        DropMessage, Goto
    <3> QED
      BY <3>1, <3>2
  <2>4. CASE StartWorker(t)
    <3>1. UNCHANGED await /\ pc[t] \in Serving
      BY <2>4 DEF StartWorker, Got, Serving
    <3>2. \A v \in Thread : v # t => pc'[v] = pc[v] \/ pc'[v] = "loop"
      BY <1>0, <2>4 DEF StartWorker
    <3> QED
      BY <3>1, <3>2 DEF Serving
  <2>5. CASE DispatchReply(t) \/ DispatchRequest(t) \/ SendReply(t)
    <3>1. \E l \in Place \ Serving : Goto(t, l)
      BY <2>5 DEF DispatchReply, DispatchRequest, SendReply, Place, Serving
    <3>2. \A v \in Thread : v # t => await'[v] = await[v]
      BY <1>0, <2>5 DEF DispatchReply, DispatchRequest, SendReply, Push, Pop
    <3> QED
      BY <1>1, <3>1, <3>2
  <2> QED
    BY <1>2, <2>1, <2>2, <2>3, <2>4, <2>5 DEF ServeStep
<1>3. ASSUME NEW t \in Thread, CloseStep(t) \/ ClientCalls(t) \/ HandlerCalls(t) \/ UserCloses(t)
      PROVE  Came
  <2>1. CASE ClientCalls(t) \/ HandlerCalls(t) \/ SendClose(t)
    <3>1. \E l \in Place \ Serving : Goto(t, l)
      BY <2>1 DEF ClientCalls, HandlerCalls, SendClose, SendRequest, Place, Serving
    <3>2. \A v \in Thread : v # t => await'[v] = await[v]
      BY <1>0, <2>1 DEF ClientCalls, HandlerCalls, SendClose, SendRequest
    <3> QED
      BY <1>1, <3>1, <3>2
  <2>2. CASE Close(t, "eof", "raise") \/ Close(t, "closing", "end") \/ UserCloses(t)
    <3>1. \E l \in Place \ Serving : Goto(t, l)
      BY <2>2 DEF Close, UserCloses, Place, Serving
    <3>2. \A v \in Thread : v # t => await'[v] = await[v]
      BY <1>0, <2>2 DEF Close, UserCloses, Push
    <3> QED
      BY <1>1, <3>1, <3>2
  <2>3. CASE Cleanup(t) \/ CleanupThreads(t) \/ JoinWorkers(t)
    <3>1. /\ pc[t] \in {"cleanup", "threads", "join"} /\ UNCHANGED <<msg, netVars>>
          /\ Cleaned(t) \/ (Goto(t, "threads") /\ UNCHANGED await) \/ (Goto(t, "join") /\ UNCHANGED await)
      BY <2>3 DEF Cleanup, CleanupThreads, JoinWorkers
    <3>2. Grown
      BY <3>1, GrownBy DEF TypeInv, Contents, netVars
    <3>3. Cleaned(t) => \E l \in {"handler", "idle", "raise", "end"} : Goto(t, l)
      BY <3>1, <3>2, CleanedTypes
    <3>4. \A v \in Thread : v # t => await'[v] = await[v]
      BY <1>0, <3>1 DEF Cleaned, Pop
    <3>5. \E l \in Place \ Serving : Goto(t, l)
      BY <3>1, <3>3 DEF Place, Serving
    <3> QED
      BY <1>1, <3>4, <3>5
  <2> QED
    BY <1>3, <2>1, <2>2, <2>3 DEF CloseStep
<1>4. ASSUME UNCHANGED <<pc, await>> PROVE Came
  BY <1>4
<1>5. ASSUME NEW d \in Side, CleanerStep(d) PROVE Came
  BY <1>4, <1>5 DEF CleanerStep, threadVars
<1>6. ASSUME NEW s \in SeqNo, Expire(s) PROVE Came
  BY <1>4, <1>6 DEF Expire, threadVars
<1>7. ASSUME UNCHANGED vars PROVE Came
  BY <1>4, <1>7 DEF vars, threadVars
<1> QED
  BY <1>2, <1>3, <1>5, <1>6, <1>7 DEF Next

LEMMA ClientKeeps ==
    ASSUME TypeInv, ClientInv, [Next]_vars
    PROVE  ClientInv'
<1> SUFFICES ASSUME NEW t \in Client, pc'[t] \in Serving PROVE await'[t] # NoSeq
  BY DEF ClientInv
<1>1. /\ t \in Thread /\ await'[t] = await[t]
      /\ pc[t] \in Serving \/ (pc[t] = "loop" /\ Looping(t) /\ ~Predicate(t))
  BY ServingSteps DEF Thread
<1>2. t \notin Server /\ t \notin Worker
  BY BoundServingAssumption
<1> QED
  BY <1>1, <1>2 DEF ClientInv, Looping

(* While both ends are open, nobody is at an end of anything. *)
Both == expired = {} /\ \A d \in Side : open[d]

QuietInv ==
    (\A d \in Side : open[d]) =>
        /\ \A t \in Thread : /\ serve[t] /\ pc[t] \notin {"raise", "eof", "threads", "join"}
                             /\ msg[t] # EOF /\ deque[t] \in Seq(Due(t))
        /\ \A d \in Side : cleaner[d] = "none"

LEMMA OpenStays ==
    ASSUME TypeInv, [Next]_vars
    PROVE  /\ \A d \in Side : open'[d] => open[d]
           /\ expired \subseteq expired' /\ Grown
<1>1. UNCHANGED open \/ \E t \in Thread : open' = [open EXCEPT ![SideOf[t]] = FALSE]
  BY DEF Next, vars, ServeStep, CloseStep, closeVars, WaitDone, Raise, LoopEnds, ServeEnter, ServeWoken,
     PollData, PollEOF, PollWoken, LeaveEmpty, TakeMessage, HandOver, StartWorker, DropMessage,
     DispatchReply, DispatchRequest, SendReply, Close, SendClose, Cleanup, CleanupThreads, JoinWorkers,
     EndWorkers, ClientCalls, HandlerCalls, UserCloses, CleanerStep, Expire
<1>2. expired \subseteq expired'
  BY DEF Next, vars, ServeStep, CloseStep, netVars, WaitDone, Raise, LoopEnds, ServeEnter, ServeWoken,
     PollData, PollEOF, PollWoken, LeaveEmpty, TakeMessage, HandOver, StartWorker, DropMessage,
     DispatchReply, DispatchRequest, SendReply, Close, SendClose, Cleanup, CleanupThreads, JoinWorkers,
     ClientCalls, HandlerCalls, UserCloses, CleanerStep, Expire
<1>3. \/ UNCHANGED <<issued, owner>>
      \/ \E x : issued' = issued + 1 /\ owner' = Append(owner, x)
  <2>1. \/ UNCHANGED <<issued, owner>>
        \/ \E t \in Thread, type \in {"request", "close"} : SendRequest(t, type)
    BY DEF Next, vars, ServeStep, CloseStep, netVars, WaitDone, Raise, LoopEnds, ServeEnter, ServeWoken,
       PollData, PollEOF, PollWoken, LeaveEmpty, TakeMessage, HandOver, StartWorker, DropMessage,
       DispatchReply, DispatchRequest, SendReply, Close, SendClose, Cleanup, CleanupThreads, JoinWorkers,
       ClientCalls, HandlerCalls, UserCloses, CleanerStep, Expire
  <2>2. ASSUME NEW t \in Thread, NEW type, SendRequest(t, type)
        PROVE  \/ UNCHANGED <<issued, owner>>
               \/ \E x : issued' = issued + 1 /\ owner' = Append(owner, x)
    BY <2>2 DEF SendRequest
  <2> QED
    BY <2>1, <2>2
<1>4. Grown
  BY <1>3, GrownBy DEF TypeInv, Contents
<1> QED
  BY <1>1, <1>2, <1>4 DEF TypeInv, FlagTypes

-----------------------------------------------------------------------------
(* the steps of a connection of which both ends are open, after the step as before *)
Talk(t) ==
    \/ WaitDone(t) \/ LoopEnds(t) \/ ServeEnter(t) \/ ServeWoken(t)
    \/ PollData(t) \/ PollWoken(t) \/ LeaveEmpty(t) \/ TakeMessage(t)
    \/ HandOver(t) \/ StartWorker(t) \/ DropMessage(t)
    \/ DispatchReply(t) \/ DispatchRequest(t) \/ SendReply(t)
    \/ Close(t, "closing", "end") \/ UserCloses(t)
    \/ SendClose(t) \/ ClientCalls(t) \/ HandlerCalls(t)

LEMMA QuietSteps ==
    ASSUME TypeInv, QuietInv, [Next]_vars, \A d \in Side : open'[d]
    PROVE  /\ \A d \in Side : open[d]
           /\ \/ \E t \in Thread : Talk(t)
              \/ \E s \in SeqNo : Expire(s)
              \/ UNCHANGED vars
<1>1. \A d \in Side : open[d]
  BY OpenStays
<1>2. \A t \in Thread : /\ pc[t] \notin {"raise", "eof", "threads", "join"}
                        /\ SideOf[t] \in Side /\ Peer(SideOf[t]) \in Side
  BY <1>1, Sides DEF QuietInv
<1>3. ASSUME NEW t \in Thread, PollEOF(t) \/ Raise(t) \/ Close(t, "eof", "raise") PROVE FALSE
  BY <1>1, <1>2, <1>3 DEF PollEOF, Raise, Close
<1>4. ASSUME NEW t \in Thread, Cleanup(t) PROVE FALSE
  BY <1>2, <1>4 DEF Cleanup, TypeInv, FlagTypes
<1>5. ASSUME NEW t \in Thread, CleanupThreads(t) \/ JoinWorkers(t) PROVE FALSE
  BY <1>2, <1>5 DEF CleanupThreads, JoinWorkers
<1>6. ASSUME NEW d \in Side, CleanerStep(d) PROVE FALSE
  BY <1>1, <1>6 DEF CleanerStep, QuietInv
<1> QED
  BY <1>1, <1>3, <1>4, <1>5, <1>6 DEF Next, ServeStep, CloseStep, Talk

(* where they take a thread *)
LEMMA TalkGoes ==
    ASSUME TypeInv, QuietInv, \A d \in Side : open[d], NEW t \in Thread, Talk(t)
    PROVE  \A u \in Thread : /\ pc'[u] \notin {"raise", "eof", "threads", "join"}
                             /\ u # t => pc'[u] = pc[u] \/ (pc[u] = "idle" /\ pc'[u] = "loop" /\ u \in Worker)
<1> DEFINE Ends == {"raise", "eof", "threads", "join"}
<1>0. /\ DOMAIN pc = Thread /\ open[SideOf[t]]
      /\ \A u \in Thread : pc[u] \notin Ends /\ msg[u] # EOF
  BY Sides DEF TypeInv, FlagTypes, QuietInv
<1>1. ASSUME NEW l, l \notin Ends, Goto(t, l)
      PROVE  \A u \in Thread : pc'[u] \notin Ends /\ (u # t => pc'[u] = pc[u])
  BY <1>0, <1>1 DEF Goto
<1> HIDE DEF Ends
<1>2. CASE WaitDone(t) \/ LoopEnds(t)
  <2>1. After(t) \notin Ends
    BY AfterPlace DEF Ends
  <2> QED
    BY <1>1, <1>2, <2>1 DEF WaitDone, LoopEnds, Ends
<1>3. CASE ServeEnter(t) \/ ServeWoken(t)
  <2>1. CASE Ready(t)
    <3>1. \E l \in {"loop", "dispatch", "poll"} : Goto(t, l)
      BY <1>3, <2>1, ProceedTypes DEF ServeEnter, ServeWoken
    <3> QED
      BY <1>1, <3>1 DEF Ends
  <2>2. CASE ~Ready(t)
    <3>1. Goto(t, "asleep") \/ UNCHANGED pc
      BY <1>3, <2>2 DEF ServeEnter, ServeWoken
    <3> QED
      BY <1>0, <1>1, <3>1 DEF Ends
  <2> QED
    BY <2>1, <2>2
<1>4. CASE StartWorker(t)
  <2>1. AfterHandOver(t) \notin Ends
    BY DEF AfterHandOver, Ends
  <2>2. \E w \in Worker \cap On(SideOf[t]) :
           pc[w] = "idle" /\ pc' = [pc EXCEPT ![w] = "loop", ![t] = AfterHandOver(t)]
    BY <1>4 DEF StartWorker
  <2>3. PICK w \in Worker : pc[w] = "idle" /\ pc' = [pc EXCEPT ![w] = "loop", ![t] = AfterHandOver(t)]
    BY <2>2
  <2>4. \A u \in Thread : pc'[u] = IF u = t THEN AfterHandOver(t) ELSE IF u = w THEN "loop" ELSE pc[u]
    BY <1>0, <2>3
  <2> QED
    BY <1>0, <2>1, <2>3, <2>4 DEF Ends
<1>5. CASE \/ PollData(t) \/ PollWoken(t) \/ LeaveEmpty(t) \/ TakeMessage(t)
           \/ HandOver(t) \/ DropMessage(t) \/ DispatchReply(t) \/ DispatchRequest(t) \/ SendReply(t)
  <2>1. \E l \in {"received", "loop", "dispatch", "poll", "handler", "cleanup"} : Goto(t, l)
    BY <1>0, <1>5 DEF PollData, PollWoken, Received, LeaveEmpty, TakeMessage, HandOver, DropMessage,
                      AfterHandOver, DispatchReply, DispatchRequest, SendReply
  <2> QED
    BY <1>1, <2>1 DEF Ends
<1>6. CASE \/ Close(t, "closing", "end") \/ UserCloses(t)
           \/ SendClose(t) \/ ClientCalls(t) \/ HandlerCalls(t)
  <2>1. \E l \in {"loop", "sendclose", "idle", "handler", "end"} : Goto(t, l)
    BY <1>0, <1>6 DEF Close, UserCloses, SendClose, ClientCalls, HandlerCalls, SendRequest
  <2> QED
    BY <1>1, <2>1 DEF Ends
<1> QED
  BY <1>2, <1>3, <1>4, <1>5, <1>6 DEF Talk, Ends

(* what they leave in a hand, and in a queue *)
LEMMA TalkHands ==
    ASSUME TypeInv, QuietInv, \A d \in Side : open[d], NEW t \in Thread, Talk(t)
    PROVE  /\ UNCHANGED serve
           /\ \/ UNCHANGED msg
              \/ \E m \in Message \cup {NoMsg} : msg' = [msg EXCEPT ![t] = m]
           /\ \A u \in Thread :
                \/ deque'[u] = deque[u]
                \/ u = t /\ deque[t] # <<>> /\ deque'[t] = Tail(deque[t])
                \/ /\ msg[t] \in Due(u)
                   /\ deque'[u] \in {Append(deque[u], msg[t]), <<msg[t]>>}
<1> DEFINE Empties == \/ UNCHANGED msg
                      \/ \E m \in Message \cup {NoMsg} : msg' = [msg EXCEPT ![t] = m]
           Queues == \A u \in Thread :
                \/ deque'[u] = deque[u]
                \/ u = t /\ deque[t] # <<>> /\ deque'[t] = Tail(deque[t])
                \/ /\ msg[t] \in Due(u)
                   /\ deque'[u] \in {Append(deque[u], msg[t]), <<msg[t]>>}
<1>0. /\ DOMAIN deque = Thread /\ open[SideOf[t]] /\ serve[t] /\ SideOf[t] \in Side
      /\ wire[SideOf[t]] \in Seq(Message) /\ deque[t] \in Seq(Due(t))
  BY Sides DEF TypeInv, Contents, DequeInv, WireInv, QuietInv
<1>1. CASE ServeEnter(t) \/ ServeWoken(t)
  <2>1. CASE Ready(t)
    <3>1. \E p : Proceed(t, p) /\ UNCHANGED serve
      BY <1>1, <2>1 DEF ServeEnter, ServeWoken
    <3>2. UNCHANGED <<msg, deque>> \/ (deque[t] # <<>> /\ TakeOwn(t))
      BY <3>1 DEF Proceed
    <3>3. deque[t] # <<>> => Head(deque[t]) \in Message
      <4>1. deque[t] \in Seq(Message)
        BY <1>0, SeqGrows DEF Due, Sent
      <4> QED
        BY <4>1
    <3> QED
      BY <1>0, <3>1, <3>2, <3>3 DEF TakeOwn
  <2>2. CASE ~Ready(t)
    BY <1>1, <2>2 DEF ServeEnter, ServeWoken
  <2> QED
    BY <2>1, <2>2
<1>2. CASE PollData(t)
  <2>1. Head(wire[SideOf[t]]) \in Message
    BY <1>0, <1>2 DEF PollData
  <2> QED
    BY <1>2, <2>1 DEF PollData, Received, boundVars
<1>3. CASE HandOver(t) \/ StartWorker(t) \/ DropMessage(t)
  <2>1. msg' = [msg EXCEPT ![t] = NoMsg] /\ UNCHANGED serve
    BY <1>3 DEF HandOver, StartWorker, DropMessage, ReceiveNext, boundVars
  <2>2. CASE HandOver(t)
    <3>1. PICK u \in Recipient(t) : deque' = [deque EXCEPT ![u] = Append(@, msg[t])]
      BY <2>2 DEF HandOver
    <3>2. u \in Thread /\ msg[t] \in Due(u)
      BY <2>2, <3>1, GotTypes DEF HandOver
    <3> QED
      BY <1>0, <2>1, <3>1, <3>2
  <2>3. CASE StartWorker(t)
    <3>1. PICK u \in Worker \cap On(SideOf[t]) : deque' = [deque EXCEPT ![u] = <<msg[t]>>]
      BY <2>3 DEF StartWorker
    <3>2. u \in Thread /\ SideOf[u] = SideOf[t]
      BY <3>1 DEF On
    <3>3. msg[t] \in Due(u)
      BY <2>3, <3>2, GotTypes DEF StartWorker
    <3> QED
      BY <1>0, <2>1, <3>1, <3>2, <3>3
  <2>4. CASE DropMessage(t)
    BY <2>1, <2>4 DEF DropMessage, boundVars
  <2> QED
    BY <1>3, <2>2, <2>3, <2>4
<1>4. CASE \/ WaitDone(t) \/ LoopEnds(t) \/ PollWoken(t) \/ LeaveEmpty(t) \/ TakeMessage(t)
           \/ DispatchReply(t) \/ DispatchRequest(t) \/ SendReply(t)
           \/ Close(t, "closing", "end") \/ UserCloses(t)
           \/ SendClose(t) \/ ClientCalls(t) \/ HandlerCalls(t)
  BY <1>4 DEF WaitDone, LoopEnds, PollWoken, Received, LeaveEmpty, TakeMessage, DispatchReply, DispatchRequest,
     SendReply, Close, UserCloses, SendClose, ClientCalls, HandlerCalls, SendRequest, boundVars
<1> QED
  BY <1>1, <1>2, <1>3, <1>4 DEF Talk

LEMMA QuietKeeps ==
    ASSUME TypeInv, QuietInv, [Next]_vars
    PROVE  QuietInv'
<1> SUFFICES ASSUME \A d \in Side : open'[d]
             PROVE  /\ \A t \in Thread : /\ serve'[t] /\ pc'[t] \notin {"raise", "eof", "threads", "join"}
                                         /\ msg'[t] # EOF /\ deque'[t] \in Seq(Due(t)')
                    /\ \A d \in Side : cleaner'[d] = "none"
  BY DEF QuietInv
<1>1. /\ \A d \in Side : open[d]
      /\ \/ \E t \in Thread : Talk(t)
         \/ \E s \in SeqNo : Expire(s)
         \/ UNCHANGED vars
  BY QuietSteps
<1>2. /\ \A t \in Thread : /\ serve[t] /\ pc[t] \notin {"raise", "eof", "threads", "join"}
                           /\ msg[t] # EOF /\ deque[t] \in Seq(Due(t)')
                           /\ Due(t) \subseteq Due(t)'
      /\ \A d \in Side : cleaner[d] = "none"
  <2>1. \A t \in Thread : Due(t) \subseteq Due(t)'
    BY OpenStays DEF Grown
  <2> QED
    BY <1>1, <2>1, SeqGrows DEF QuietInv
<1>3. CASE \E t \in Thread : Talk(t)
  <2>1. PICK t \in Thread : Talk(t)
    BY <1>3
  <2>2. UNCHANGED cleaner
    BY <2>1 DEF Talk, WaitDone, LoopEnds, ServeEnter, ServeWoken, PollData, PollWoken, LeaveEmpty,
       TakeMessage, HandOver, StartWorker, DropMessage, DispatchReply, DispatchRequest, SendReply, Close,
       UserCloses, SendClose, ClientCalls, HandlerCalls, closeVars
  <2>3. \A u \in Thread : serve'[u] /\ pc'[u] \notin {"raise", "eof", "threads", "join"}
    BY <1>1, <1>2, <2>1, TalkGoes, TalkHands
  <2>4. \A u \in Thread : msg'[u] # EOF
    <3>1. \A m \in Message \cup {NoMsg} : m # EOF
      BY DEF Message, NoMsg, EOF
    <3>2. DOMAIN msg = Thread
      BY DEF TypeInv, Contents, HandInv
    <3>3. UNCHANGED msg \/ \E m \in Message \cup {NoMsg} : msg' = [msg EXCEPT ![t] = m]
      BY <1>1, <2>1, TalkHands
    <3> QED
      BY <1>2, <3>1, <3>2, <3>3
  <2>5. ASSUME NEW u \in Thread PROVE deque'[u] \in Seq(Due(u)')
    <3>1. \/ deque'[u] = deque[u]
          \/ deque[u] # <<>> /\ deque'[u] = Tail(deque[u])
          \/ msg[t] \in Due(u)' /\ deque'[u] \in {Append(deque[u], msg[t]), <<msg[t]>>}
      BY <1>1, <1>2, <2>1, TalkHands
    <3> DEFINE D == Due(u)'
    <3>2. deque[u] \in Seq(D)
      BY <1>2
    <3> HIDE DEF D
    <3>3. \A x \in D : Append(deque[u], x) \in Seq(D) /\ <<x>> \in Seq(D)
      BY <3>2
    <3>4. deque[u] # <<>> => Tail(deque[u]) \in Seq(D)
      BY <3>2, TailOf
    <3> QED
      BY <3>1, <3>2, <3>3, <3>4 DEF D
  <2> QED
    BY <1>2, <2>2, <2>3, <2>4, <2>5
<1>4. CASE (\E s \in SeqNo : Expire(s)) \/ UNCHANGED vars
  <2>1. UNCHANGED <<serve, pc, msg, deque, cleaner>>
    BY <1>4 DEF Expire, vars, threadVars, boundVars, closeVars
  <2> QED
    BY <1>2, <2>1
<1> QED
  BY <1>1, <1>3, <1>4

-----------------------------------------------------------------------------
(* The frames of a thread with the open requests O that waits for a: an inner handler
   serves a later request than an outer one, and was begun while waiting for a later
   one; only the outermost frame can have been begun while waiting for nothing. *)
HandOf(s) == {s[i].arg : i \in {j \in 1 .. Len(s) : s[j].op = "handle"}}

FrameIn(f, O, a) ==
    /\ f.await # NoSeq => f.await \in O /\ (a # NoSeq => f.await < a)
    /\ f.op = "close" => f.await = NoSeq

Over(f, g) ==
    /\ f.await # NoSeq => g.await < f.await
    /\ f.op = "handle" => f.await # NoSeq /\ (g.op = "handle" => g.arg < f.arg)

FramesIn(O, a, s) ==
    /\ O \subseteq {a} \cup {s[i].await : i \in 1 .. Len(s)}
    /\ \A i \in 1 .. Len(s) : /\ FrameIn(s[i], O, a)
                              /\ \A j \in 1 .. Len(s) : i < j => Over(s[i], s[j])

LEMMA FrameTypes ==
    /\ \A f \in Frame : /\ f.await \in Int /\ (f.await # NoSeq => f.await \in Nat)
                        /\ f.op \in {"handle", "close"} /\ (f.op = "handle" => f.arg \in Nat)
    /\ NoSeq = -1
<1>1. \A f \in Frame : /\ f.await \in SeqNo \cup {NoSeq} /\ f.op \in {"handle", "close"}
                       /\ (f.op = "handle" => f.arg \in SeqNo)
  BY DEF Frame
<1> QED
  BY <1>1, BoundServingAssumption DEF SeqNo, NoSeq

LEMMA OnTop ==
    ASSUME NEW s \in Seq(Frame), NEW f \in Frame
    PROVE  /\ <<f>> \o s \in Seq(Frame) /\ Len(<<f>> \o s) = Len(s) + 1
           /\ \A i \in 1 .. Len(s) + 1 : (<<f>> \o s)[i] = IF i = 1 THEN f ELSE s[i - 1]
<1>1. <<f>> \in Seq(Frame) /\ Len(<<f>>) = 1 /\ <<f>>[1] = f
  OBVIOUS
<1> QED
  BY <1>1

(* a frame comes on top of the others *)
LEMMA FramesPush ==
    ASSUME NEW O, NEW a, NEW s \in Seq(Frame), FramesIn(O, a, s), NEW f \in Frame, f.await = a,
           a # NoSeq => a \in O, f.op = "close" => a = NoSeq,
           f.op = "handle" => /\ \A r \in HandOf(s) : r < f.arg
                              /\ a = NoSeq => s = <<>>
    PROVE  /\ FramesIn(O, NoSeq, <<f>> \o s)
           /\ HandOf(<<f>> \o s) = HandOf(s) \cup (IF f.op = "handle" THEN {f.arg} ELSE {})
<1> DEFINE n == Len(s)
           z == <<f>> \o s
<1>1. /\ n \in Nat /\ Len(z) = n + 1 /\ \A i \in 1 .. n + 1 : z[i] = IF i = 1 THEN f ELSE s[i - 1]
      /\ \A i \in 1 .. n : s[i] \in Frame
  BY OnTop
<1> HIDE DEF n, z
<1>2. z[1] = f /\ \A i \in 1 .. n : i + 1 \in 1 .. n + 1 /\ z[i + 1] = s[i]
  BY <1>1
<1>3. \A i \in 1 .. n + 1 : i = 1 \/ (i - 1 \in 1 .. n /\ z[i] = s[i - 1])
  BY <1>1
<1>4. O \subseteq {NoSeq} \cup {z[i].await : i \in 1 .. n + 1}
  <2> SUFFICES ASSUME NEW o \in O, o # NoSeq PROVE \E i \in 1 .. n + 1 : o = z[i].await
    OBVIOUS
  <2>1. CASE o = a
    BY <1>1, <1>2, <2>1
  <2>2. CASE o # a
    <3>1. \E i \in 1 .. n : o = s[i].await
      BY <2>2 DEF FramesIn, n
    <3> QED
      BY <1>2, <3>1
  <2> QED
    BY <2>1, <2>2
<1>5. ASSUME NEW i \in 1 .. n + 1 PROVE FrameIn(z[i], O, NoSeq)
  <2>1. CASE i = 1
    BY <1>2, <2>1 DEF FrameIn
  <2>2. CASE i # 1
    <3>1. FrameIn(s[i - 1], O, a)
      BY <1>3, <2>2 DEF FramesIn, n
    <3> QED
      BY <1>3, <2>2, <3>1 DEF FrameIn
  <2> QED
    BY <2>1, <2>2
<1>6. \A i \in 1 .. n : Over(f, s[i])
  <2> SUFFICES ASSUME NEW i \in 1 .. n PROVE Over(f, s[i])
    OBVIOUS
  <2>1. FrameIn(s[i], O, a) /\ s[i] \in Frame
    BY <1>1 DEF FramesIn, n
  <2>2. a # NoSeq => s[i].await < a
    <3> SUFFICES ASSUME a # NoSeq PROVE s[i].await < a
      OBVIOUS
    <3>1. CASE s[i].await = NoSeq
      <4>1. a \in Nat
        BY FrameTypes
      <4> QED
        BY <3>1, <4>1, FrameTypes
    <3>2. CASE s[i].await # NoSeq
      BY <2>1, <3>2 DEF FrameIn
    <3> QED
      BY <3>1, <3>2
  <2>3. ASSUME f.op = "handle" PROVE a # NoSeq
    BY <2>3 DEF n
  <2>4. ASSUME f.op = "handle", s[i].op = "handle" PROVE s[i].arg < f.arg
    BY <2>4 DEF HandOf, n
  <2> QED
    BY <2>2, <2>3, <2>4 DEF Over
<1>7. ASSUME NEW i \in 1 .. n + 1, NEW j \in 1 .. n + 1, i < j PROVE Over(z[i], z[j])
  <2>1. j # 1 /\ j - 1 \in 1 .. n /\ z[j] = s[j - 1]
    BY <1>1, <1>3, <1>7
  <2>2. CASE i = 1
    BY <1>2, <1>6, <2>1, <2>2
  <2>3. CASE i # 1
    <3>1. i - 1 \in 1 .. n /\ z[i] = s[i - 1] /\ i - 1 < j - 1
      BY <1>1, <1>3, <1>7, <2>3
    <3> QED
      BY <2>1, <3>1 DEF FramesIn, n
  <2> QED
    BY <2>2, <2>3
<1>8. HandOf(z) = HandOf(s) \cup (IF f.op = "handle" THEN {f.arg} ELSE {})
  <2>1. \A x : x \in HandOf(z) <=> \E i \in 1 .. n + 1 : z[i].op = "handle" /\ x = z[i].arg
    BY <1>1 DEF HandOf
  <2>2. \A x : x \in HandOf(s) <=> \E i \in 1 .. n : s[i].op = "handle" /\ x = s[i].arg
    BY DEF HandOf, n
  <2>3. 1 \in 1 .. n + 1
    BY <1>1
  <2>4. \A x : (\E i \in 1 .. n + 1 : z[i].op = "handle" /\ x = z[i].arg)
                 <=> (f.op = "handle" /\ x = f.arg) \/ (\E i \in 1 .. n : s[i].op = "handle" /\ x = s[i].arg)
    BY <1>2, <1>3, <2>3
  <2> QED
    BY <2>1, <2>2, <2>4
<1> QED
  BY <1>1, <1>4, <1>5, <1>7, <1>8 DEF FramesIn, z

(* the innermost handler answers *)
LEMMA FramesPop ==
    ASSUME NEW O, NEW s \in Seq(Frame), s # <<>>, FramesIn(O, NoSeq, s), Head(s).op = "handle",
           NoSeq \notin O
    PROVE  /\ FramesIn(O, Head(s).await, Tail(s))
           /\ HandOf(Tail(s)) = HandOf(s) \ {Head(s).arg}
           /\ Head(s).arg \in HandOf(s) /\ \A r \in HandOf(s) : r <= Head(s).arg
           /\ Head(s).await # NoSeq => Head(s).await \in O
           /\ Head(s).await = NoSeq => Tail(s) = <<>> /\ O = {}
<1> DEFINE n == Len(s) - 1
           z == Tail(s)
<1>1. /\ Len(s) = n + 1 /\ n \in Nat /\ z \in Seq(Frame) /\ Len(z) = n /\ Head(s) = s[1]
      /\ \A i \in 1 .. n : z[i] = s[i + 1] /\ i + 1 \in 1 .. n + 1
      /\ \A i \in 1 .. n + 1 : s[i] \in Frame
      /\ n = 0 => z = <<>>
  <2>1. Len(s) >= 1 /\ Len(s) \in Nat /\ Tail(s) \in Seq(Frame) /\ Len(Tail(s)) = Len(s) - 1
    OBVIOUS
  <2>2. Head(s) = s[1] /\ \A i \in 1 .. Len(s) - 1 : Tail(s)[i] = s[i + 1]
    BY <2>1
  <2>3. Len(Tail(s)) = 0 => Tail(s) = <<>>
    <3>1. \A q \in Seq(Frame) : Len(q) = 0 => q = <<>>
      OBVIOUS
    <3> QED
      BY <2>1, <3>1
  <2>4. \A i \in 1 .. Len(s) - 1 : i + 1 \in 1 .. Len(s)
    BY <2>1
  <2>5. \A i \in 1 .. Len(s) : s[i] \in Frame
    OBVIOUS
  <2> QED
    BY <2>1, <2>2, <2>3, <2>4, <2>5
<1> HIDE DEF n, z
<1>2. /\ 1 \in 1 .. n + 1 /\ \A i \in 1 .. n : 1 < i + 1
      /\ \A i \in 1 .. n + 1 : i = 1 \/ (i - 1 \in 1 .. n /\ s[i] = z[i - 1])
  BY <1>1
<1>3. /\ FrameIn(s[1], O, NoSeq) /\ s[1] \in Frame
      /\ \A i \in 1 .. n : FrameIn(z[i], O, NoSeq) /\ Over(s[1], z[i]) /\ z[i] \in Frame
  BY <1>1, <1>2 DEF FramesIn
<1>4. O \subseteq {s[1].await} \cup {z[i].await : i \in 1 .. n} \cup {NoSeq}
  <2> SUFFICES ASSUME NEW o \in O, o # NoSeq, o # s[1].await PROVE \E i \in 1 .. n : o = z[i].await
    OBVIOUS
  <2>1. \E i \in 1 .. n + 1 : o = s[i].await
    BY <1>1 DEF FramesIn
  <2> QED
    BY <1>2, <2>1
<1>5. ASSUME s[1].await = NoSeq PROVE n = 0 /\ z = <<>> /\ O \subseteq {NoSeq}
  <2>1. \A i \in 1 .. n : FALSE
    BY <1>1, <1>3, <1>5 DEF Over
  <2>2. n = 0
    BY <1>1, <2>1
  <2> QED
    BY <1>1, <1>4, <1>5, <2>1, <2>2
<1>6. \A i \in 1 .. n : FrameIn(z[i], O, s[1].await)
  BY <1>3 DEF FrameIn, Over
<1>7. ASSUME NEW i \in 1 .. n, NEW j \in 1 .. n, i < j PROVE Over(z[i], z[j])
  <2>1. i + 1 < j + 1
    BY <1>7
  <2> QED
    BY <1>1, <2>1 DEF FramesIn
<1>8. FramesIn(O, s[1].await, z)
  <2>1. O \subseteq {s[1].await} \cup {z[i].await : i \in 1 .. n}
    <3>1. CASE s[1].await = NoSeq
      BY <1>5, <3>1
    <3>2. CASE s[1].await # NoSeq
      BY <1>4, <3>2
    <3> QED
      BY <3>1, <3>2
  <2> QED
    BY <1>1, <1>6, <1>7, <2>1 DEF FramesIn
<1>9. /\ HandOf(z) = HandOf(s) \ {s[1].arg}
      /\ s[1].arg \in HandOf(s) /\ \A r \in HandOf(s) : r <= s[1].arg
  <2>1. \A x : x \in HandOf(s) <=> \E i \in 1 .. n + 1 : s[i].op = "handle" /\ x = s[i].arg
    BY <1>1 DEF HandOf
  <2>2. \A x : x \in HandOf(z) <=> \E i \in 1 .. n : z[i].op = "handle" /\ x = z[i].arg
    BY <1>1 DEF HandOf
  <2>3. s[1].op = "handle" /\ s[1].arg \in Nat
    BY <1>1, <1>3, FrameTypes
  <2>4. \A i \in 1 .. n : z[i].op = "handle" => z[i].arg < s[1].arg /\ z[i].arg \in Nat
    BY <1>3, <2>3, FrameTypes DEF Over
  <2>5. \A x : x \in HandOf(s) <=> x = s[1].arg \/ x \in HandOf(z)
    BY <1>1, <1>2, <2>1, <2>2, <2>3
  <2>6. \A x \in HandOf(z) : x < s[1].arg /\ x \in Nat
    BY <2>2, <2>4
  <2>7. s[1].arg \notin HandOf(z)
    BY <2>3, <2>6
  <2>8. \A x \in HandOf(s) : x <= s[1].arg
    BY <2>3, <2>5, <2>6
  <2> QED
    BY <2>5, <2>7, <2>8
<1> QED
  BY <1>1, <1>3, <1>5, <1>8, <1>9 DEF FrameIn, z

(* a thread sends a request, has the answer to its last one, or waits no more *)
LEMMA FramesAsk ==
    ASSUME NEW O, NEW s \in Seq(Frame), FramesIn(O, NoSeq, s), NEW n \in Nat, \A o \in O : o < n, NoSeq \notin O
    PROVE  FramesIn(O \cup {n}, n, s)
  BY DEF FramesIn, FrameIn

LEMMA FramesTake ==
    ASSUME NEW O, NEW a \in O, NEW s \in Seq(Frame), FramesIn(O, a, s), O \subseteq Nat
    PROVE  FramesIn(O \ {a}, a, s) /\ \A o \in O : o <= a
<1>1. a # NoSeq /\ a \in Nat
  BY FrameTypes
<1>2. \A i \in 1 .. Len(s) : s[i].await # NoSeq => s[i].await \in O \ {a} /\ s[i].await < a
  BY <1>1 DEF FramesIn, FrameIn
<1>3. \A o \in O : o <= a
  BY <1>1, <1>2, FrameTypes DEF FramesIn
<1> QED
  BY <1>1, <1>2, <1>3 DEF FramesIn, FrameIn

LEMMA FramesWait ==
    ASSUME NEW O, NEW a, NEW s \in Seq(Frame), FramesIn(O, a, s), a \notin O
    PROVE  FramesIn(O, NoSeq, s)
  BY DEF FramesIn, FrameIn

(* a thread that handles nothing and waits for nothing has no open request *)
LEMMA FramesIdle ==
    ASSUME NEW O, NEW s \in Seq(Frame), FramesIn(O, NoSeq, s), HandOf(s) = {}, NoSeq \notin O
    PROVE  O = {}
<1>1. \A i \in 1 .. Len(s) : s[i].await = NoSeq
  <2> SUFFICES ASSUME NEW i \in 1 .. Len(s) PROVE s[i].await = NoSeq
    OBVIOUS
  <2>1. s[i] \in Frame
    BY ElementOf
  <2>2. s[i].op = "handle" => s[i].arg \in HandOf(s)
    BY DEF HandOf
  <2> QED
    BY <2>1, <2>2, FrameTypes DEF FramesIn, FrameIn
<1> QED
  BY <1>1 DEF FramesIn

-----------------------------------------------------------------------------
(* Where the messages are: each of them is in one place. *)
Spot == ({"wire"} \X Side) \cup ({"deque", "hand"} \X Thread)

MsgsIn(c) == {m \in Message : \E p \in Spot : \E i \in 1 .. Len(c[p]) : m = c[p][i]}

Once(c) ==
    \A p, q \in Spot : \A i \in 1 .. Len(c[p]), j \in 1 .. Len(c[q]) :
        c[p][i] = c[q][j] => p = q /\ i = j

Held ==
    [p \in Spot |-> CASE p[1] = "wire" -> wire[p[2]]
                      [] p[1] = "deque" -> deque[p[2]]
                      [] OTHER -> IF msg[p[2]] \in Message THEN <<msg[p[2]]>> ELSE <<>>]

LEMMA TakenOut ==
    ASSUME NEW c, \A q \in Spot : c[q] \in Seq(Message), Once(c), NEW p \in Spot, c[p] # <<>>,
           NEW e, \A q \in Spot : e[q] = IF q = p THEN Tail(c[p]) ELSE c[q]
    PROVE  /\ \A q \in Spot : e[q] \in Seq(Message)
           /\ Once(e) /\ MsgsIn(e) = MsgsIn(c) \ {Head(c[p])} /\ Head(c[p]) \in MsgsIn(c)
<1> DEFINE s == c[p]
           n == Len(s)
           h == Head(s)
           z == Tail(s)
<1>1. s \in Seq(Message)
  OBVIOUS
<1>2. /\ n \in Nat /\ n >= 1 /\ h = s[1] /\ h \in Message /\ z \in Seq(Message) /\ Len(z) = n - 1
      /\ \A i \in 1 .. n - 1 : z[i] = s[i + 1]
  <2>1. s # <<>>
    OBVIOUS
  <2> HIDE DEF s
  <2>2. n \in Nat /\ n >= 1 /\ z \in Seq(Message) /\ Len(z) = n - 1
    BY <1>1, <2>1
  <2>3. h = s[1] /\ h \in Message /\ \A i \in 1 .. n - 1 : z[i] = s[i + 1]
    BY <1>1, <2>1, <2>2
  <2> QED
    BY <2>2, <2>3
<1>3. e[p] = z /\ \A q \in Spot : q # p => e[q] = c[q]
  OBVIOUS
<1>4. c[p] = s /\ Len(c[p]) = n
  OBVIOUS
<1> HIDE DEF s, n, h, z
<1>5. \A i \in 1 .. n - 1 : i + 1 \in 1 .. n /\ i + 1 # 1
  BY <1>2
<1>6. \A q \in Spot : e[q] \in Seq(Message)
  BY <1>2, <1>3
<1>7. Once(e)
  <2> SUFFICES ASSUME NEW q \in Spot, NEW r \in Spot, NEW i \in 1 .. Len(e[q]), NEW j \in 1 .. Len(e[r]),
                      e[q][i] = e[r][j]
               PROVE  q = r /\ i = j
    BY DEF Once
  <2>1. CASE q # p /\ r # p
    BY <1>3, <2>1 DEF Once
  <2>2. CASE q = p /\ r # p
    <3>1. i \in 1 .. n - 1 /\ i + 1 \in 1 .. Len(c[p]) /\ c[p][i + 1] = c[r][j] /\ j \in 1 .. Len(c[r])
      BY <1>2, <1>3, <1>4, <1>5, <2>2
    <3> QED
      BY <2>2, <3>1 DEF Once
  <2>3. CASE q # p /\ r = p
    <3>1. j \in 1 .. n - 1 /\ j + 1 \in 1 .. Len(c[p]) /\ c[p][j + 1] = c[q][i] /\ i \in 1 .. Len(c[q])
      BY <1>2, <1>3, <1>4, <1>5, <2>3
    <3> QED
      BY <2>3, <3>1 DEF Once
  <2>4. CASE q = p /\ r = p
    <3>1. /\ i \in 1 .. n - 1 /\ j \in 1 .. n - 1 /\ c[p][i + 1] = c[p][j + 1]
          /\ i + 1 \in 1 .. Len(c[p]) /\ j + 1 \in 1 .. Len(c[p])
      BY <1>2, <1>3, <1>4, <1>5, <2>4
    <3>2. i + 1 = j + 1
      BY <3>1 DEF Once
    <3> QED
      BY <1>2, <2>4, <3>1, <3>2
  <2> QED
    BY <2>1, <2>2, <2>3, <2>4
<1>8. 1 \in 1 .. Len(c[p]) /\ h = c[p][1]
  BY <1>2, <1>4
<1>9. h \in MsgsIn(c)
  BY <1>2, <1>8 DEF MsgsIn
<1>10. ASSUME NEW m \in MsgsIn(e) PROVE m \in MsgsIn(c) /\ m # h
  <2>0. PICK q \in Spot : \E i \in 1 .. Len(e[q]) : m = e[q][i] /\ m \in Message
    BY DEF MsgsIn
  <2>1. PICK i \in 1 .. Len(e[q]) : m = e[q][i] /\ m \in Message
    BY <2>0
  <2>2. CASE q # p
    <3>1. i \in 1 .. Len(c[q]) /\ m = c[q][i]
      BY <1>3, <2>1, <2>2
    <3> QED
      BY <1>8, <2>1, <2>2, <3>1 DEF MsgsIn, Once
  <2>3. CASE q = p
    <3>1. i + 1 \in 1 .. Len(c[p]) /\ i + 1 # 1 /\ m = c[p][i + 1]
      BY <1>2, <1>3, <1>4, <1>5, <2>1, <2>3
    <3> QED
      BY <1>8, <2>1, <3>1 DEF MsgsIn, Once
  <2> QED
    BY <2>2, <2>3
<1>11. ASSUME NEW m \in MsgsIn(c), m # h PROVE m \in MsgsIn(e)
  <2>0. PICK q \in Spot : \E i \in 1 .. Len(c[q]) : m = c[q][i] /\ m \in Message
    BY DEF MsgsIn
  <2>1. PICK i \in 1 .. Len(c[q]) : m = c[q][i] /\ m \in Message
    BY <2>0
  <2>2. CASE q # p
    BY <1>3, <2>1, <2>2 DEF MsgsIn
  <2>3. CASE q = p
    <3>1. i # 1 /\ i \in 1 .. n
      BY <1>4, <1>8, <1>11, <2>1, <2>3
    <3>2. i - 1 \in 1 .. n - 1 /\ z[i - 1] = s[i]
      BY <1>2, <3>1
    <3>3. i - 1 \in 1 .. Len(e[p]) /\ m = e[p][i - 1]
      BY <1>2, <1>3, <1>4, <2>1, <2>3, <3>2
    <3> QED
      BY <2>1, <3>3 DEF MsgsIn
  <2> QED
    BY <2>2, <2>3
<1> QED
  BY <1>6, <1>7, <1>9, <1>10, <1>11 DEF h, s

LEMMA PutIn ==
    ASSUME NEW c, \A q \in Spot : c[q] \in Seq(Message), Once(c), NEW p \in Spot,
           NEW m \in Message, m \notin MsgsIn(c),
           NEW e, \A q \in Spot : e[q] = IF q = p THEN Append(c[p], m) ELSE c[q]
    PROVE  /\ \A q \in Spot : e[q] \in Seq(Message)
           /\ Once(e) /\ MsgsIn(e) = MsgsIn(c) \cup {m}
<1> DEFINE s == c[p]
           n == Len(s)
           z == Append(s, m)
<1>1. s \in Seq(Message) /\ n \in Nat
  OBVIOUS
<1>2. /\ z \in Seq(Message) /\ Len(z) = n + 1 /\ z[n + 1] = m
      /\ \A i \in 1 .. n : z[i] = s[i]
  <2> HIDE DEF s
  <2> QED
    BY <1>1
<1>3. e[p] = z /\ \A q \in Spot : q # p => e[q] = c[q]
  OBVIOUS
<1>4. c[p] = s /\ Len(c[p]) = n
  OBVIOUS
<1> HIDE DEF s, n, z
<1>5. n + 1 \in 1 .. n + 1 /\ \A i \in 1 .. n + 1 : i = n + 1 \/ i \in 1 .. n
  BY <1>1
<1>6. \A i \in 1 .. n : i \in 1 .. n + 1
  BY <1>1
<1>7. \A q \in Spot : e[q] \in Seq(Message)
  BY <1>2, <1>3
<1>8. \A q \in Spot : \A i \in 1 .. Len(e[q]) :
         (q = p /\ i = n + 1 /\ e[q][i] = m) \/ (i \in 1 .. Len(c[q]) /\ e[q][i] = c[q][i])
  BY <1>2, <1>3, <1>4, <1>5
<1>9. \A q \in Spot : \A i \in 1 .. Len(c[q]) : i \in 1 .. Len(e[q]) /\ e[q][i] = c[q][i]
  BY <1>2, <1>3, <1>4, <1>6
<1>10. \A q \in Spot : \A i \in 1 .. Len(c[q]) : c[q][i] # m
  BY DEF MsgsIn
<1>11. Once(e)
  <2> SUFFICES ASSUME NEW q \in Spot, NEW r \in Spot, NEW i \in 1 .. Len(e[q]), NEW j \in 1 .. Len(e[r]),
                      e[q][i] = e[r][j]
               PROVE  q = r /\ i = j
    BY DEF Once
  <2>1. /\ (q = p /\ i = n + 1 /\ e[q][i] = m) \/ (i \in 1 .. Len(c[q]) /\ e[q][i] = c[q][i])
        /\ (r = p /\ j = n + 1 /\ e[r][j] = m) \/ (j \in 1 .. Len(c[r]) /\ e[r][j] = c[r][j])
    BY <1>8
  <2>2. /\ i \in 1 .. Len(c[q]) => c[q][i] # m
        /\ j \in 1 .. Len(c[r]) => c[r][j] # m
    BY <1>10
  <2>3. i \in 1 .. Len(c[q]) /\ j \in 1 .. Len(c[r]) /\ c[q][i] = c[r][j] => q = r /\ i = j
    BY DEF Once
  <2> QED
    BY <2>1, <2>2, <2>3
<1>12. n + 1 \in 1 .. Len(e[p]) /\ e[p][n + 1] = m
  BY <1>2, <1>3, <1>5
<1>13. \A x \in Message : x \in MsgsIn(e) <=> x \in MsgsIn(c) \/ x = m
  BY <1>8, <1>9, <1>12 DEF MsgsIn
<1> QED
  BY <1>7, <1>11, <1>13 DEF MsgsIn

LEMMA MovedOn ==
    ASSUME NEW c, \A q \in Spot : c[q] \in Seq(Message), Once(c), NEW p \in Spot, c[p] # <<>>,
           NEW r \in Spot, r # p,
           NEW e, \A q \in Spot : e[q] = IF q = p THEN Tail(c[p])
                                         ELSE IF q = r THEN Append(c[r], Head(c[p])) ELSE c[q]
    PROVE  Once(e) /\ MsgsIn(e) = MsgsIn(c) /\ Head(c[p]) \in MsgsIn(c)
<1> DEFINE b == [q \in Spot |-> IF q = p THEN Tail(c[p]) ELSE c[q]]
           h == Head(c[p])
<1>1. \A q \in Spot : b[q] = IF q = p THEN Tail(c[p]) ELSE c[q]
  OBVIOUS
<1>2. \A q \in Spot : e[q] = IF q = r THEN Append(b[r], h) ELSE b[q]
  OBVIOUS
<1> HIDE DEF b
<1>3. /\ \A q \in Spot : b[q] \in Seq(Message)
      /\ Once(b) /\ MsgsIn(b) = MsgsIn(c) \ {h} /\ h \in MsgsIn(c)
  BY <1>1, TakenOut
<1>4. h \in Message /\ h \notin MsgsIn(b)
  BY <1>3 DEF MsgsIn
<1> HIDE DEF h
<1>5. Once(e) /\ MsgsIn(e) = MsgsIn(b) \cup {h}
  BY <1>2, <1>3, <1>4, PutIn
<1> QED
  BY <1>3, <1>5 DEF h

(* the places, by what they hold *)
WireAt(d)  == <<"wire", d>>
QueueAt(t) == <<"deque", t>>
HandAt(t)  == <<"hand", t>>

LEMMA Places ==
    /\ \A d \in Side : WireAt(d) \in Spot
    /\ \A t \in Thread : QueueAt(t) \in Spot /\ HandAt(t) \in Spot
    /\ \A p \in Spot : \/ \E d \in Side : p = WireAt(d)
                       \/ \E t \in Thread : p = QueueAt(t) \/ p = HandAt(t)
    /\ \A d \in Side : \A t \in Thread : WireAt(d) # QueueAt(t) /\ WireAt(d) # HandAt(t)
    /\ \A t, u \in Thread : QueueAt(t) # HandAt(u)
    /\ \A t, u \in Thread : QueueAt(t) = QueueAt(u) => t = u
    /\ \A t, u \in Thread : HandAt(t) = HandAt(u) => t = u
    /\ \A d, e \in Side : WireAt(d) = WireAt(e) => d = e
  BY DEF Spot, WireAt, QueueAt, HandAt

Hand(m) == IF m \in Message THEN <<m>> ELSE <<>>

LEMMA HeldIs ==
    /\ \A d \in Side : Held[WireAt(d)] = wire[d] /\ Held'[WireAt(d)] = wire'[d]
    /\ \A t \in Thread : /\ Held[QueueAt(t)] = deque[t] /\ Held'[QueueAt(t)] = deque'[t]
                         /\ Held[HandAt(t)] = Hand(msg[t]) /\ Held'[HandAt(t)] = Hand(msg'[t])
<1>1. ASSUME NEW d \in Side PROVE Held[WireAt(d)] = wire[d] /\ Held'[WireAt(d)] = wire'[d]
  BY Places DEF Held, WireAt
<1>2. ASSUME NEW t \in Thread
      PROVE  /\ Held[QueueAt(t)] = deque[t] /\ Held'[QueueAt(t)] = deque'[t]
             /\ Held[HandAt(t)] = Hand(msg[t]) /\ Held'[HandAt(t)] = Hand(msg'[t])
  BY Places DEF Held, Hand, QueueAt, HandAt
<1> QED
  BY <1>1, <1>2

-----------------------------------------------------------------------------
(* the conversations of a connection of which both ends are open *)
Waits   == {"loop", "asleep", "poll", "received", "dispatch"}
Hands   == [v \in Thread |-> HandOf(stack[v])]
Outs    == [v \in Thread |-> Numbers(v) \ done]
Waiters == {v \in Thread : pc[v] \in Waits /\ await[v] \in Outs[v]}
Flying  == MsgsIn(Held)

(* not occupied, and without a request of its own to wait for *)
Free(u) == u \notin Client /\ await[u] = NoSeq /\ Hands[u] = {} /\ Outs[u] = {}

CountIn(u) ==
    /\ occupation[u] = Cardinality(Hands[u]) + Cardinality(Outs[u])
    /\ occupation[u] = 0 => remote[u] = Unbound \/ pc[u] = "dispatch"
    /\ pc[u] = "dispatch" => remote[u] = msg[u].from /\ (msg[u].to = u \/ Free(u))

QueueIn(u) ==
    /\ deque[u] = <<>> \/ \E m \in Message :
         /\ deque[u] = <<m>>
         /\ \/ m.to = u
            \/ /\ Free(u)
               /\ \/ pc[u] \in {"loop", "asleep"}
                  \/ pc[u] \in {"closing", "end"} /\ closed[SideOf[u]]
    /\ u \in Worker /\ pc[u] = "idle" => deque[u] = <<>> /\ stack[u] = <<>> /\ Outs[u] = {}

StackIn(u) ==
    /\ FramesIn(Outs[u], await[u], stack[u])
    /\ pc[u] \in Waits /\ await[u] = NoSeq => stack[u] = <<>>
    /\ pc[u] \notin Waits => await[u] = NoSeq

LocalInv == \A u \in Thread : CountIn(u) /\ QueueIn(u) /\ StackIn(u)
CoreInv  == \E P : Core(P, Hands, Outs, remote, Waiters, Flying)

ConvInv == Both => CoreInv /\ Once(Held) /\ LocalInv

(* what a step of such a connection starts from *)
Together == /\ TypeInv /\ QuietInv /\ ClientInv /\ SleepInv
            /\ Both /\ CoreInv /\ Once(Held) /\ LocalInv

-----------------------------------------------------------------------------
LEMMA NumbersAre ==
    ASSUME TypeInv, NEW x \in Thread
    PROVE  /\ Hands[x] = HandOf(stack[x]) /\ Outs[x] = Numbers(x) \ done
           /\ Hands[x] \subseteq SeqNo /\ Outs[x] \subseteq SeqNo
           /\ \A s \in Hands[x] \cup Outs[x] : s < issued /\ s \in Nat
           /\ IsFiniteSet(Hands[x]) /\ IsFiniteSet(Outs[x])
           /\ NoSeq \notin Outs[x]
           /\ stack[x] \in Seq(Frame)
           /\ await[x] \in Outs[x] \cup done \cup {NoSeq}
<1>1. /\ stack[x] \in Seq(Inside(x)) /\ stack[x] \in Seq(Frame) /\ await[x] \in Numbers(x) \cup {NoSeq}
  BY DEF TypeInv, Contents, NestInv, AwaitInv
<1>2. Hands[x] = HandOf(stack[x]) /\ Outs[x] = Numbers(x) \ done
  BY DEF Hands, Outs
<1>3. \A f \in Inside(x) : f.op = "handle" => f.arg \in SeqNo /\ f.arg < issued
  BY DEF Inside, Frame
<1>4. \A i \in 1 .. Len(stack[x]) : stack[x][i] \in Inside(x)
  BY <1>1, ElementOf
<1>5. \A s \in Hands[x] : s \in SeqNo /\ s < issued
  BY <1>2, <1>3, <1>4 DEF HandOf
<1>6. \A s \in Outs[x] : s \in SeqNo /\ s < issued
  BY <1>2 DEF Numbers
<1>7. IsFiniteSet(SeqNo) /\ SeqNo \subseteq Nat
  BY FS_Interval, BoundServingAssumption DEF SeqNo
<1>8. IsFiniteSet(Hands[x]) /\ IsFiniteSet(Outs[x])
  BY <1>5, <1>6, <1>7, FS_Subset
<1>9. NoSeq \notin Outs[x]
  BY <1>6, <1>7 DEF NoSeq
<1>10. await[x] \in Outs[x] \cup done \cup {NoSeq}
  BY <1>1, <1>2
<1> QED
  BY <1>1, <1>2, <1>5, <1>6, <1>7, <1>8, <1>9, <1>10

LEMMA NoSeqIs ==
    ASSUME TypeInv
    PROVE  NoSeq \notin done /\ NoSeq \notin SeqNo
  BY DEF TypeInv, Contents, NumberInv, SeqNo, NoSeq

(* a thread that handles nothing and waits for no answer has nothing open *)
LEMMA NothingOpen ==
    ASSUME TypeInv, LocalInv, NEW x \in Thread, x \notin Waiters, Hands[x] = {}
    PROVE  Outs[x] = {}
<1>1. StackIn(x) /\ stack[x] \in Seq(Frame) /\ HandOf(stack[x]) = {} /\ NoSeq \notin Outs[x]
  BY NumbersAre DEF LocalInv
<1>2. FramesIn(Outs[x], NoSeq, stack[x])
  <2>1. CASE pc[x] \in Waits
    <3>1. await[x] \notin Outs[x]
      BY <2>1 DEF Waiters
    <3> QED
      BY <1>1, <3>1, FramesWait DEF StackIn
  <2>2. CASE pc[x] \notin Waits
    BY <1>1, <2>2 DEF StackIn
  <2> QED
    BY <2>1, <2>2
<1> QED
  BY <1>1, <1>2, FramesIdle

(* a thread that is not occupied has nothing open and handles nothing *)
LEMMA NotOccupied ==
    ASSUME TypeInv, LocalInv, NEW x \in Thread
    PROVE  /\ occupation[x] \in Nat
           /\ occupation[x] = 0 <=> Hands[x] = {} /\ Outs[x] = {}
           /\ Hands[x] # {} /\ Outs[x] # {} => occupation[x] >= 2
<1>1. /\ IsFiniteSet(Hands[x]) /\ IsFiniteSet(Outs[x])
      /\ occupation[x] = Cardinality(Hands[x]) + Cardinality(Outs[x])
  BY NumbersAre DEF LocalInv, CountIn
<1>2. /\ Cardinality(Hands[x]) \in Nat /\ Cardinality(Outs[x]) \in Nat
      /\ Cardinality(Hands[x]) = 0 <=> Hands[x] = {}
      /\ Cardinality(Outs[x]) = 0 <=> Outs[x] = {}
  BY <1>1, FS_CardinalityType, FS_EmptySet
<1> QED
  BY <1>1, <1>2

(* a thread whose turn it is is bound to whom it talks to *)
LEMMA BoundTo ==
    ASSUME TypeInv, LocalInv, NEW P, Core(P, Hands, Outs, remote, Waiters, Flying),
           NEW x \in Thread, x \notin Waiters, pc[x] # "dispatch"
    PROVE  remote[x] = P[x]
<1>1. /\ Paired(P, Hands, Outs) /\ Remotes(P, Hands, remote) /\ P[x] \in Thread \cup {Unbound}
  BY DEF Core, Shapes
<1>2. CASE Hands[x] # {}
  BY <1>1, <1>2 DEF Remotes
<1>3. CASE Hands[x] = {}
  <2>1. Outs[x] = {}
    BY <1>3, NothingOpen
  <2>2. remote[x] = Unbound
    BY <1>3, <2>1, NotOccupied DEF LocalInv, CountIn
  <2>3. P[x] \notin Thread
    BY <1>1, <1>3, <2>1 DEF Paired
  <2> QED
    BY <1>1, <2>2, <2>3
<1> QED
  BY <1>2, <1>3

(* the handler's request is of whom it is bound to *)
LEMMA AskerIsBound ==
    ASSUME Together, NEW x \in Thread, pc[x] \notin Waits
    PROVE  Asker(x) \in {Unbound, remote[x]}
<1>1. x \notin Waiters /\ pc[x] # "dispatch"
  BY DEF Waiters, Waits
<1>2. PICK P : Core(P, Hands, Outs, remote, Waiters, Flying)
  BY DEF Together, CoreInv
<1>3. remote[x] = P[x]
  BY <1>1, <1>2, BoundTo DEF Together
<1> SUFFICES ASSUME stack[x] # <<>>, Head(stack[x]).op = "handle"
             PROVE  owner[Head(stack[x]).arg + 1].thread = remote[x]
  BY DEF Asker
<1>4. Head(stack[x]).arg \in Hands[x]
  <2>1. stack[x] \in Seq(Frame) /\ Hands[x] = HandOf(stack[x])
    BY NumbersAre DEF Together
  <2>2. 1 \in 1 .. Len(stack[x]) /\ Head(stack[x]) = stack[x][1]
    BY <2>1
  <2> QED
    BY <2>1, <2>2 DEF HandOf
<1>5. P[x] \in Thread /\ Head(stack[x]).arg \in Outs[P[x]]
  BY <1>2, <1>4 DEF Core, Paired
<1>6. Head(stack[x]).arg \in Numbers(P[x])
  BY <1>5 DEF Outs
<1> QED
  BY <1>3, <1>6 DEF Numbers

-----------------------------------------------------------------------------
(* what a step leaves as it was *)
LEMMA OutsStay ==
    ASSUME UNCHANGED <<issued, owner, done>>
    PROVE  Outs' = Outs /\ \A u \in Thread : Numbers(u)' = Numbers(u)
  BY DEF Outs, Numbers

LEMMA OthersStay ==
    ASSUME LocalInv, NEW u \in Thread, Outs'[u] = Outs[u],
           pc'[u] = pc[u], await'[u] = await[u], stack'[u] = stack[u], msg'[u] = msg[u],
           deque'[u] = deque[u], remote'[u] = remote[u], occupation'[u] = occupation[u],
           closed[SideOf[u]] => closed'[SideOf[u]]
    PROVE  CountIn(u)' /\ QueueIn(u)' /\ StackIn(u)'
<1>1. Hands'[u] = Hands[u] /\ (Free(u)' <=> Free(u))
  BY DEF Hands, Free
<1>2. CountIn(u) /\ QueueIn(u) /\ StackIn(u)
  BY DEF LocalInv
<1>3. CountIn(u)'
  BY <1>1, <1>2 DEF CountIn
<1>4. QueueIn(u)'
  BY <1>1, <1>2 DEF QueueIn
<1>5. StackIn(u)'
  BY <1>2 DEF StackIn
<1> QED
  BY <1>3, <1>4, <1>5

-----------------------------------------------------------------------------
(* where the messages go *)
LEMMA NoMessage == NoMsg \notin Message /\ EOF \notin Message /\ Hand(NoMsg) = <<>>
  BY DEF Message, NoMsg, EOF, Hand

LEMMA HeldSeqs ==
    ASSUME TypeInv, QuietInv, Both
    PROVE  /\ \A q \in Spot : Held[q] \in Seq(Message)
           /\ DOMAIN wire = Side /\ DOMAIN deque = Thread /\ DOMAIN msg = Thread
           /\ \A u \in Thread : deque[u] \in Seq(Message) /\ Hand(msg[u]) \in Seq(Message)
           /\ \A d \in Side : wire[d] \in Seq(Message)
<1>1. \A u \in Thread : deque[u] \in Seq(Message)
  <2> TAKE u \in Thread
  <2>1. deque[u] \in Seq(Due(u)) /\ Due(u) \subseteq Message
    BY DEF QuietInv, Both, Due, Sent
  <2> QED
    BY <2>1, SeqGrows
<1>2. \A u \in Thread : Hand(msg[u]) \in Seq(Message)
  BY DEF Hand
<1>3. \A d \in Side : wire[d] \in Seq(Message)
  BY DEF TypeInv, Contents, WireInv
<1>4. DOMAIN wire = Side /\ DOMAIN deque = Thread /\ DOMAIN msg = Thread
  BY DEF TypeInv, Contents, WireInv, DequeInv, HandInv
<1>5. \A q \in Spot : Held[q] \in Seq(Message)
  <2> TAKE q \in Spot
  <2>1. CASE \E d \in Side : q = WireAt(d)
    BY <1>3, <2>1, HeldIs
  <2>2. CASE \E u \in Thread : q = QueueAt(u) \/ q = HandAt(u)
    BY <1>1, <1>2, <2>2, HeldIs
  <2> QED
    BY <2>1, <2>2, Places
<1> QED
  BY <1>1, <1>2, <1>3, <1>4, <1>5

(* one place after the other *)
LEMMA HeldBy ==
    ASSUME NEW e,
           \A d \in Side : e[WireAt(d)] = wire'[d],
           \A t \in Thread : e[QueueAt(t)] = deque'[t] /\ e[HandAt(t)] = Hand(msg'[t])
    PROVE  \A q \in Spot : Held'[q] = e[q]
<1> TAKE q \in Spot
<1>1. CASE \E d \in Side : q = WireAt(d)
  BY <1>1, HeldIs
<1>2. CASE \E u \in Thread : q = QueueAt(u) \/ q = HandAt(u)
  BY <1>2, HeldIs
<1> QED
  BY <1>1, <1>2, Places

LEMMA FlyingStays ==
    ASSUME Once(Held), UNCHANGED <<wire, deque>>, \A u \in Thread : Hand(msg'[u]) = Hand(msg[u])
    PROVE  Once(Held)' /\ Flying' = Flying
<1>1. \A q \in Spot : Held'[q] = Held[q]
  BY HeldBy, HeldIs
<1>2. Once(Held') /\ MsgsIn(Held') = MsgsIn(Held)
  BY <1>1 DEF Once, MsgsIn
<1> QED
  BY <1>2 DEF Once, Flying, MsgsIn

LEMMA FlyingLost ==
    ASSUME TypeInv, QuietInv, Both, Once(Held), NEW t \in Thread, msg[t] \in Message,
           msg' = [msg EXCEPT ![t] = NoMsg], UNCHANGED <<wire, deque>>
    PROVE  Once(Held)' /\ Flying' = Flying \ {msg[t]} /\ msg[t] \in Flying
<1> DEFINE p == HandAt(t)
<1>1. p \in Spot /\ Held[p] = <<msg[t]>> /\ Held[p] # <<>>
  <2>1. Hand(msg[t]) = <<msg[t]>>
    BY DEF Hand
  <2> QED
    BY <2>1, Places, HeldIs
<1>2. Tail(Held[p]) = <<>> /\ Head(Held[p]) = msg[t]
  BY <1>1
<1>3. ASSUME NEW q \in Spot PROVE Held'[q] = IF q = p THEN Tail(Held[p]) ELSE Held[q]
  <2>1. Hand(msg'[t]) = <<>> /\ \A u \in Thread : u # t => msg'[u] = msg[u]
    BY HeldSeqs, NoMessage
  <2>2. CASE \E d \in Side : q = WireAt(d)
    BY <2>2, HeldIs, Places
  <2>3. CASE \E u \in Thread : q = QueueAt(u)
    BY <2>3, HeldIs, Places
  <2>4. CASE \E u \in Thread : q = HandAt(u)
    <3>1. PICK u \in Thread : q = HandAt(u)
      BY <2>4
    <3>2. CASE u = t
      BY <1>2, <2>1, <3>1, <3>2, HeldIs, Places
    <3>3. CASE u # t
      BY <2>1, <3>1, <3>3, HeldIs, Places
    <3> QED
      BY <3>2, <3>3
  <2> QED
    BY <2>2, <2>3, <2>4, Places
<1> HIDE DEF p
<1>4. Once(Held') /\ MsgsIn(Held') = MsgsIn(Held) \ {Head(Held[p])} /\ Head(Held[p]) \in MsgsIn(Held)
  BY <1>1, <1>3, HeldSeqs, TakenOut
<1> QED
  BY <1>2, <1>4 DEF Once, Flying, MsgsIn

LEMMA FlyingPosted ==
    ASSUME TypeInv, QuietInv, Both, Once(Held), NEW d \in Side, NEW m \in Message, m \notin Flying,
           wire' = [wire EXCEPT ![d] = Append(@, m)], UNCHANGED <<msg, deque>>
    PROVE  Once(Held)' /\ Flying' = Flying \cup {m}
<1> DEFINE p == WireAt(d)
<1>1. p \in Spot /\ Held[p] = wire[d]
  BY Places, HeldIs
<1>2. ASSUME NEW q \in Spot PROVE Held'[q] = IF q = p THEN Append(Held[p], m) ELSE Held[q]
  <2>1. wire'[d] = Append(wire[d], m) /\ \A e \in Side : e # d => wire'[e] = wire[e]
    BY HeldSeqs
  <2>2. CASE \E e \in Side : q = WireAt(e)
    BY <2>1, <2>2, HeldIs, Places
  <2>3. CASE \E u \in Thread : q = QueueAt(u) \/ q = HandAt(u)
    BY <2>3, HeldIs, Places
  <2> QED
    BY <2>2, <2>3, Places
<1> HIDE DEF p
<1>3. Once(Held') /\ MsgsIn(Held') = MsgsIn(Held) \cup {m}
  <2>1. m \notin MsgsIn(Held) /\ \A q \in Spot : Held[q] \in Seq(Message)
    BY HeldSeqs DEF Flying
  <2>2. \A q \in Spot : Held'[q] = IF q = p THEN Append(Held[p], m) ELSE Held[q]
    BY <1>2
  <2> QED
    BY <1>1, <2>1, <2>2, PutIn
<1> QED
  BY <1>3 DEF Once, Flying, MsgsIn

LEMMA FlyingRead ==
    ASSUME TypeInv, QuietInv, Both, Once(Held), NEW t \in Thread, NEW d \in Side,
           msg[t] = NoMsg, wire[d] # <<>>,
           msg' = [msg EXCEPT ![t] = Head(wire[d])],
           wire' = [wire EXCEPT ![d] = Tail(@)], UNCHANGED deque
    PROVE  Once(Held)' /\ Flying' = Flying
<1> DEFINE p == WireAt(d)
           r == HandAt(t)
<1>1. p \in Spot /\ r \in Spot /\ r # p /\ Held[p] = wire[d] /\ Held[p] # <<>> /\ Held[r] = <<>>
  BY Places, HeldIs, NoMessage
<1>2. Head(wire[d]) \in Message
  <2>1. wire[d] \in Seq(Message)
    BY HeldSeqs
  <2> QED
    BY <2>1
<1>3. Append(Held[r], Head(Held[p])) = Hand(Head(wire[d]))
  BY <1>1, <1>2 DEF Hand
<1>4. ASSUME NEW q \in Spot
      PROVE  Held'[q] = IF q = p THEN Tail(Held[p])
                        ELSE IF q = r THEN Append(Held[r], Head(Held[p])) ELSE Held[q]
  <2>1. /\ wire'[d] = Tail(wire[d]) /\ \A e \in Side : e # d => wire'[e] = wire[e]
        /\ msg'[t] = Head(wire[d]) /\ \A u \in Thread : u # t => msg'[u] = msg[u]
    BY HeldSeqs
  <2>2. CASE \E e \in Side : q = WireAt(e)
    BY <2>1, <2>2, HeldIs, Places
  <2>3. CASE \E u \in Thread : q = QueueAt(u)
    BY <2>3, HeldIs, Places
  <2>4. CASE \E u \in Thread : q = HandAt(u)
    <3>1. PICK u \in Thread : q = HandAt(u)
      BY <2>4
    <3>2. CASE u = t
      <4>1. Held'[r] = Append(Held[r], Head(Held[p]))
        BY <1>3, <2>1, HeldIs
      <4> QED
        BY <1>1, <3>1, <3>2, <4>1
    <3>3. CASE u # t
      BY <2>1, <3>1, <3>3, HeldIs, Places
    <3> QED
      BY <3>2, <3>3
  <2> QED
    BY <2>2, <2>3, <2>4, Places
<1> HIDE DEF p, r
<1>5. Once(Held') /\ MsgsIn(Held') = MsgsIn(Held)
  <2>1. \A q \in Spot : Held[q] \in Seq(Message)
    BY HeldSeqs
  <2>2. \A q \in Spot : Held'[q] = IF q = p THEN Tail(Held[p])
                                  ELSE IF q = r THEN Append(Held[r], Head(Held[p])) ELSE Held[q]
    BY <1>4
  <2>3. p \in Spot /\ r \in Spot /\ r # p /\ Held[p] # <<>>
    BY <1>1
  <2> QED
    BY <2>1, <2>2, <2>3, MovedOn
<1> QED
  BY <1>5 DEF Once, Flying, MsgsIn

LEMMA FlyingHanded ==
    ASSUME TypeInv, QuietInv, Both, Once(Held), NEW t \in Thread, NEW u \in Thread,
           msg[t] \in Message, msg' = [msg EXCEPT ![t] = NoMsg],
           deque' = [deque EXCEPT ![u] = Append(@, msg[t])], UNCHANGED wire
    PROVE  Once(Held)' /\ Flying' = Flying /\ msg[t] \in Flying
<1> DEFINE p == HandAt(t)
           r == QueueAt(u)
<1>1. p \in Spot /\ r \in Spot /\ r # p /\ Held[p] = <<msg[t]>> /\ Held[p] # <<>> /\ Held[r] = deque[u]
  <2>1. Hand(msg[t]) = <<msg[t]>>
    BY DEF Hand
  <2> QED
    BY <2>1, Places, HeldIs
<1>2. Tail(Held[p]) = <<>> /\ Head(Held[p]) = msg[t]
  BY <1>1
<1>3. ASSUME NEW q \in Spot
      PROVE  Held'[q] = IF q = p THEN Tail(Held[p])
                        ELSE IF q = r THEN Append(Held[r], Head(Held[p])) ELSE Held[q]
  <2>1. /\ deque'[u] = Append(deque[u], msg[t]) /\ \A v \in Thread : v # u => deque'[v] = deque[v]
        /\ Hand(msg'[t]) = <<>> /\ \A v \in Thread : v # t => msg'[v] = msg[v]
    BY HeldSeqs, NoMessage
  <2>2. CASE \E e \in Side : q = WireAt(e)
    BY <2>2, HeldIs, Places
  <2>3. CASE \E v \in Thread : q = QueueAt(v)
    BY <1>2, <2>1, <2>3, HeldIs, Places
  <2>4. CASE \E v \in Thread : q = HandAt(v)
    <3>1. PICK v \in Thread : q = HandAt(v)
      BY <2>4
    <3>2. CASE v = t
      BY <1>2, <2>1, <3>1, <3>2, HeldIs, Places
    <3>3. CASE v # t
      BY <2>1, <3>1, <3>3, HeldIs, Places
    <3> QED
      BY <3>2, <3>3
  <2> QED
    BY <2>2, <2>3, <2>4, Places
<1> HIDE DEF p, r
<1>4. Once(Held') /\ MsgsIn(Held') = MsgsIn(Held) /\ Head(Held[p]) \in MsgsIn(Held)
  <2>1. \A q \in Spot : Held[q] \in Seq(Message)
    BY HeldSeqs
  <2>2. \A q \in Spot : Held'[q] = IF q = p THEN Tail(Held[p])
                                  ELSE IF q = r THEN Append(Held[r], Head(Held[p])) ELSE Held[q]
    BY <1>3
  <2>3. p \in Spot /\ r \in Spot /\ r # p /\ Held[p] # <<>>
    BY <1>1
  <2> QED
    BY <2>1, <2>2, <2>3, MovedOn
<1> QED
  BY <1>2, <1>4 DEF Once, Flying, MsgsIn

LEMMA FlyingTaken ==
    ASSUME TypeInv, QuietInv, Both, Once(Held), NEW t \in Thread,
           msg[t] = NoMsg, deque[t] # <<>>, msg' = [msg EXCEPT ![t] = Head(deque[t])],
           deque' = [deque EXCEPT ![t] = Tail(@)], UNCHANGED wire
    PROVE  Once(Held)' /\ Flying' = Flying /\ Head(deque[t]) \in Flying
<1> DEFINE p == QueueAt(t)
           r == HandAt(t)
<1>1. p \in Spot /\ r \in Spot /\ r # p /\ Held[p] = deque[t] /\ Held[p] # <<>> /\ Held[r] = <<>>
  BY Places, HeldIs, NoMessage
<1>2. Head(deque[t]) \in Message
  <2>1. deque[t] \in Seq(Message)
    BY HeldSeqs
  <2> QED
    BY <2>1
<1>3. Append(Held[r], Head(Held[p])) = Hand(Head(deque[t]))
  BY <1>1, <1>2 DEF Hand
<1>4. ASSUME NEW q \in Spot
      PROVE  Held'[q] = IF q = p THEN Tail(Held[p])
                        ELSE IF q = r THEN Append(Held[r], Head(Held[p])) ELSE Held[q]
  <2>1. /\ deque'[t] = Tail(deque[t]) /\ \A v \in Thread : v # t => deque'[v] = deque[v]
        /\ msg'[t] = Head(deque[t]) /\ \A v \in Thread : v # t => msg'[v] = msg[v]
    BY HeldSeqs
  <2>2. CASE \E e \in Side : q = WireAt(e)
    BY <2>2, HeldIs, Places
  <2>3. CASE \E v \in Thread : q = QueueAt(v)
    BY <2>1, <2>3, HeldIs, Places
  <2>4. CASE \E v \in Thread : q = HandAt(v)
    <3>1. PICK v \in Thread : q = HandAt(v)
      BY <2>4
    <3>2. CASE v = t
      BY <1>3, <2>1, <3>1, <3>2, HeldIs, Places
    <3>3. CASE v # t
      BY <2>1, <3>1, <3>3, HeldIs, Places
    <3> QED
      BY <3>2, <3>3
  <2> QED
    BY <2>2, <2>3, <2>4, Places
<1> HIDE DEF p, r
<1>5. Once(Held') /\ MsgsIn(Held') = MsgsIn(Held) /\ Head(Held[p]) \in MsgsIn(Held)
  <2>1. \A q \in Spot : Held[q] \in Seq(Message)
    BY HeldSeqs
  <2>2. \A q \in Spot : Held'[q] = IF q = p THEN Tail(Held[p])
                                  ELSE IF q = r THEN Append(Held[r], Head(Held[p])) ELSE Held[q]
    BY <1>4
  <2>3. p \in Spot /\ r \in Spot /\ r # p /\ Held[p] # <<>>
    BY <1>1
  <2> QED
    BY <2>1, <2>2, <2>3, MovedOn
<1> QED
  BY <1>1, <1>5 DEF Once, Flying, MsgsIn

(* a message in a hand or in a queue is one of those, and in one place *)
LEMMA InPlace ==
    ASSUME Once(Held), NEW t \in Thread
    PROVE  /\ msg[t] \in Message => msg[t] \in Flying
           /\ \A m \in Message : \A u \in Thread : deque[u] = <<m>> => m \in Flying /\ m # msg[t]
           /\ \A u \in Thread : u # t /\ msg[u] \in Message => msg[u] # msg[t]
<1>1. ASSUME NEW u \in Thread, msg[u] \in Message
      PROVE  /\ HandAt(u) \in Spot /\ 1 \in 1 .. Len(Held[HandAt(u)])
             /\ Held[HandAt(u)][1] = msg[u]
  <2>1. Hand(msg[u]) = <<msg[u]>> /\ Len(<<msg[u]>>) = 1 /\ <<msg[u]>>[1] = msg[u] /\ 1 \in 1 .. 1
    BY <1>1 DEF Hand
  <2>2. Held[HandAt(u)] = <<msg[u]>> /\ HandAt(u) \in Spot
    BY <2>1, Places, HeldIs
  <2> QED
    BY <2>1, <2>2
<1>2. ASSUME NEW u \in Thread, NEW m \in Message, deque[u] = <<m>>
      PROVE  /\ QueueAt(u) \in Spot /\ 1 \in 1 .. Len(Held[QueueAt(u)])
             /\ Held[QueueAt(u)][1] = m
  BY <1>2, Places, HeldIs
<1>3. msg[t] \in Message => msg[t] \in Flying
  BY <1>1 DEF Flying, MsgsIn
<1>4. ASSUME NEW m \in Message, NEW u \in Thread, deque[u] = <<m>>
      PROVE  m \in Flying /\ m # msg[t]
  <2>1. m \in Flying
    BY <1>2, <1>4 DEF Flying, MsgsIn
  <2>2. m = msg[t] => QueueAt(u) = HandAt(t)
    BY <1>1, <1>2, <1>4 DEF Once
  <2> QED
    BY <2>1, <2>2, Places
<1>5. ASSUME NEW u \in Thread, u # t, msg[u] \in Message PROVE msg[u] # msg[t]
  <2>1. msg[u] = msg[t] => HandAt(u) = HandAt(t)
    BY <1>1, <1>5 DEF Once
  <2> QED
    BY <1>5, <2>1, Places
<1> QED
  BY <1>3, <1>4, <1>5

-----------------------------------------------------------------------------
(* The steps, by what they do to the conversations. *)
Apart(u) ==
    /\ pc'[u] = pc[u] /\ await'[u] = await[u] /\ stack'[u] = stack[u] /\ msg'[u] = msg[u]
    /\ deque'[u] = deque[u] /\ remote'[u] = remote[u] /\ occupation'[u] = occupation[u]

LEMMA Domains ==
    ASSUME TypeInv
    PROVE  /\ DOMAIN pc = Thread /\ DOMAIN await = Thread /\ DOMAIN stack = Thread /\ DOMAIN msg = Thread
           /\ DOMAIN deque = Thread /\ DOMAIN remote = Thread /\ DOMAIN occupation = Thread
           /\ remote = [u \in Thread |-> remote[u]]
           /\ DOMAIN closed = Side /\ \A t \in Thread : SideOf[t] \in Side
  BY Sides DEF TypeInv, FlagTypes, Contents, AwaitInv, NestInv, HandInv, DequeInv, RemoteInv

LEMMA LocalStep ==
    ASSUME LocalInv, NEW t \in Thread, \A u \in Thread : u # t => Apart(u) /\ Outs'[u] = Outs[u],
           \A d \in Side : closed[d] => closed'[d], \A u \in Thread : SideOf[u] \in Side,
           CountIn(t)', QueueIn(t)', StackIn(t)'
    PROVE  LocalInv'
<1> SUFFICES ASSUME NEW u \in Thread PROVE CountIn(u)' /\ QueueIn(u)' /\ StackIn(u)'
  BY DEF LocalInv
<1>1. CASE u = t
  BY <1>1
<1>2. CASE u # t
  <2>1. Apart(u) /\ Outs'[u] = Outs[u]
    BY <1>2
  <2> QED
    BY <2>1, OthersStay DEF Apart
<1> QED
  BY <1>1, <1>2

(* the same conversations *)
LEMMA CoreStays ==
    ASSUME CoreInv, \A u \in Thread : Hands'[u] = Hands[u] /\ Outs'[u] = Outs[u],
           UNCHANGED remote, Waiters' = Waiters, Flying' = Flying
    PROVE  CoreInv'
<1>1. Hands' = Hands /\ Outs' = Outs
  BY DEF Hands, Outs
<1> QED
  BY <1>1 DEF CoreInv

LEMMA WaitersStay ==
    ASSUME NEW t \in Thread, \A u \in Thread : u # t => Apart(u),
           \A u \in Thread : Outs'[u] = Outs[u], (t \in Waiters') <=> (t \in Waiters)
    PROVE  Waiters' = Waiters
<1>1. ASSUME NEW u \in Thread PROVE (u \in Waiters') <=> (u \in Waiters)
  <2>1. CASE u # t
    <3>1. pc'[u] = pc[u] /\ await'[u] = await[u] /\ Outs'[u] = Outs[u]
      BY <2>1 DEF Apart
    <3> QED
      BY <3>1 DEF Waiters
  <2> QED
    BY <2>1
<1> QED
  BY <1>1 DEF Waiters

LEMMA WaitSteps ==
    ASSUME Together, NEW t \in Thread, WaitDone(t) \/ LoopEnds(t)
    PROVE  CoreInv' /\ Once(Held)' /\ LocalInv'
<1>1. /\ pc[t] = "loop" /\ Goto(t, After(t))
      /\ UNCHANGED <<stack, msg, deque, remote, occupation, closed, wire, issued, owner, done>>
  BY DEF WaitDone, LoopEnds, boundVars, closeVars, netVars
<1>2. await[t] \notin Outs[t] /\ await' = [await EXCEPT ![t] = NoSeq]
  <2>1. CASE WaitDone(t)
    <3>1. await[t] \in done
      BY <2>1 DEF WaitDone, Predicate, Together, Both
    <3> QED
      BY <2>1, <3>1 DEF WaitDone, Outs
  <2>2. CASE LoopEnds(t)
    <3>1. await[t] = NoSeq /\ UNCHANGED await
      BY <2>2 DEF LoopEnds, Looping
    <3> QED
      BY <3>1, NumbersAre, Domains DEF Together, TypeInv, Contents, AwaitInv
  <2> QED
    BY <2>1, <2>2
<1>3. Outs' = Outs /\ Hands' = Hands
  BY <1>1, OutsStay DEF Hands
<1>4. /\ pc'[t] = After(t) /\ await'[t] = NoSeq
      /\ \A u \in Thread : u # t => Apart(u)
  BY <1>1, <1>2, Domains DEF Together, Goto, Apart
<1>5. After(t) \in {"handler", "cleanup", "idle", "closing", "end"} /\ (After(t) = "idle" => t \in Client)
  BY AfterPlace DEF Together
<1>6. NoSeq \notin Outs[t] /\ NoSeq \notin done
  BY NumbersAre, NoSeqIs DEF Together
<1>7. Waiters' = Waiters
  <2>1. t \notin Waiters /\ t \notin Waiters'
    BY <1>2, <1>3, <1>4, <1>6 DEF Waiters
  <2> QED
    BY <1>3, <1>4, <2>1, WaitersStay
<1>8. Once(Held)' /\ Flying' = Flying
  BY <1>1, FlyingStays DEF Together
<1>9. CoreInv'
  BY <1>1, <1>3, <1>7, <1>8, CoreStays DEF Together
<1>10. CountIn(t) /\ QueueIn(t) /\ StackIn(t)
  BY DEF Together, LocalInv
<1>11. CountIn(t)'
  BY <1>1, <1>3, <1>4, <1>5, <1>10 DEF CountIn
<1>12. StackIn(t)'
  <2>1. FramesIn(Outs[t], NoSeq, stack[t])
    BY <1>2, <1>10, FramesWait, NumbersAre DEF StackIn, Together
  <2> QED
    BY <1>1, <1>3, <1>4, <1>5, <2>1 DEF StackIn, Waits
<1>13. QueueIn(t)'
  <2>1. t \in Worker => After(t) # "idle"
    BY <1>5, BoundServingAssumption
  <2>2. ASSUME NEW m \in Message, deque[t] = <<m>>, m.to # t
        PROVE  Free(t)' /\ After(t) \in {"closing", "end"} /\ closed[SideOf[t]]
    <3>1. Free(t) /\ await[t] = NoSeq /\ t \notin Client
      <4>1. \A n : <<n>> = <<m>> => n = m
        OBVIOUS
      <4> QED
        BY <1>10, <2>2, <4>1 DEF QueueIn, Free
    <3>2. LoopEnds(t)
      BY <1>6, <3>1 DEF WaitDone, Predicate, Together, Both
    <3>3. t \notin Worker /\ t \in Server /\ closed[SideOf[t]]
      BY <2>2, <3>1, <3>2 DEF LoopEnds, Looping, Thread
    <3>4. stack[t] = <<>>
      BY <1>1, <1>10, <3>1 DEF StackIn, Waits
    <3> QED
      BY <1>3, <1>4, <3>1, <3>3, <3>4 DEF Free, After
  <2>3. deque[t] = <<>> \/ \E m \in Message : deque[t] = <<m>>
    BY <1>10 DEF QueueIn
  <2> QED
    BY <1>1, <1>4, <2>1, <2>2, <2>3 DEF QueueIn
<1> QED
  BY <1>1, <1>3, <1>4, <1>8, <1>9, <1>11, <1>12, <1>13, LocalStep, Domains DEF Together

LEMMA CloseBegins ==
    ASSUME Together, NEW t \in Thread, Close(t, "closing", "end") \/ UserCloses(t)
    PROVE  CoreInv' /\ Once(Held)' /\ LocalInv'
<1>1. /\ pc[t] \in {"closing", "idle", "handler"}
      /\ closed' = [closed EXCEPT ![SideOf[t]] = TRUE]
      /\ UNCHANGED <<msg, deque, remote, occupation, wire, issued, owner, done>>
      /\ \/ ~closed[SideOf[t]] /\ Goto(t, "sendclose") /\ \E arg \in {"idle", "handler", "end"} : Push(t, "close", arg)
         \/ pc[t] = "closing" /\ closed[SideOf[t]] /\ Goto(t, "end") /\ UNCHANGED <<stack, await>>
  BY DEF Close, UserCloses, boundVars, netVars
<1>2. Outs' = Outs /\ pc[t] \notin Waits /\ pc'[t] \in {"sendclose", "end"} /\ pc'[t] \notin Waits
  BY <1>1, OutsStay, Domains DEF Together, Goto, Waits
<1>3. CountIn(t) /\ QueueIn(t) /\ StackIn(t) /\ await[t] = NoSeq /\ stack[t] \in Seq(Frame)
  BY <1>2, NumbersAre DEF Together, LocalInv, StackIn
<1>4. \A u \in Thread : u # t => Apart(u)
  BY <1>1, Domains DEF Together, Goto, Apart, Push
<1>5. StackIn(t)' /\ Hands'[t] = Hands[t] /\ await'[t] = NoSeq
  <2>1. CASE \E arg \in {"idle", "handler", "end"} : Push(t, "close", arg)
    <3>1. PICK arg \in {"idle", "handler", "end"} : Push(t, "close", arg)
      BY <2>1
    <3> DEFINE f == [op |-> "close", await |-> await[t], arg |-> arg]
    <3>2. f \in Frame /\ f.op = "close" /\ f.await = NoSeq
      BY <1>3 DEF Frame
    <3>3. stack'[t] = <<f>> \o stack[t] /\ await'[t] = NoSeq
      BY <3>1, Domains DEF Push, Together
    <3> HIDE DEF f
    <3>4. FramesIn(Outs[t], NoSeq, <<f>> \o stack[t]) /\ HandOf(<<f>> \o stack[t]) = HandOf(stack[t])
      <4>1. FramesIn(Outs[t], NoSeq, stack[t]) /\ stack[t] \in Seq(Frame)
        BY <1>3 DEF StackIn
      <4>2. f \in Frame /\ f.await = NoSeq /\ f.op # "handle"
        BY <3>2
      <4>3. /\ FramesIn(Outs[t], NoSeq, <<f>> \o stack[t])
            /\ HandOf(<<f>> \o stack[t]) = HandOf(stack[t]) \cup (IF f.op = "handle" THEN {f.arg} ELSE {})
        BY <4>1, <4>2, FramesPush
      <4> QED
        BY <4>2, <4>3
    <3> QED
      BY <1>2, <3>3, <3>4 DEF StackIn, Hands
  <2>2. CASE UNCHANGED <<stack, await>>
    BY <1>2, <1>3, <2>2 DEF StackIn, Hands
  <2> QED
    BY <1>1, <2>1, <2>2
<1>6. Waiters' = Waiters
  <2>1. t \notin Waiters /\ t \notin Waiters'
    BY <1>2 DEF Waiters
  <2> QED
    BY <1>2, <1>4, <2>1, WaitersStay
<1>7. Once(Held)' /\ Flying' = Flying
  BY <1>1, FlyingStays DEF Together
<1>8. \A u \in Thread : Hands'[u] = Hands[u]
  BY <1>4, <1>5 DEF Hands, Apart
<1>9. CoreInv'
  BY <1>1, <1>2, <1>6, <1>7, <1>8, CoreStays DEF Together
<1>10. CountIn(t)'
  BY <1>1, <1>2, <1>3, <1>5 DEF CountIn
<1>11. QueueIn(t)'
  <2>1. closed'[SideOf[t]]
    BY <1>1, Domains DEF Together
  <2>2. Free(t) => Free(t)'
    BY <1>2, <1>5 DEF Free
  <2>3. ASSUME Free(t), pc[t] \in {"loop", "asleep"} \/ (pc[t] \in {"closing", "end"} /\ closed[SideOf[t]])
        PROVE  pc'[t] = "end"
    BY <1>1, <2>3, Domains DEF Together, Goto
  <2> QED
    BY <1>1, <1>2, <1>3, <2>1, <2>2, <2>3 DEF QueueIn
<1>12. \A d \in Side : closed[d] => closed'[d]
  BY <1>1, Domains DEF Together
<1> QED
  BY <1>2, <1>4, <1>5, <1>7, <1>9, <1>10, <1>11, <1>12, LocalStep, Domains DEF Together

-----------------------------------------------------------------------------
(* a thread goes on in __serve_bound, or takes up a message *)
LEMMA GoesOnWaiting ==
    ASSUME Together, NEW t \in Thread, pc[t] \in Waits, NEW l \in Waits, Goto(t, l),
           UNCHANGED <<await, stack, issued, owner, done>>
    PROVE  /\ Outs' = Outs /\ Hands' = Hands /\ Waiters' = Waiters /\ StackIn(t)'
           /\ pc'[t] = l /\ \A u \in Thread : u # t => pc'[u] = pc[u]
<1>1. pc'[t] = l /\ \A u \in Thread : u # t => pc'[u] = pc[u]
  BY Domains DEF Together, Goto
<1>2. Outs' = Outs /\ Hands' = Hands
  BY OutsStay DEF Hands
<1>3. Waiters' = Waiters
  BY <1>1, <1>2 DEF Waiters
<1>4. StackIn(t)
  BY DEF Together, LocalInv
<1>5. StackIn(t)'
  BY <1>1, <1>2, <1>4 DEF StackIn
<1> QED
  BY <1>1, <1>2, <1>3, <1>5

LEMMA MovesOn ==
    ASSUME Together, NEW t \in Thread, pc[t] \in Waits \ {"dispatch"},
           NEW l \in Waits \ {"dispatch"}, Goto(t, l),
           UNCHANGED <<await, stack, deque, remote, occupation, closed, issued, owner, done>>,
           \A u \in Thread : u # t => msg'[u] = msg[u],
           l \in {"loop", "asleep"} \/ deque[t] = <<>> \/ pc[t] \notin {"loop", "asleep"},
           Once(Held)', Flying' = Flying
    PROVE  CoreInv' /\ Once(Held)' /\ LocalInv'
<1>1. /\ Outs' = Outs /\ Hands' = Hands /\ Waiters' = Waiters /\ StackIn(t)'
      /\ pc'[t] = l /\ \A u \in Thread : u # t => pc'[u] = pc[u]
  BY GoesOnWaiting
<1>2. CoreInv'
  BY <1>1, CoreStays DEF Together
<1>3. CountIn(t) /\ QueueIn(t)
  BY DEF Together, LocalInv
<1>4. CountIn(t)'
  BY <1>1, <1>3 DEF CountIn
<1>5. QueueIn(t)'
  <2>1. Free(t)' <=> Free(t)
    BY <1>1 DEF Free
  <2>2. pc'[t] # "idle"
    BY <1>1 DEF Waits
  <2>3. pc[t] \notin {"closing", "end"}
    BY DEF Waits
  <2> QED
    BY <1>1, <1>3, <2>1, <2>2, <2>3 DEF QueueIn
<1>6. \A u \in Thread : u # t => Apart(u)
  BY <1>1 DEF Apart
<1> QED
  BY <1>1, <1>2, <1>4, <1>5, <1>6, LocalStep, Domains DEF Together

LEMMA TakesUp ==
    ASSUME Together, NEW t \in Thread, pc[t] \in Waits \ {"dispatch"}, Goto(t, "dispatch"),
           UNCHANGED <<await, stack, occupation, closed, issued, owner, done>>,
           NEW m \in Message, m \in Flying, m.to = t \/ Free(t),
           remote' = [remote EXCEPT ![t] = m.from], msg'[t] = m,
           \A u \in Thread : u # t => msg'[u] = msg[u] /\ deque'[u] = deque[u],
           deque'[t] = <<>> \/ (deque'[t] = deque[t] /\ pc[t] \notin {"loop", "asleep"}),
           Once(Held)', Flying' = Flying
    PROVE  CoreInv' /\ Once(Held)' /\ LocalInv'
<1>0. "dispatch" \in Waits
  BY DEF Waits
<1>1. /\ Outs' = Outs /\ Hands' = Hands /\ Waiters' = Waiters /\ StackIn(t)'
      /\ pc'[t] = "dispatch" /\ \A u \in Thread : u # t => pc'[u] = pc[u]
  BY <1>0, GoesOnWaiting
<1>2. remote'[t] = m.from /\ \A u \in Thread : u # t => remote'[u] = remote[u]
  BY Domains DEF Together
<1>3. Free(t)' <=> Free(t)
  BY <1>1 DEF Free
<1>4. CoreInv'
  <2>1. PICK P : Core(P, Hands, Outs, remote, Waiters, Flying)
    BY DEF Together, CoreInv
  <2>2. m.to = t \/ Hands[t] = {}
    BY DEF Free
  <2>3. \A u \in Thread : remote'[u] = IF u = t THEN m.from ELSE remote[u]
    BY <1>2
  <2>4. Core(P, Hands, Outs, remote', Waiters, Flying)
    <3>1. ASSUME NEW R2, \A u \in Thread : R2[u] = IF u = t THEN m.from ELSE remote[u]
          PROVE  Core(P, Hands, Outs, R2, Waiters, Flying)
      BY <2>1, <2>2, <3>1, CoreBind
    <3> QED
      BY <2>3, <3>1
  <2> QED
    BY <1>1, <2>4 DEF CoreInv
<1>5. CountIn(t) /\ QueueIn(t)
  BY DEF Together, LocalInv
<1>6. CountIn(t)'
  BY <1>1, <1>2, <1>3, <1>5 DEF CountIn
<1>7. QueueIn(t)'
  <2>1. pc[t] \notin {"closing", "end"} /\ pc'[t] # "idle"
    BY <1>1 DEF Waits
  <2> QED
    BY <1>1, <1>5, <2>1 DEF QueueIn
<1>8. \A u \in Thread : u # t => Apart(u)
  BY <1>1, <1>2 DEF Apart
<1> QED
  BY <1>1, <1>4, <1>6, <1>7, <1>8, LocalStep, Domains DEF Together

LEMMA InHand ==
    ASSUME Together, NEW t \in Thread
    PROVE  /\ msg[t] \in Message \cup {NoMsg}
           /\ pc[t] \notin {"received", "dispatch"} => msg[t] = NoMsg
           /\ pc[t] = "dispatch" => msg[t] \in Message
           /\ serve[t] /\ open[SideOf[t]]
<1>1. msg[t] \in Message \cup {NoMsg, EOF} /\ msg[t] # EOF /\ serve[t] /\ open[SideOf[t]]
  BY Sides DEF Together, TypeInv, Contents, HandInv, QuietInv, Both
<1>2. /\ pc[t] \notin {"received", "dispatch"} => msg[t] = NoMsg
      /\ pc[t] = "dispatch" => msg[t] \in Due(t)
  BY DEF Together, TypeInv, Contents, HandInv
<1> QED
  BY <1>1, <1>2 DEF Due, Sent

LEMMA EnterConv ==
    ASSUME Together, NEW t \in Thread, ServeEnter(t) \/ ServeWoken(t)
    PROVE  CoreInv' /\ Once(Held)' /\ LocalInv'
<1>1. /\ pc[t] \in {"loop", "asleep"} /\ msg[t] = NoMsg
      /\ UNCHANGED <<await, stack, occupation, closed, wire, issued, owner, done>>
  BY InHand DEF ServeEnter, ServeWoken, closeVars, netVars
<1>2. \/ deque[t] # <<>> /\ TakeOwn(t)
      \/ /\ UNCHANGED <<msg, deque, remote>>
         /\ \/ Goto(t, "loop") \/ Goto(t, "asleep") \/ UNCHANGED pc
            \/ deque[t] = <<>> /\ Goto(t, "poll")
  <2>1. CASE Ready(t)
    <3>1. \E p : Proceed(t, p)
      BY <2>1 DEF ServeEnter, ServeWoken
    <3> QED
      BY <3>1 DEF Proceed
  <2>2. CASE ~Ready(t)
    BY <2>2 DEF ServeEnter, ServeWoken
  <2> QED
    BY <2>1, <2>2
<1>3. CASE deque[t] # <<>> /\ TakeOwn(t)
  <2>1. PICK m \in Message : deque[t] = <<m>> /\ (m.to = t \/ Free(t))
    BY <1>3 DEF Together, LocalInv, QueueIn
  <2>2. Head(deque[t]) = m /\ Tail(deque[t]) = <<>> /\ m # Wake
    <3>1. m # Wake
      BY DEF Message, Wake
    <3> QED
      BY <2>1, <3>1
  <2>3. /\ deque' = [deque EXCEPT ![t] = Tail(@)] /\ Goto(t, "dispatch")
        /\ msg' = [msg EXCEPT ![t] = m] /\ remote' = [remote EXCEPT ![t] = m.from]
    BY <1>3, <2>2 DEF TakeOwn
  <2>4. Once(Held)' /\ Flying' = Flying /\ m \in Flying
    BY <1>1, <1>3, <2>2, <2>3, FlyingTaken DEF Together
  <2>5. /\ msg'[t] = m /\ deque'[t] = <<>>
        /\ \A u \in Thread : u # t => msg'[u] = msg[u] /\ deque'[u] = deque[u]
    BY <2>2, <2>3, Domains DEF Together
  <2>6. pc[t] \in Waits \ {"dispatch"}
    BY <1>1 DEF Waits
  <2> QED
    BY <1>1, <2>1, <2>3, <2>4, <2>5, <2>6, TakesUp
<1>4. CASE /\ UNCHANGED <<msg, deque, remote>>
           /\ \/ Goto(t, "loop") \/ Goto(t, "asleep") \/ UNCHANGED pc
              \/ deque[t] = <<>> /\ Goto(t, "poll")
  <2>1. Once(Held)' /\ Flying' = Flying
    BY <1>1, <1>4, FlyingStays DEF Together
  <2>2. PICK l \in {"loop", "asleep", "poll"} : Goto(t, l) /\ (l = "poll" => deque[t] = <<>>)
    <3>1. UNCHANGED pc => Goto(t, pc[t])
      <4>1. pc \in [Thread -> Place]
        BY DEF Together, TypeInv, FlagTypes
      <4> QED
        BY <4>1 DEF Goto
    <3> QED
      BY <1>1, <1>4, <3>1
  <2>3. l \in Waits \ {"dispatch"} /\ pc[t] \in Waits \ {"dispatch"}
    BY <1>1 DEF Waits
  <2> QED
    BY <1>1, <1>4, <2>1, <2>2, <2>3, MovesOn
<1> QED
  BY <1>2, <1>3, <1>4

LEMMA PollConv ==
    ASSUME Together, NEW t \in Thread, PollData(t) \/ PollWoken(t) \/ LeaveEmpty(t)
    PROVE  CoreInv' /\ Once(Held)' /\ LocalInv'
<1>1. UNCHANGED <<await, stack, deque, remote, occupation, closed, issued, owner, done>>
  BY DEF PollData, PollWoken, LeaveEmpty, boundVars, closeVars, netVars
<1>2. /\ pc[t] \in {"poll", "received"} /\ msg[t] = NoMsg
      /\ \E l \in {"received", "loop"} : Goto(t, l)
  <2>1. msg[t] # EOF
    BY DEF Together, QuietInv, Both
  <2> QED
    BY <2>1, InHand DEF PollData, PollWoken, LeaveEmpty, Received
<1>3. /\ Once(Held)' /\ Flying' = Flying
      /\ \A u \in Thread : u # t => msg'[u] = msg[u]
  <2>1. CASE PollData(t)
    <3>1. /\ wire[SideOf[t]] # <<>> /\ msg' = [msg EXCEPT ![t] = Head(wire[SideOf[t]])]
          /\ wire' = [wire EXCEPT ![SideOf[t]] = Tail(@)] /\ SideOf[t] \in Side
      BY <2>1, Sides DEF PollData, Received
    <3> QED
      BY <1>1, <1>2, <3>1, FlyingRead, Domains DEF Together
  <2>2. CASE PollWoken(t) \/ LeaveEmpty(t)
    <3>1. msg' = [msg EXCEPT ![t] = NoMsg] /\ UNCHANGED wire
      BY <2>2 DEF PollWoken, LeaveEmpty, Received, netVars
    <3>2. \A u \in Thread : msg'[u] = msg[u]
      BY <1>2, <3>1, Domains DEF Together
    <3> QED
      BY <1>1, <3>1, <3>2, FlyingStays DEF Together
  <2> QED
    BY <2>1, <2>2
<1>4. PICK l \in {"received", "loop"} : Goto(t, l)
  BY <1>2
<1>5. l \in Waits \ {"dispatch"} /\ pc[t] \in Waits \ {"dispatch"} /\ pc[t] \notin {"loop", "asleep"}
  BY <1>2 DEF Waits
<1> QED
  BY <1>1, <1>3, <1>4, <1>5, MovesOn

(* a thread in __serve_bound that is not occupied waits for no request of its own *)
LEMMA FreeIf ==
    ASSUME Together, NEW u \in Thread, pc[u] \in Serving, occupation[u] = 0
    PROVE  Free(u)
<1>1. Hands[u] = {} /\ Outs[u] = {}
  BY NotOccupied DEF Together
<1>2. await[u] \notin done
  BY DEF Together, SleepInv, Both, Serving
<1>3. await[u] = NoSeq
  BY <1>1, <1>2, NumbersAre DEF Together
<1>4. u \notin Client
  BY <1>3 DEF Together, ClientInv
<1> QED
  BY <1>1, <1>3, <1>4 DEF Free

LEMMA TakeConv ==
    ASSUME Together, NEW t \in Thread, TakeMessage(t)
    PROVE  CoreInv' /\ Once(Held)' /\ LocalInv'
<1>1. /\ pc[t] = "received" /\ msg[t] \in Message /\ Goto(t, "dispatch")
      /\ remote' = [remote EXCEPT ![t] = msg[t].from]
      /\ UNCHANGED <<await, stack, msg, deque, occupation, closed, wire, issued, owner, done>>
  BY InHand DEF TakeMessage, Got, closeVars, netVars
<1>2. msg[t].to = t \/ Free(t)
  BY <1>1, FreeIf DEF TakeMessage, Mine, Serving
<1>3. Once(Held)' /\ Flying' = Flying
  BY <1>1, FlyingStays DEF Together
<1>4. msg[t] \in Flying
  BY <1>1, InPlace DEF Together
<1>5. pc[t] \in Waits \ {"dispatch"} /\ pc[t] \notin {"loop", "asleep"}
  BY <1>1 DEF Waits
<1> QED
  BY <1>1, <1>2, <1>3, <1>4, <1>5, TakesUp

-----------------------------------------------------------------------------
(* what the receiver does with a message of somebody else *)
LEMMA OneKey ==
    ASSUME Together, NEW m \in Flying
    PROVE  /\ Key(m) \in Waiters /\ m \in Message /\ (\A n \in Flying : Key(n) = Key(m) => n = m)
           /\ \A u \in Waiters : u \in Thread /\ Outs[u] # {} /\ ~Free(u)
<1>1. PICK P : Turns(P, Waiters, Flying)
  BY DEF Together, CoreInv, Core
<1>2. \A u \in Waiters : u \in Thread /\ Outs[u] # {}
  BY DEF Waiters
<1> QED
  BY <1>1, <1>2 DEF Turns, Flying, MsgsIn, Free

LEMMA HandConv ==
    ASSUME Together, NEW t \in Thread, HandOver(t)
    PROVE  CoreInv' /\ Once(Held)' /\ LocalInv'
<1> DEFINE m == msg[t]
<1>1. /\ pc[t] = "received" /\ m \in Message /\ ~Mine(t) /\ Goto(t, "poll")
      /\ msg' = [msg EXCEPT ![t] = NoMsg]
      /\ UNCHANGED <<await, stack, remote, occupation, closed, wire, issued, owner, done>>
  BY InHand DEF HandOver, Got, ReceiveNext, AfterHandOver, closeVars, netVars
<1>2. PICK u \in Recipient(t) : deque' = [deque EXCEPT ![u] = Append(@, m)]
  BY DEF HandOver
<1>3. u \in Thread
  BY <1>1, <1>2, GotTypes DEF HandOver, Together
<1>4. \/ m.to = Unbound /\ pc[u] = "asleep" /\ deque[u] = <<>> /\ occupation[u] = 0
      \/ m.to = u
  <2>1. CASE m.to = Unbound
    <3> DEFINE those == {v \in Empty(deque) : serve[v] /\ occupation[v] = 0}
    <3>1. u \in First(pool[SideOf[t]], those)
      BY <1>2, <2>1 DEF Recipient
    <3>2. pool[SideOf[t]] \in Seq(Thread) /\ SideOf[t] \in Side
      BY Sides DEF Together, TypeInv, PoolInv
    <3> HIDE DEF those
    <3>3. u \in Range(pool[SideOf[t]]) /\ u \in those
      BY <3>1, <3>2, FirstIs
    <3>4. pc[u] = "asleep"
      BY <3>2, <3>3 DEF Together, TypeInv, PoolInv
    <3>5. deque[u] = <<>> /\ occupation[u] = 0
      BY <3>3 DEF those, Empty
    <3> QED
      BY <2>1, <3>4, <3>5
  <2>2. CASE m.to # Unbound
    BY <1>2, <2>2 DEF Recipient
  <2> QED
    BY <2>1, <2>2
<1>5. u # t
  BY <1>1, <1>4 DEF Mine
<1>6. Once(Held)' /\ Flying' = Flying /\ m \in Flying
  BY <1>1, <1>2, <1>3, FlyingHanded DEF Together
<1>7. /\ deque[u] = <<>>
      /\ m.to = u => (u \in Waiters /\ ~Free(u))
      /\ m.to # u => (Free(u) /\ pc[u] = "asleep")
  <2>1. CASE m.to # u
    BY <1>3, <1>4, <2>1, FreeIf DEF Serving
  <2>2. CASE m.to = u
    <3>1. Key(m) = u
      BY <1>3, <2>2, BoundServingAssumption DEF Key
    <3>2. u \in Waiters /\ ~Free(u) /\ \A n \in Flying : Key(n) = u => n = m
      BY <1>6, <3>1, OneKey
    <3>3. ASSUME deque[u] # <<>> PROVE FALSE
      <4>1. PICK n \in Message : deque[u] = <<n>> /\ (n.to = u \/ Free(u))
        BY <1>3, <3>3 DEF Together, LocalInv, QueueIn
      <4>2. n \in Flying /\ n # m
        BY <1>3, <4>1, InPlace DEF Together
      <4>3. Key(n) = u
        BY <1>3, <3>2, <4>1, BoundServingAssumption DEF Key
      <4> QED
        BY <3>2, <4>2, <4>3
    <3> QED
      BY <2>2, <3>2, <3>3
  <2> QED
    BY <2>1, <2>2
<1>8. /\ Outs' = Outs /\ Hands' = Hands /\ Waiters' = Waiters /\ StackIn(t)'
      /\ pc'[t] = "poll" /\ \A v \in Thread : v # t => pc'[v] = pc[v]
  <2>1. "poll" \in Waits /\ pc[t] \in Waits
    BY <1>1 DEF Waits
  <2> QED
    BY <1>1, <2>1, GoesOnWaiting
<1>9. CoreInv'
  BY <1>1, <1>6, <1>8, CoreStays DEF Together
<1>10. /\ deque'[u] = <<m>> /\ msg'[t] = NoMsg
       /\ \A v \in Thread : v # u => deque'[v] = deque[v]
       /\ \A v \in Thread : v # t => msg'[v] = msg[v]
  BY <1>1, <1>2, <1>3, <1>4, <1>7, Domains DEF Together
<1> HIDE DEF m
<1>11. \A v \in Thread : CountIn(v) /\ QueueIn(v) /\ StackIn(v)
  BY DEF Together, LocalInv
<1>12. CountIn(t)' /\ QueueIn(t)'
  <2>1. CountIn(t)'
    BY <1>1, <1>8, <1>11 DEF CountIn
  <2>2. QueueIn(t)'
    BY <1>1, <1>5, <1>8, <1>10, <1>11 DEF QueueIn
  <2> QED
    BY <2>1, <2>2
<1>13. CountIn(u)' /\ QueueIn(u)' /\ StackIn(u)'
  <2>1. pc'[u] = pc[u] /\ msg'[u] = msg[u] /\ (Free(u)' <=> Free(u))
    BY <1>3, <1>5, <1>8, <1>10, <1>1 DEF Free
  <2>2. CountIn(u)'
    BY <1>1, <1>3, <1>8, <1>11, <2>1 DEF CountIn
  <2>3. StackIn(u)'
    BY <1>1, <1>3, <1>8, <1>11, <2>1 DEF StackIn
  <2>4. ~(u \in Worker /\ pc[u] = "idle")
    <3>1. u \in Waiters => Outs[u] # {}
      BY DEF Waiters
    <3> QED
      BY <1>3, <1>7, <1>11, <3>1 DEF QueueIn
  <2>5. QueueIn(u)'
    BY <1>1, <1>3, <1>7, <1>10, <2>1, <2>4 DEF QueueIn
  <2> QED
    BY <2>2, <2>3, <2>5
<1>14. ASSUME NEW v \in Thread, v # t, v # u PROVE CountIn(v)' /\ QueueIn(v)' /\ StackIn(v)'
  BY <1>1, <1>8, <1>10, <1>14, OthersStay DEF Together
<1>15. LocalInv'
  BY <1>8, <1>12, <1>13, <1>14 DEF LocalInv
<1> QED
  BY <1>6, <1>9, <1>15

LEMMA StartConv ==
    ASSUME Together, NEW t \in Thread, StartWorker(t)
    PROVE  CoreInv' /\ Once(Held)' /\ LocalInv'
<1> DEFINE m == msg[t]
<1>1. /\ pc[t] = "received" /\ m \in Message
      /\ msg' = [msg EXCEPT ![t] = NoMsg] /\ AfterHandOver(t) = "poll"
      /\ UNCHANGED <<await, stack, remote, occupation, closed, wire, issued, owner, done>>
  BY InHand DEF StartWorker, Got, ReceiveNext, AfterHandOver, netVars
<1>2. PICK w \in Worker \cap On(SideOf[t]) :
         /\ pc[w] = "idle" /\ deque' = [deque EXCEPT ![w] = <<m>>]
         /\ pc' = [pc EXCEPT ![w] = "loop", ![t] = "poll"]
  BY <1>1 DEF StartWorker
<1>3. w \in Thread /\ w \in Worker /\ w # t
  BY <1>1, <1>2 DEF Thread
<1>4. \A v \in Thread : CountIn(v) /\ QueueIn(v) /\ StackIn(v)
  BY DEF Together, LocalInv
<1>5. deque[w] = <<>> /\ stack[w] = <<>> /\ Outs[w] = {} /\ await[w] = NoSeq
  <2>1. "idle" \notin Waits
    BY DEF Waits
  <2> QED
    BY <1>2, <1>3, <1>4, <2>1 DEF QueueIn, StackIn
<1>6. Free(w)
  <2>1. Hands[w] = {}
    BY <1>3, <1>5 DEF Hands, HandOf
  <2>2. w \notin Client
    BY <1>3, BoundServingAssumption
  <2> QED
    BY <1>5, <2>1, <2>2 DEF Free
<1>7. /\ pc'[t] = "poll" /\ pc'[w] = "loop" /\ \A v \in Thread : v # t /\ v # w => pc'[v] = pc[v]
      /\ deque'[w] = <<m>> /\ \A v \in Thread : v # w => deque'[v] = deque[v]
      /\ \A v \in Thread : v # t => msg'[v] = msg[v]
  BY <1>1, <1>2, <1>3, Domains DEF Together
<1>8. Once(Held)' /\ Flying' = Flying
  <2>1. deque' = [deque EXCEPT ![w] = Append(@, m)]
    BY <1>2, <1>5
  <2> QED
    BY <1>1, <1>3, <2>1, FlyingHanded DEF Together
<1> HIDE DEF m
<1>9. Outs' = Outs /\ Hands' = Hands
  BY <1>1, OutsStay DEF Hands
<1>10. Waiters' = Waiters
  <2>1. NoSeq \notin Outs[w]
    BY <1>5
  <2>2. \A v \in Thread : v # w => (pc'[v] \in Waits <=> pc[v] \in Waits)
    BY <1>1, <1>7 DEF Waits
  <2> QED
    BY <1>1, <1>5, <1>9, <2>1, <2>2 DEF Waiters
<1>11. CoreInv'
  BY <1>1, <1>8, <1>9, <1>10, CoreStays DEF Together
<1>12. CountIn(t)' /\ QueueIn(t)' /\ StackIn(t)'
  <2>1. CountIn(t)'
    BY <1>1, <1>4, <1>7, <1>9 DEF CountIn
  <2>2. QueueIn(t)'
    BY <1>1, <1>3, <1>4, <1>7, <1>9 DEF QueueIn
  <2>3. StackIn(t)'
    BY <1>1, <1>4, <1>7, <1>9 DEF StackIn, Waits
  <2> QED
    BY <2>1, <2>2, <2>3
<1>13. CountIn(w)' /\ QueueIn(w)' /\ StackIn(w)'
  <2>1. CountIn(w)'
    BY <1>1, <1>2, <1>3, <1>4, <1>7, <1>9 DEF CountIn
  <2>2. Free(w)'
    BY <1>1, <1>6, <1>9 DEF Free
  <2>3. QueueIn(w)'
    BY <1>1, <1>3, <1>7, <2>2 DEF QueueIn
  <2>4. StackIn(w)'
    BY <1>1, <1>3, <1>4, <1>5, <1>7, <1>9 DEF StackIn
  <2> QED
    BY <2>1, <2>3, <2>4
<1>14. ASSUME NEW v \in Thread, v # t, v # w PROVE CountIn(v)' /\ QueueIn(v)' /\ StackIn(v)'
  BY <1>1, <1>7, <1>9, <1>14, OthersStay DEF Together
<1>15. LocalInv'
  BY <1>12, <1>13, <1>14 DEF LocalInv
<1> QED
  BY <1>8, <1>11, <1>15

LEMMA DropConv ==
    ASSUME Together, NEW t \in Thread, DropMessage(t)
    PROVE  CoreInv' /\ Once(Held)' /\ LocalInv'
<1> DEFINE m == msg[t]
<1>1. /\ pc[t] = "received" /\ m \in Message /\ Goto(t, "poll") /\ Recipient(t) = {}
      /\ msg' = [msg EXCEPT ![t] = NoMsg]
      /\ UNCHANGED <<await, stack, deque, remote, occupation, closed, wire, issued, owner, done>>
  BY InHand DEF DropMessage, Got, ReceiveNext, AfterHandOver, boundVars, closeVars, netVars
<1>2. m.to = Unbound
  <2>1. m.to \in Thread \cup {Unbound}
    BY <1>1 DEF Message
  <2>2. \A u \in Thread : serve[u]
    BY InHand
  <2> QED
    BY <1>1, <2>1, <2>2 DEF Recipient
<1>3. Once(Held)' /\ Flying' = Flying \ {m} /\ m \in Flying
  BY <1>1, FlyingLost DEF Together
<1> HIDE DEF m
<1>4. /\ Outs' = Outs /\ Hands' = Hands /\ Waiters' = Waiters /\ StackIn(t)'
      /\ pc'[t] = "poll" /\ \A v \in Thread : v # t => pc'[v] = pc[v]
  <2>1. "poll" \in Waits /\ pc[t] \in Waits
    BY <1>1 DEF Waits
  <2> QED
    BY <1>1, <2>1, GoesOnWaiting
<1>5. CoreInv'
  <2>1. PICK P : Core(P, Hands, Outs, remote, Waiters, Flying)
    BY DEF Together, CoreInv
  <2>2. Core(P, Hands, Outs, remote, Waiters, Flying \ {m})
    BY <1>2, <1>3, <2>1, CoreDrop
  <2> QED
    BY <1>1, <1>3, <1>4, <2>2 DEF CoreInv
<1>6. CountIn(t) /\ QueueIn(t)
  BY DEF Together, LocalInv
<1>7. CountIn(t)'
  BY <1>1, <1>4, <1>6 DEF CountIn
<1>8. QueueIn(t)'
  BY <1>1, <1>4, <1>6 DEF QueueIn
<1>9. \A v \in Thread : v # t => Apart(v) /\ Outs'[v] = Outs[v]
  BY <1>1, <1>4, Domains DEF Apart, Together
<1> QED
  BY <1>1, <1>3, <1>4, <1>5, <1>7, <1>8, <1>9, LocalStep, Domains DEF Together

-----------------------------------------------------------------------------
(* a thread dispatches what it took up, and asks and answers itself *)
LEMMA CoreRebound ==
    ASSUME NEW P, NEW H, NEW O, NEW R, NEW W, NEW M, Core(P, H, O, R, W, M),
           NEW R2, \A z \in Thread : H[z] # {} => R2[z] = R[z]
    PROVE  Core(P, H, O, R2, W, M)
  BY DEF Core, Remotes

LEMMA WaitersChange ==
    ASSUME NEW t \in Thread, \A u \in Thread : u # t => Apart(u) /\ Outs'[u] = Outs[u]
    PROVE  /\ t \notin Waiters' => Waiters' = Waiters \ {t}
           /\ t \in Waiters' => Waiters' = Waiters \cup {t}
  BY DEF Waiters, Apart

(* what a thread has in hand to dispatch *)
LEMMA InDispatch ==
    ASSUME Together, NEW t \in Thread, pc[t] = "dispatch"
    PROVE  /\ msg[t] \in Message /\ msg[t] \in Flying /\ msg[t].to \in {t, Unbound}
           /\ msg[t].seq \in SeqNo /\ msg[t].seq < issued
           /\ remote[t] = msg[t].from /\ (msg[t].to = t \/ Free(t))
           /\ CountIn(t) /\ QueueIn(t) /\ StackIn(t)
<1>1. msg[t] \in Message /\ msg[t] \in Due(t)
  BY InHand DEF Together, TypeInv, Contents, HandInv
<1>2. CountIn(t) /\ QueueIn(t) /\ StackIn(t)
  BY DEF Together, LocalInv
<1>3. msg[t] \in Flying
  BY <1>1, InPlace DEF Together
<1>4. msg[t].to \in {t, Unbound} /\ msg[t].seq < issued /\ msg[t].seq \in SeqNo
  BY <1>1 DEF Due, Sent, Message
<1> QED
  BY <1>1, <1>2, <1>3, <1>4 DEF CountIn

LEMMA ReplyConv ==
    ASSUME Together, NEW t \in Thread, DispatchReply(t)
    PROVE  CoreInv' /\ Once(Held)' /\ LocalInv'
<1> DEFINE m == msg[t]
<1>1. /\ pc[t] = "dispatch" /\ m.type = "reply" /\ Goto(t, "loop") /\ Decr(t)
      /\ done' = done \cup {m.seq} /\ msg' = [msg EXCEPT ![t] = NoMsg]
      /\ UNCHANGED <<await, stack, deque, closed, wire, issued, owner>>
  BY InHand DEF DispatchReply, closeVars, Together, Both
<1>2. /\ m \in Message /\ m \in Flying /\ m.to \in {t, Unbound} /\ m.seq \in SeqNo
      /\ CountIn(t) /\ QueueIn(t) /\ StackIn(t)
  BY <1>1, InDispatch
<1>3. Once(Held)' /\ Flying' = Flying \ {m}
  BY <1>1, <1>2, FlyingLost DEF Together
<1> HIDE DEF m
<1>4. PICK P : Core(P, Hands, Outs, remote, Waiters, Flying)
  BY DEF Together, CoreInv
<1>5. /\ m.to = t /\ Key(m) = t /\ t \in Waiters /\ m.seq \in Outs[t]
      /\ \A s \in Outs[t] : s <= m.seq
      /\ \A u \in Thread : u # t => m.seq \notin Outs[u]
  <2>1. m.to = t
    BY <1>1, <1>2, <1>4, BoundServingAssumption DEF Core, Answered
  <2>2. m.seq \in Outs[t] /\ \A s \in Outs[t] : s <= m.seq
    BY <1>1, <1>2, <1>4, <2>1 DEF Core, Answered
  <2>3. Key(m) = t
    BY <2>1, BoundServingAssumption DEF Key
  <2>4. t \in Waiters
    BY <1>2, <1>4, <2>3 DEF Core, Turns
  <2>5. \A u \in Thread : u # t => m.seq \notin Outs[u]
    BY <1>4, <2>2 DEF Core, Shapes
  <2> QED
    BY <2>1, <2>2, <2>3, <2>4, <2>5
<1>6. await[t] \in Outs[t] /\ await[t] # NoSeq /\ Outs[t] \subseteq Nat /\ stack[t] \in Seq(Frame)
  <2>1. NoSeq \notin Outs[t] /\ Outs[t] \subseteq SeqNo /\ SeqNo \subseteq Nat
    BY NumbersAre DEF Together, SeqNo
  <2> QED
    BY <1>5, <2>1, NumbersAre DEF Waiters, Together
<1>7. FramesIn(Outs[t] \ {await[t]}, await[t], stack[t]) /\ await[t] = m.seq
  <2>1. /\ FramesIn(Outs[t] \ {await[t]}, await[t], stack[t])
        /\ \A o \in Outs[t] : o <= await[t]
    BY <1>2, <1>6, FramesTake DEF StackIn
  <2> QED
    BY <1>5, <1>6, <2>1
<1>8. /\ Outs'[t] = Outs[t] \ {m.seq} /\ \A u \in Thread : u # t => Outs'[u] = Outs[u]
      /\ \A u \in Thread : Hands'[u] = Hands[u]
  <2>1. \A u \in Thread : Outs'[u] = Outs[u] \ {m.seq}
    BY <1>1 DEF Outs, Numbers
  <2> QED
    BY <1>1, <1>5, <2>1 DEF Hands
<1>9. \A u \in Thread : u # t => Apart(u)
  BY <1>1, Domains DEF Together, Goto, Apart, Decr
<1>10. pc'[t] = "loop" /\ await'[t] = await[t] /\ stack'[t] = stack[t] /\ deque'[t] = deque[t]
  BY <1>1, Domains DEF Together, Goto
<1>11. Waiters' = Waiters \ {t}
  <2>1. t \notin Waiters'
    BY <1>7, <1>8, <1>10 DEF Waiters
  <2> QED
    BY <1>8, <1>9, <2>1, WaitersChange
<1>12. /\ occupation'[t] = Cardinality(Hands[t]) + Cardinality(Outs[t] \ {m.seq})
       /\ occupation'[t] = 0 => remote'[t] = Unbound
       /\ Hands[t] # {} => remote'[t] = remote[t]
  <2>1. /\ IsFiniteSet(Hands[t]) /\ IsFiniteSet(Outs[t])
        /\ (Hands[t] # {} /\ Outs[t] # {} => occupation[t] >= 2)
    BY NumbersAre, NotOccupied DEF Together
  <2>2. Cardinality(Outs[t] \ {m.seq}) = Cardinality(Outs[t]) - 1
    BY <1>5, <2>1, FS_RemoveElement
  <2>3. Cardinality(Hands[t]) \in Nat /\ Cardinality(Outs[t]) \in Nat
    BY <2>1, FS_CardinalityType
  <2>4. Hands[t] = {} => Cardinality(Hands[t]) = 0
    BY FS_EmptySet
  <2>5. Hands[t] # {} => Cardinality(Hands[t]) # 0
    BY <2>1, FS_EmptySet
  <2>6. Cardinality(Outs[t]) # 0
    BY <1>5, <2>1, FS_EmptySet
  <2>7. occupation[t] = Cardinality(Hands[t]) + Cardinality(Outs[t])
    BY <1>2 DEF CountIn
  <2>8. /\ occupation[t] <= 1 => occupation'[t] = 0 /\ remote'[t] = Unbound
        /\ ~(occupation[t] <= 1) => occupation'[t] = occupation[t] - 1 /\ remote'[t] = remote[t]
    BY <1>1, Domains DEF Together, Decr
  <2>9. CASE occupation[t] <= 1
    <3>1. Cardinality(Hands[t]) = 0 /\ Cardinality(Outs[t]) = 1
      BY <2>3, <2>6, <2>7, <2>9
    <3>2. Hands[t] = {}
      BY <2>5, <3>1
    <3> QED
      BY <2>2, <2>8, <2>9, <3>1, <3>2
  <2>10. CASE ~(occupation[t] <= 1)
    BY <2>2, <2>3, <2>7, <2>8, <2>10
  <2> QED
    BY <2>9, <2>10
<1>13. CoreInv'
  <2>1. ASSUME NEW O2, NEW R2,
               \A u \in Thread : O2[u] = IF u = t THEN Outs[t] \ {m.seq} ELSE Outs[u],
               \A u \in Thread : Hands[u] # {} => R2[u] = remote[u]
        PROVE  Core(P, Hands, O2, R2, Waiters \ {t}, Flying \ {m})
    <3>1. Core(P, Hands, O2, remote, Waiters \ {t}, Flying \ {m})
      BY <1>1, <1>2, <1>4, <1>5, <2>1, CoreTake
    <3> QED
      BY <2>1, <3>1, CoreRebound
  <2>2. Core(P, Hands, Outs', remote', Waiters \ {t}, Flying \ {m})
    BY <1>8, <1>9, <1>12, <2>1 DEF Apart
  <2>3. Hands' = Hands
    BY <1>8 DEF Hands
  <2> QED
    BY <1>3, <1>11, <2>2, <2>3 DEF CoreInv
<1>14. CountIn(t)'
  BY <1>8, <1>10, <1>12 DEF CountIn
<1>15. QueueIn(t)'
  BY <1>2, <1>6, <1>10 DEF QueueIn, Free
<1>16. StackIn(t)'
  BY <1>6, <1>7, <1>8, <1>10 DEF StackIn, Waits
<1> QED
  BY <1>1, <1>3, <1>8, <1>9, <1>13, <1>14, <1>15, <1>16, LocalStep, Domains DEF Together

(* a thread handles the request it took up *)
LEMMA RequestConv ==
    ASSUME Together, NEW t \in Thread, DispatchRequest(t)
    PROVE  CoreInv' /\ Once(Held)' /\ LocalInv'
<1> DEFINE m == msg[t]
           f == [op |-> "handle", await |-> await[t], arg |-> m.seq]
<1>1. /\ pc[t] = "dispatch" /\ m.type # "reply" /\ occupation' = [occupation EXCEPT ![t] = @ + 1]
      /\ pc'[t] \notin Waits /\ pc'[t] # "idle" /\ \A u \in Thread : u # t => pc'[u] = pc[u]
      /\ stack'[t] = <<f>> \o stack[t] /\ await'[t] = NoSeq
      /\ \A u \in Thread : u # t => stack'[u] = stack[u] /\ await'[u] = await[u]
      /\ msg' = [msg EXCEPT ![t] = NoMsg]
      /\ UNCHANGED <<deque, remote, closed, wire, issued, owner, done>>
  BY Domains DEF DispatchRequest, Incr, Push, Goto, closeVars, netVars, Together, Waits
<1>2. /\ m \in Message /\ m \in Flying /\ m.to \in {t, Unbound} /\ m.seq \in SeqNo
      /\ remote[t] = m.from /\ (m.to = t \/ Free(t))
      /\ CountIn(t) /\ QueueIn(t) /\ StackIn(t)
  BY <1>1, InDispatch
<1>3. Once(Held)' /\ Flying' = Flying \ {m}
  BY <1>1, <1>2, FlyingLost DEF Together
<1>4. /\ f \in Frame /\ f.op = "handle" /\ f.await = await[t] /\ f.arg = m.seq
      /\ stack[t] \in Seq(Frame)
  BY <1>2, NumbersAre DEF Frame, Together, TypeInv, Contents, AwaitInv
<1> HIDE DEF f, m
<1>5. PICK P : Core(P, Hands, Outs, remote, Waiters, Flying)
  BY DEF Together, CoreInv
<1>6. /\ \A s \in Hands[t] : s < m.seq
      /\ await[t] # NoSeq => await[t] \in Outs[t]
      /\ await[t] = NoSeq => stack[t] = <<>>
      /\ \E P2 : \A H2 : (\A z \in Thread : H2[z] = IF z = t THEN Hands[t] \cup {m.seq} ELSE Hands[z])
                           => Core(P2, H2, Outs, remote, Waiters \ {t}, Flying \ {m})
  <2>1. CASE m.to = t
    <3>1. t \in Waiters /\ await[t] \in Outs[t]
      <4>1. Key(m) = t
        BY <2>1, BoundServingAssumption DEF Key
      <4> QED
        BY <1>2, <1>5, <4>1 DEF Core, Turns, Waiters
    <3>2. \A s \in Hands[t] : s < m.seq
      BY <1>1, <1>2, <1>5, <2>1 DEF Core, Asked
    <3>3. await[t] # NoSeq
      BY <3>1, NumbersAre DEF Together
    <3>4. ASSUME NEW H2, \A z \in Thread : H2[z] = IF z = t THEN Hands[t] \cup {m.seq} ELSE Hands[z]
          PROVE  Core(P, H2, Outs, remote, Waiters \ {t}, Flying \ {m})
      <4>1. m \in Flying /\ m.type # "reply" /\ m.to = t /\ remote[t] = m.from
        BY <1>1, <1>2, <2>1
      <4> QED
        BY ONLY <1>5, <3>4, <4>1, CoreServe, t \in Thread
    <3> QED
      BY <3>1, <3>2, <3>3, <3>4
  <2>2. CASE m.to # t
    <3>1. m.to = Unbound /\ Hands[t] = {} /\ Outs[t] = {} /\ await[t] = NoSeq
      BY <1>2, <2>2 DEF Free
    <3>2. stack[t] = <<>>
      BY <1>1, <1>2, <3>1 DEF StackIn, Waits
    <3>3. ASSUME NEW H2, \A z \in Thread : H2[z] = IF z = t THEN Hands[t] \cup {m.seq} ELSE Hands[z]
          PROVE  Core([P EXCEPT ![t] = m.from, ![m.from] = t], H2, Outs, remote, Waiters \ {t}, Flying \ {m})
      <4>1. \A z \in Thread : H2[z] = IF z = t THEN {m.seq} ELSE Hands[z]
        BY <3>1, <3>3
      <4> QED
        BY <1>2, <1>5, <3>1, <4>1, CoreServeNew
    <3> QED
      BY <3>1, <3>2, <3>3
  <2> QED
    BY <2>1, <2>2
<1>7. Outs' = Outs
  BY <1>1, OutsStay
<1>8. /\ FramesIn(Outs[t], NoSeq, stack'[t]) /\ HandOf(stack'[t]) = Hands[t] \cup {m.seq}
  <2>1. FramesIn(Outs[t], await[t], stack[t]) /\ Hands[t] = HandOf(stack[t])
    BY <1>2 DEF StackIn, Hands
  <2>2. /\ FramesIn(Outs[t], NoSeq, <<f>> \o stack[t])
        /\ HandOf(<<f>> \o stack[t]) = HandOf(stack[t]) \cup (IF f.op = "handle" THEN {f.arg} ELSE {})
    BY <1>4, <1>6, <2>1, FramesPush
  <2> QED
    BY <1>1, <1>4, <2>1, <2>2
<1>9. /\ Hands'[t] = Hands[t] \cup {m.seq} /\ \A u \in Thread : u # t => Hands'[u] = Hands[u]
  BY <1>1, <1>8 DEF Hands
<1>10. \A u \in Thread : u # t => Apart(u)
  BY <1>1, Domains DEF Together, Apart
<1>11. Waiters' = Waiters \ {t}
  <2>1. t \notin Waiters'
    BY <1>1 DEF Waiters
  <2> QED
    BY <1>7, <1>10, <2>1, WaitersChange
<1>12. CoreInv'
  <2>1. PICK P2 : \A H2 : (\A z \in Thread : H2[z] = IF z = t THEN Hands[t] \cup {m.seq} ELSE Hands[z])
                           => Core(P2, H2, Outs, remote, Waiters \ {t}, Flying \ {m})
    BY <1>6
  <2>2. \A z \in Thread : Hands'[z] = IF z = t THEN Hands[t] \cup {m.seq} ELSE Hands[z]
    BY <1>9
  <2>3. Core(P2, Hands', Outs, remote, Waiters \ {t}, Flying \ {m})
    BY <2>1, <2>2
  <2> QED
    BY <1>1, <1>3, <1>7, <1>11, <2>3 DEF CoreInv
<1>13. CountIn(t)'
  <2>1. IsFiniteSet(Hands[t]) /\ IsFiniteSet(Outs[t]) /\ Hands[t] \subseteq SeqNo
    BY NumbersAre DEF Together
  <2>2. m.seq \notin Hands[t]
    BY <1>2, <1>6, <2>1 DEF SeqNo
  <2>3. Cardinality(Hands[t] \cup {m.seq}) = Cardinality(Hands[t]) + 1
    BY <2>1, <2>2, FS_AddElement
  <2>4. Cardinality(Hands[t]) \in Nat /\ Cardinality(Outs[t]) \in Nat
    BY <2>1, FS_CardinalityType
  <2>5. occupation'[t] = occupation[t] + 1
    BY <1>1, Domains DEF Together
  <2>6. occupation[t] = Cardinality(Hands[t]) + Cardinality(Outs[t])
    BY <1>2 DEF CountIn
  <2>7. occupation'[t] = Cardinality(Hands'[t]) + Cardinality(Outs'[t]) /\ occupation'[t] # 0
    BY <1>7, <1>9, <2>3, <2>4, <2>5, <2>6
  <2>8. pc'[t] # "dispatch"
    BY <1>1 DEF Waits
  <2> QED
    BY <2>7, <2>8 DEF CountIn
<1>14. QueueIn(t)'
  BY <1>1, <1>2 DEF QueueIn
<1>15. StackIn(t)'
  BY <1>1, <1>7, <1>8 DEF StackIn
<1> QED
  BY <1>1, <1>3, <1>7, <1>10, <1>12, <1>13, <1>14, <1>15, LocalStep, Domains DEF Together

LEMMA AnswerConv ==
    ASSUME Together, NEW t \in Thread, SendReply(t)
    PROVE  CoreInv' /\ Once(Held)' /\ LocalInv'
<1> DEFINE h == Head(stack[t])
           s == h.arg
           m == [type |-> "reply", seq |-> s, from |-> t, to |-> remote[t]]
<1>1. /\ pc[t] = "handler" /\ pc'[t] = "loop" /\ \A u \in Thread : u # t => pc'[u] = pc[u]
      /\ await'[t] = h.await /\ stack'[t] = Tail(stack[t])
      /\ \A u \in Thread : u # t => stack'[u] = stack[u] /\ await'[u] = await[u]
      /\ wire' = [wire EXCEPT ![Peer(SideOf[t])] = Append(@, m)]
      /\ Decr(t) /\ UNCHANGED <<msg, deque, closed, issued, owner, done>>
  BY InHand, Domains DEF SendReply, Pop, Post, Goto, closeVars, Together
<1>2. /\ CountIn(t) /\ QueueIn(t) /\ StackIn(t) /\ await[t] = NoSeq /\ t \notin Waiters
      /\ stack[t] \in Seq(Frame) /\ stack[t] # <<>> /\ h.op = "handle"
  <2>1. pc[t] \notin Waits
    BY <1>1 DEF Waits
  <2>2. CountIn(t) /\ QueueIn(t) /\ StackIn(t)
    BY DEF Together, LocalInv
  <2>3. stack[t] # <<>> /\ h.op = "handle"
    BY <1>1 DEF Together, TypeInv, Contents, NestInv
  <2> QED
    BY <2>1, <2>2, <2>3, NumbersAre DEF StackIn, Waiters, Together
<1>3. PICK P : Core(P, Hands, Outs, remote, Waiters, Flying)
  BY DEF Together, CoreInv
<1>4. remote[t] = P[t]
  BY <1>1, <1>2, <1>3, BoundTo DEF Together
<1>5. /\ FramesIn(Outs[t], h.await, Tail(stack[t]))
      /\ HandOf(Tail(stack[t])) = Hands[t] \ {s} /\ s \in Hands[t] /\ \A r \in Hands[t] : r <= s
      /\ h.await # NoSeq => h.await \in Outs[t]
      /\ h.await = NoSeq => Tail(stack[t]) = <<>> /\ Outs[t] = {} /\ Hands[t] = {s}
  <2>1. FramesIn(Outs[t], NoSeq, stack[t]) /\ Hands[t] = HandOf(stack[t]) /\ NoSeq \notin Outs[t]
    BY <1>2, NumbersAre DEF StackIn, Together
  <2>2. HandOf(<<>>) = {}
    BY DEF HandOf
  <2>3. /\ FramesIn(Outs[t], h.await, Tail(stack[t]))
        /\ HandOf(Tail(stack[t])) = HandOf(stack[t]) \ {s}
        /\ s \in HandOf(stack[t]) /\ \A r \in HandOf(stack[t]) : r <= s
        /\ h.await # NoSeq => h.await \in Outs[t]
        /\ h.await = NoSeq => Tail(stack[t]) = <<>> /\ Outs[t] = {}
    BY <1>2, <2>1, FramesPop
  <2> QED
    BY <2>1, <2>2, <2>3
<1>6. /\ P[t] \in Thread /\ P[P[t]] = t /\ P[t] # t
      /\ \A n \in Flying : Key(n) # P[t]
  BY <1>2, <1>3, <1>5, CoreAnswers
<1>7. /\ m \in Message /\ m \notin Flying /\ m.type = "reply" /\ m.from = t /\ m.to = P[t] /\ m.seq = s
      /\ Hands[t] \subseteq SeqNo
  <2>1. Hands[t] \subseteq SeqNo /\ s \in SeqNo
    BY <1>5, NumbersAre DEF Together
  <2>2. m.type = "reply" /\ m.from = t /\ m.to = P[t] /\ m.seq = s /\ m \in Message
    BY <1>4, <1>6, <2>1 DEF Message
  <2>3. Key(m) = P[t]
    BY <1>6, <2>2, BoundServingAssumption DEF Key
  <2> QED
    BY <1>6, <2>1, <2>2, <2>3
<1>8. Once(Held)' /\ Flying' = Flying \cup {m}
  BY <1>1, <1>7, Sides, FlyingPosted DEF Together
<1> HIDE DEF m, s, h
<1>9. Outs' = Outs
  BY <1>1, OutsStay
<1>10. Hands'[t] = Hands[t] \ {s} /\ \A u \in Thread : u # t => Hands'[u] = Hands[u]
  BY <1>1, <1>5 DEF Hands
<1>11. \A u \in Thread : u # t => Apart(u)
  BY <1>1, Domains DEF Together, Apart, Decr
<1>12. /\ IsFiniteSet(Hands[t]) /\ IsFiniteSet(Outs[t])
       /\ Cardinality(Hands[t] \ {s}) = Cardinality(Hands[t]) - 1
       /\ Cardinality(Hands[t]) \in Nat /\ Cardinality(Outs[t]) \in Nat
       /\ occupation[t] = Cardinality(Hands[t]) + Cardinality(Outs[t])
       /\ Hands[t] # {} /\ Outs[t] # {} => occupation[t] >= 2
       /\ occupation[t] <= 1 => occupation'[t] = 0 /\ remote'[t] = Unbound
       /\ ~(occupation[t] <= 1) => occupation'[t] = occupation[t] - 1 /\ remote'[t] = remote[t]
  <2>1. /\ IsFiniteSet(Hands[t]) /\ IsFiniteSet(Outs[t])
        /\ (Hands[t] # {} /\ Outs[t] # {} => occupation[t] >= 2)
    BY NumbersAre, NotOccupied DEF Together
  <2>2. Cardinality(Hands[t] \ {s}) = Cardinality(Hands[t]) - 1
    BY <1>5, <2>1, FS_RemoveElement
  <2>3. Cardinality(Hands[t]) \in Nat /\ Cardinality(Outs[t]) \in Nat
    BY <2>1, FS_CardinalityType
  <2>4. occupation[t] = Cardinality(Hands[t]) + Cardinality(Outs[t])
    BY <1>2 DEF CountIn
  <2>5. /\ occupation[t] <= 1 => occupation'[t] = 0 /\ remote'[t] = Unbound
        /\ ~(occupation[t] <= 1) => occupation'[t] = occupation[t] - 1 /\ remote'[t] = remote[t]
    BY <1>1, Domains DEF Together, Decr
  <2> QED
    BY <2>1, <2>2, <2>3, <2>4, <2>5
<1>13. /\ StackIn(t)' /\ QueueIn(t)'
  <2>1. StackIn(t)'
    BY <1>1, <1>5, <1>9 DEF StackIn, Waits
  <2>2. QueueIn(t)'
    BY <1>1, <1>2, <1>5 DEF QueueIn, Free
  <2> QED
    BY <2>1, <2>2
<1>14. CASE h.await # NoSeq
  <2>1. /\ occupation'[t] = occupation[t] - 1 /\ occupation[t] >= 2 /\ remote' = remote
        /\ Outs[t] # {} /\ t \in Waiters'
    <3>1. Outs[t] # {} /\ Hands[t] # {}
      BY <1>5, <1>14
    <3>2. occupation[t] >= 2 /\ ~(occupation[t] <= 1)
      BY <1>12, <3>1
    <3>3. remote' = remote
      BY <1>1, <3>2 DEF Decr
    <3>4. t \in Waiters'
      BY <1>1, <1>5, <1>9, <1>14 DEF Waiters, Waits
    <3> QED
      BY <1>12, <3>1, <3>2, <3>3, <3>4
  <2>2. Waiters' = Waiters \cup {t}
    BY <1>9, <1>11, <2>1, WaitersChange
  <2>3. CoreInv'
    <3>1. ASSUME NEW H2, Changed(H2, Hands, t, Hands[t] \ {m.seq})
          PROVE  Core(P, H2, Outs, remote, Waiters \cup {t}, Flying \cup {m})
      <4>1. Answers(m, t, P[t])
        BY <1>7 DEF Answers
      <4>2. m.seq \in Hands[t] /\ \A r \in Hands[t] : r <= m.seq
        BY <1>5, <1>7
      <4>3. t \notin Waiters /\ Outs[t] # {}
        BY <1>2, <2>1
      <4> QED
        BY ONLY <1>3, <3>1, <4>1, <4>2, <4>3, CoreAnswer, t \in Thread
    <3>2. Changed(Hands', Hands, t, Hands[t] \ {m.seq})
      BY <1>7, <1>10 DEF Changed
    <3>3. Core(P, Hands', Outs, remote, Waiters \cup {t}, Flying \cup {m})
      BY <3>1, <3>2
    <3> QED
      BY <1>8, <1>9, <2>1, <2>2, <3>3 DEF CoreInv
  <2>4. CountIn(t)'
    BY <1>1, <1>9, <1>10, <1>12, <2>1 DEF CountIn
  <2> QED
    BY <1>1, <1>8, <1>9, <1>11, <1>13, <2>3, <2>4, LocalStep, Domains DEF Together
<1>15. CASE h.await = NoSeq
  <2>1. Outs[t] = {} /\ Hands[t] = {s}
    BY <1>5, <1>15
  <2>2. occupation'[t] = 0 /\ remote'[t] = Unbound /\ occupation[t] = 1
    <3>1. Cardinality(Outs[t]) = 0 /\ Cardinality(Hands[t]) = 1
      BY <2>1, FS_EmptySet, FS_Singleton
    <3> QED
      BY <1>12, <3>1
  <2>3. Hands'[t] = {}
    BY <1>10, <2>1
  <2>4. Waiters' = Waiters
    <3>1. t \notin Waiters'
      BY <1>9, <2>1 DEF Waiters
    <3> QED
      BY <1>2, <1>9, <1>11, <3>1, WaitersChange
  <2>5. Hands[P[t]] = {}
    BY <1>3, <1>6, <2>1 DEF Core, Paired
  <2>6. CoreInv'
    <3> DEFINE P2 == [P EXCEPT ![t] = Unbound, ![P[t]] = Unbound]
    <3>1. ASSUME NEW H2, \A z \in Thread : H2[z] = IF z = t THEN {} ELSE Hands[z],
                 NEW R2, \A z \in Thread : z # t => R2[z] = remote[z]
          PROVE  Core(P2, H2, Outs, R2, Waiters, Flying \cup {m})
      <4>1. Hands[t] = {m.seq}
        BY <1>7, <2>1
      <4>2. Core(P2, H2, Outs, remote, Waiters, Flying \cup {m})
        <5>1. m.type = "reply" /\ m.from = t /\ m.to = P[t] /\ t \in Thread /\ t \notin Waiters
          BY <1>2, <1>7
        <5> QED
          BY ONLY <1>3, <2>5, <3>1, <4>1, <5>1, CoreAnswerLast DEF P2
      <4>3. \A z \in Thread : H2[z] # {} => R2[z] = remote[z]
        BY <3>1
      <4> HIDE DEF P2
      <4> QED
        BY <4>2, <4>3, CoreRebound
    <3> HIDE DEF P2
    <3>2. \A z \in Thread : Hands'[z] = IF z = t THEN {} ELSE Hands[z]
      BY <1>10, <2>3
    <3>3. \A z \in Thread : z # t => remote'[z] = remote[z]
      BY <1>11 DEF Apart
    <3>4. Core(P2, Hands', Outs, remote', Waiters, Flying \cup {m})
      BY <3>1, <3>2, <3>3
    <3> QED
      BY <1>8, <1>9, <2>4, <3>4 DEF CoreInv
  <2>7. CountIn(t)'
    <3>1. Cardinality(Hands'[t]) = 0 /\ Cardinality(Outs'[t]) = 0
      BY <1>9, <2>1, <2>3, FS_EmptySet
    <3> QED
      BY <1>1, <2>2, <3>1 DEF CountIn
  <2> QED
    BY <1>1, <1>8, <1>9, <1>11, <1>13, <2>6, <2>7, LocalStep, Domains DEF Together
<1> QED
  BY <1>14, <1>15

LEMMA AskConv ==
    ASSUME Together, NEW t \in Thread, ClientCalls(t) \/ HandlerCalls(t) \/ SendClose(t)
    PROVE  CoreInv' /\ Once(Held)' /\ LocalInv'
<1>1. PICK type \in {"request", "close"} : SendRequest(t, type)
  BY DEF ClientCalls, HandlerCalls, SendClose
<1> DEFINE m == [type |-> type, seq |-> issued, from |-> t, to |-> remote[t]]
           x == [thread |-> t, home |-> Asker(t)]
<1>2. /\ pc[t] \in {"idle", "handler", "sendclose"}
      /\ UNCHANGED <<stack, msg, deque, closed, done>>
  BY DEF ClientCalls, HandlerCalls, SendClose, closeVars
<1>3. /\ occupation' = [occupation EXCEPT ![t] = @ + 1] /\ remote' = remote
      /\ issued \in SeqNo /\ issued' = issued + 1 /\ owner' = Append(owner, x)
      /\ wire' = [wire EXCEPT ![Peer(SideOf[t])] = Append(@, m)]
      /\ pc'[t] = "loop" /\ await'[t] = issued
      /\ \A u \in Thread : u # t => pc'[u] = pc[u] /\ await'[u] = await[u]
  BY <1>1, InHand, Domains DEF SendRequest, Incr, Post, Goto, Together
<1>4. /\ CountIn(t) /\ QueueIn(t) /\ StackIn(t) /\ await[t] = NoSeq /\ t \notin Waiters
      /\ stack[t] \in Seq(Frame)
  <2>1. pc[t] \notin Waits
    BY <1>2 DEF Waits
  <2>2. CountIn(t) /\ QueueIn(t) /\ StackIn(t)
    BY DEF Together, LocalInv
  <2> QED
    BY <2>1, <2>2, NumbersAre DEF StackIn, Waiters, Together
<1>5. PICK P : Core(P, Hands, Outs, remote, Waiters, Flying)
  BY DEF Together, CoreInv
<1>6. remote[t] = P[t] /\ remote[t] \in Thread \cup {Unbound}
  BY <1>2, <1>4, <1>5, BoundTo DEF Together, TypeInv, Contents, RemoteInv
<1>7. P[t] = Unbound => Outs[t] = {}
  BY <1>4, <1>5 DEF Core, Single
<1>8. /\ m \in Message /\ m.type # "reply" /\ m.from = t /\ m.to = P[t] /\ m.seq = issued
      /\ m \notin Flying
  <2>1. m \in Message /\ m.type # "reply" /\ m.from = t /\ m.to = P[t] /\ m.seq = issued
    BY <1>3, <1>6 DEF Message
  <2>2. CASE P[t] = Unbound
    <3>1. Key(m) = t
      BY <2>1, <2>2 DEF Key
    <3> QED
      BY <1>4, <1>5, <2>1, <3>1 DEF Core, Turns
  <2>3. CASE P[t] # Unbound
    <3>1. Key(m) = P[t] /\ P[t] \in Thread
      BY <1>6, <2>1, <2>3 DEF Key
    <3> QED
      BY <1>4, <1>5, <2>1, <3>1 DEF Core, Turns
  <2> QED
    BY <2>1, <2>2, <2>3
<1>9. Once(Held)' /\ Flying' = Flying \cup {m}
  BY <1>2, <1>3, <1>8, Sides, FlyingPosted DEF Together
<1>10. /\ Outs'[t] = Outs[t] \cup {issued} /\ \A u \in Thread : u # t => Outs'[u] = Outs[u]
       /\ Hands' = Hands
  <2>1. /\ owner \in Seq([thread : Thread, home : Thread \cup {Unbound}]) /\ Len(owner) = issued
        /\ \A s \in done : s < issued
    BY DEF Together, TypeInv, Contents, NumberInv
  <2>2. /\ owner'[issued + 1] = x /\ \A s \in SeqNo : s < issued => owner'[s + 1] = owner[s + 1]
    BY <1>3, <2>1 DEF SeqNo
  <2>3. x.thread = t
    OBVIOUS
  <2> HIDE DEF x
  <2>4. \A u \in Thread : Numbers(u)' = IF u = t THEN Numbers(u) \cup {issued} ELSE Numbers(u)
    <3>1. ASSUME NEW u \in Thread, NEW s \in SeqNo
          PROVE  s \in Numbers(u)' <=> s \in Numbers(u) \/ (u = t /\ s = issued)
      <4>1. s \in Nat /\ issued \in Nat /\ issued + 1 \in Nat
        BY <1>3 DEF SeqNo
      <4>2. s \in Numbers(u)' <=> s < issued + 1 /\ owner'[s + 1].thread = u
        BY <1>3 DEF Numbers
      <4>3. s \in Numbers(u) <=> s < issued /\ owner[s + 1].thread = u
        BY DEF Numbers
      <4>4. CASE s = issued
        BY <2>2, <2>3, <4>1, <4>2, <4>3, <4>4
      <4>5. CASE s # issued
        <5>1. s < issued + 1 <=> s < issued
          BY <4>1, <4>5
        <5> QED
          BY <2>2, <4>2, <4>3, <4>5, <5>1
      <4> QED
        BY <4>4, <4>5
    <3>2. \A u \in Thread : Numbers(u)' \subseteq SeqNo /\ Numbers(u) \subseteq SeqNo
      BY DEF Numbers
    <3> QED
      BY <1>3, <3>1, <3>2
  <2>5. issued \notin done
    BY <1>3, <2>1 DEF SeqNo
  <2> QED
    BY <1>2, <2>4, <2>5 DEF Outs, Hands
<1> HIDE DEF m, x
<1>11. \A u \in Thread : u # t => Apart(u)
  BY <1>2, <1>3, Domains DEF Together, Apart
<1>12. /\ \A y \in Thread : \A r \in Hands[y] \cup Outs[y] : r < issued
       /\ issued \in Nat /\ NoSeq \notin Outs[t] /\ issued \notin Outs[t] /\ issued # NoSeq
       /\ IsFiniteSet(Hands[t]) /\ IsFiniteSet(Outs[t])
  <2>1. \A y \in Thread : \A r \in Hands[y] \cup Outs[y] : r < issued
    BY NumbersAre DEF Together
  <2>2. issued \in Nat /\ issued # NoSeq
    BY <1>3 DEF SeqNo, NoSeq
  <2>3. issued \notin Outs[t]
    BY <2>1, <2>2
  <2> QED
    BY <2>1, <2>2, <2>3, NumbersAre DEF Together
<1>13. Waiters' = Waiters \cup {t}
  <2>1. t \in Waiters'
    BY <1>3, <1>10 DEF Waiters, Waits
  <2> QED
    BY <1>10, <1>11, <2>1, WaitersChange
<1>14. CoreInv'
  <2>1. ASSUME NEW O2, Changed(O2, Outs, t, Outs[t] \cup {m.seq})
        PROVE  Core(P, Hands, O2, remote, Waiters \cup {t}, Flying \cup {m})
    <3>1. Asks(m, t, P[t])
      BY <1>8, <1>12 DEF Asks
    <3>2. \A y \in Thread : \A r \in Hands[y] \cup Outs[y] : r < m.seq
      BY <1>8, <1>12
    <3>3. t \notin Waiters
      BY <1>4
    <3> QED
      BY ONLY <1>5, <1>7, <2>1, <3>1, <3>2, <3>3, CoreAsk, t \in Thread
  <2>2. Changed(Outs', Outs, t, Outs[t] \cup {m.seq})
    BY <1>8, <1>10 DEF Changed
  <2>3. Core(P, Hands, Outs', remote, Waiters \cup {t}, Flying \cup {m})
    BY <2>1, <2>2
  <2> QED
    BY <1>3, <1>9, <1>10, <1>13, <2>3 DEF CoreInv
<1>15. CountIn(t)'
  <2>1. Cardinality(Outs[t] \cup {issued}) = Cardinality(Outs[t]) + 1
    BY <1>12, FS_AddElement
  <2>2. Cardinality(Hands[t]) \in Nat /\ Cardinality(Outs[t]) \in Nat
    BY <1>12, FS_CardinalityType
  <2>3. occupation'[t] = occupation[t] + 1
    BY <1>3, Domains DEF Together
  <2>4. occupation[t] = Cardinality(Hands[t]) + Cardinality(Outs[t])
    BY <1>4 DEF CountIn
  <2>5. occupation'[t] = Cardinality(Hands'[t]) + Cardinality(Outs'[t]) /\ occupation'[t] # 0
    BY <1>10, <2>1, <2>2, <2>3, <2>4
  <2> QED
    BY <1>3, <2>5 DEF CountIn
<1>16. QueueIn(t)'
  BY <1>2, <1>3, <1>4 DEF QueueIn
<1>17. StackIn(t)'
  <2>1. FramesIn(Outs[t], NoSeq, stack[t])
    BY <1>4 DEF StackIn
  <2>2. \A o \in Outs[t] : o < issued
    BY <1>12
  <2>3. FramesIn(Outs[t] \cup {issued}, issued, stack[t])
    BY <1>4, <1>12, <2>1, <2>2, FramesAsk
  <2> QED
    BY <1>2, <1>3, <1>10, <1>12, <2>3 DEF StackIn, Waits
<1> QED
  BY <1>2, <1>9, <1>10, <1>11, <1>14, <1>15, <1>16, <1>17, LocalStep, Domains DEF Together

LEMMA ConvInit ==
    ASSUME Init
    PROVE  ConvInv
<1>1. \A u \in Thread : /\ stack[u] = <<>> /\ deque[u] = <<>> /\ msg[u] = NoMsg /\ await[u] = NoSeq
                        /\ remote[u] = Unbound /\ occupation[u] = 0 /\ pc[u] # "dispatch"
  BY DEF Init
<1>2. issued = 0 /\ \A d \in Side : wire[d] = <<>>
  BY DEF Init
<1>3. \A u \in Thread : Hands[u] = {} /\ Outs[u] = {}
  <2>1. HandOf(<<>>) = {}
    BY DEF HandOf
  <2>2. \A s \in SeqNo : ~(s < issued)
    BY <1>2 DEF SeqNo
  <2> QED
    BY <1>1, <2>1, <2>2 DEF Hands, Outs, Numbers
<1>4. Waiters = {}
  BY <1>3 DEF Waiters
<1>5. \A p \in Spot : Held[p] = <<>>
  <2>1. \A t \in Thread : Hand(msg[t]) = <<>>
    BY <1>1, NoMessage
  <2>2. ASSUME NEW p \in Spot PROVE Held[p] = <<>>
    <3>1. CASE \E d \in Side : p = WireAt(d)
      BY <1>2, <3>1, HeldIs
    <3>2. CASE \E t \in Thread : p = QueueAt(t)
      BY <1>1, <3>2, HeldIs
    <3>3. CASE \E t \in Thread : p = HandAt(t)
      BY <2>1, <3>3, HeldIs
    <3> QED
      BY <3>1, <3>2, <3>3, Places
  <2> QED
    BY <2>2
<1>6. Once(Held) /\ Flying = {}
  <2>1. \A p \in Spot : 1 .. Len(Held[p]) = {}
    BY <1>5
  <2> QED
    BY <2>1 DEF Once, Flying, MsgsIn
<1>7. LocalInv
  <2>1. ASSUME NEW u \in Thread PROVE CountIn(u)
    <3>1. Cardinality(Hands[u]) = 0 /\ Cardinality(Outs[u]) = 0
      BY <1>3, FS_EmptySet
    <3> QED
      BY <1>1, <3>1 DEF CountIn
  <2>2. ASSUME NEW u \in Thread PROVE QueueIn(u) /\ StackIn(u)
    <3>1. FramesIn({}, NoSeq, <<>>)
      BY DEF FramesIn
    <3> QED
      BY <1>1, <1>3, <3>1 DEF QueueIn, StackIn
  <2> QED
    BY <2>1, <2>2 DEF LocalInv
<1>8. CoreInv
  <2> DEFINE P == [v \in Thread |-> Unbound]
  <2>1. \A v \in Thread : P[v] = Unbound
    OBVIOUS
  <2>2. P \in [Thread -> Thread \cup {Unbound}]
    OBVIOUS
  <2> HIDE DEF P
  <2>3. Shapes(P, Hands, Outs, Waiters, Flying) /\ Paired(P, Hands, Outs) /\ Single(P, Outs, Waiters)
    BY <1>3, <1>4, <1>6, <2>1, <2>2, BoundServingAssumption DEF Shapes, Paired, Single
  <2>4. Turns(P, Waiters, Flying) /\ Open(P, Hands, Outs, Flying)
    BY <1>3, <1>6, <2>1, BoundServingAssumption DEF Turns, Open
  <2>5. Asked(P, Hands, Outs, Flying) /\ Answered(P, Hands, Outs, Flying) /\ Remotes(P, Hands, remote)
    BY <1>3, <1>6 DEF Asked, Answered, Remotes
  <2> QED
    BY <2>3, <2>4, <2>5 DEF CoreInv, Core
<1> QED
  BY <1>6, <1>7, <1>8 DEF ConvInv

(* While both ends are open and no deadline has passed, the threads of the two ends
   talk to each other two by two. *)
LEMMA ConvKeeps ==
    ASSUME TypeInv, QuietInv, ClientInv, SleepInv, ConvInv, [Next]_vars
    PROVE  ConvInv'
<1> SUFFICES ASSUME Both' PROVE CoreInv' /\ Once(Held)' /\ LocalInv'
  BY DEF ConvInv
<1>1. (\A d \in Side : open[d]) /\ expired' = {} /\ expired = {}
  BY OpenStays DEF Both
<1>2. Together
  BY <1>1 DEF Together, Both, ConvInv
<1>3. \/ \E t \in Thread : Talk(t)
      \/ \E s \in SeqNo : Expire(s)
      \/ UNCHANGED vars
  BY QuietSteps DEF Both
<1>4. ASSUME NEW t \in Thread, Talk(t) PROVE CoreInv' /\ Once(Held)' /\ LocalInv'
  <2>1. CASE WaitDone(t) \/ LoopEnds(t)
    BY <1>2, <2>1, WaitSteps
  <2>2. CASE ServeEnter(t) \/ ServeWoken(t)
    BY <1>2, <2>2, EnterConv
  <2>3. CASE PollData(t) \/ PollWoken(t) \/ LeaveEmpty(t)
    BY <1>2, <2>3, PollConv
  <2>4. CASE TakeMessage(t)
    BY <1>2, <2>4, TakeConv
  <2>5. CASE HandOver(t)
    BY <1>2, <2>5, HandConv
  <2>6. CASE StartWorker(t)
    BY <1>2, <2>6, StartConv
  <2>7. CASE DropMessage(t)
    BY <1>2, <2>7, DropConv
  <2>8. CASE DispatchReply(t)
    BY <1>2, <2>8, ReplyConv
  <2>9. CASE DispatchRequest(t)
    BY <1>2, <2>9, RequestConv
  <2>10. CASE SendReply(t)
    BY <1>2, <2>10, AnswerConv
  <2>11. CASE Close(t, "closing", "end") \/ UserCloses(t)
    BY <1>2, <2>11, CloseBegins
  <2>12. CASE SendClose(t) \/ ClientCalls(t) \/ HandlerCalls(t)
    BY <1>2, <2>12, AskConv
  <2> QED
    BY <1>4, <2>1, <2>2, <2>3, <2>4, <2>5, <2>6, <2>7, <2>8, <2>9, <2>10, <2>11, <2>12 DEF Talk
<1>5. ASSUME NEW s \in SeqNo, Expire(s) PROVE FALSE
  BY <1>1, <1>5 DEF Expire
<1>6. CASE UNCHANGED vars
  <2>1. UNCHANGED <<pc, await, stack, msg, deque, remote, occupation, closed, wire, issued, owner, done>>
    BY <1>6 DEF vars, threadVars, boundVars, closeVars, netVars
  <2>2. Outs' = Outs /\ Hands' = Hands
    BY <2>1, OutsStay DEF Hands
  <2>3. Waiters' = Waiters
    BY <2>1, <2>2 DEF Waiters
  <2>4. Once(Held)' /\ Flying' = Flying
    BY <1>2, <2>1, FlyingStays DEF Together
  <2>5. CoreInv'
    BY <1>2, <2>1, <2>2, <2>3, <2>4, CoreStays DEF Together
  <2>6. LocalInv'
    BY <1>2, <2>1, <2>2, OthersStay DEF Together, LocalInv
  <2> QED
    BY <2>4, <2>5, <2>6
<1> QED
  BY <1>3, <1>4, <1>5, <1>6

-----------------------------------------------------------------------------
(* What is on its way is bound to the thread it belongs to. *)
Bound(m) ==
    IF m.type = "reply" THEN m.to = owner[m.seq + 1].thread
                        ELSE owner[m.seq + 1].home \in {Unbound, m.to}
Kept == {m \in Message : m.seq < issued /\ Bound(m)}
HomeInv ==
    expired = {} =>
        /\ \A d \in Side : open[d] => wire[d] \in Seq(Kept)
        /\ \A t \in Thread : /\ msg[t] \in Kept \cup {NoMsg, EOF}
                             /\ deque[t] \in Seq(Kept \cup {Wake})

(* where a thread has its message from, and a queue *)
CameFrom(u) ==
    \/ msg'[u] \in {msg[u], NoMsg, EOF}
    \/ open[SideOf[u]] /\ wire[SideOf[u]] # <<>> /\ msg'[u] = Head(wire[SideOf[u]])
    \/ deque[u] # <<>> /\ Head(deque[u]) # Wake /\ msg'[u] = Head(deque[u])
Queued(u) ==
    \/ deque'[u] = deque[u]
    \/ deque[u] # <<>> /\ deque'[u] = Tail(deque[u])
    \/ deque'[u] = Append(deque[u], Wake)
    \/ \E t \in Thread : msg[t] \in Message /\ deque'[u] \in {Append(deque[u], msg[t]), <<msg[t]>>}
Carried == \A u \in Thread : CameFrom(u) /\ Queued(u)

LEMMA NothingNew ==
    ASSUME UNCHANGED <<msg, deque>>
    PROVE  Carried
  BY DEF Carried, CameFrom, Queued

LEMMA ServeCarries ==
    ASSUME TypeInv, NEW t \in Thread, ServeStep(t)
    PROVE  Carried
<1>1. /\ DOMAIN msg = Thread /\ DOMAIN deque = Thread
  BY Domains
<1>2. CASE WaitDone(t) \/ Raise(t) \/ LoopEnds(t) \/ SendReply(t)
  BY <1>2, NothingNew DEF WaitDone, Raise, LoopEnds, SendReply, boundVars
<1>3. CASE ServeEnter(t) \/ ServeWoken(t)
  <2>1. \/ UNCHANGED <<msg, deque>>
        \/ deque[t] # <<>> /\ TakeOwn(t)
    <3>1. CASE Ready(t)
      <4>1. \E p : Proceed(t, p)
        BY <1>3, <3>1 DEF ServeEnter, ServeWoken
      <4> QED
        BY <4>1 DEF Proceed
    <3>2. CASE ~Ready(t)
      BY <1>3, <3>2 DEF ServeEnter, ServeWoken
    <3> QED
      BY <3>1, <3>2
  <2>2. CASE deque[t] # <<>> /\ TakeOwn(t)
    <3>1. /\ deque' = [deque EXCEPT ![t] = Tail(@)]
          /\ UNCHANGED msg \/ (Head(deque[t]) # Wake /\ msg' = [msg EXCEPT ![t] = Head(deque[t])])
      BY <2>2 DEF TakeOwn
    <3> QED
      BY <1>1, <2>2, <3>1 DEF Carried, CameFrom, Queued
  <2> QED
    BY <2>1, <2>2, NothingNew
<1>4. CASE PollData(t) \/ PollEOF(t) \/ PollWoken(t) \/ LeaveEmpty(t)
  <2>1. UNCHANGED deque /\ \/ msg' = [msg EXCEPT ![t] = NoMsg] \/ msg' = [msg EXCEPT ![t] = EOF]
                           \/ /\ open[SideOf[t]] /\ wire[SideOf[t]] # <<>>
                              /\ msg' = [msg EXCEPT ![t] = Head(wire[SideOf[t]])]
    BY <1>4 DEF PollData, PollEOF, PollWoken, LeaveEmpty, Received, boundVars
  <2> QED
    BY <1>1, <2>1 DEF Carried, CameFrom, Queued
<1>5. CASE TakeMessage(t)
  BY <1>5, NothingNew DEF TakeMessage
<1>6. CASE DropMessage(t) \/ DispatchReply(t) \/ DispatchRequest(t)
  <2>1. UNCHANGED deque /\ msg' = [msg EXCEPT ![t] = NoMsg]
    BY <1>6 DEF DropMessage, ReceiveNext, DispatchReply, DispatchRequest, boundVars
  <2> QED
    BY <1>1, <2>1 DEF Carried, CameFrom, Queued
<1>7. CASE HandOver(t) \/ StartWorker(t)
  <2>1. Got(t) /\ msg' = [msg EXCEPT ![t] = NoMsg]
    BY <1>7 DEF HandOver, StartWorker, ReceiveNext
  <2>2. msg[t] \in Message
    BY <2>1, GotTypes DEF Sent
  <2>3. \E u : \/ deque' = [deque EXCEPT ![u] = Append(@, msg[t])]
               \/ deque' = [deque EXCEPT ![u] = <<msg[t]>>]
    BY <1>7 DEF HandOver, StartWorker
  <2>4. \A u \in Thread : CameFrom(u)
    BY <1>1, <2>1 DEF CameFrom
  <2>5. \A u \in Thread : Queued(u)
    BY <1>1, <2>2, <2>3 DEF Queued
  <2> QED
    BY <2>4, <2>5 DEF Carried
<1> QED
  BY <1>2, <1>3, <1>4, <1>5, <1>6, <1>7 DEF ServeStep

LEMMA StepCarries ==
    ASSUME TypeInv, [Next]_vars
    PROVE  Carried
<1>1. ASSUME NEW d \in Side, EndWorkers(d), UNCHANGED msg PROVE Carried
  <2>1. \A u \in Thread : deque'[u] = Append(deque[u], Wake) \/ deque'[u] = deque[u]
    BY <1>1 DEF EndWorkers
  <2> QED
    BY <1>1, <2>1 DEF Carried, CameFrom, Queued
<1>2. ASSUME NEW t \in Thread, CloseStep(t) PROVE Carried
  <2>1. CASE CloseStep(t) /\ ~CleanupThreads(t)
    BY <2>1, NothingNew DEF CloseStep, Close, SendClose, Cleanup, JoinWorkers, boundVars
  <2>2. CASE CleanupThreads(t)
    <3>1. CASE EndWorkers(SideOf[t])
      BY <1>1, <2>2, <3>1, Sides DEF CleanupThreads
    <3>2. CASE ~EndWorkers(SideOf[t])
      BY <2>2, <3>2, NothingNew DEF CleanupThreads, boundVars
    <3> QED
      BY <3>1, <3>2
  <2> QED
    BY <1>2, <2>1, <2>2
<1>3. ASSUME NEW t \in Thread, ClientCalls(t) \/ HandlerCalls(t) \/ UserCloses(t) PROVE Carried
  BY <1>3, NothingNew DEF ClientCalls, HandlerCalls, UserCloses, Close, boundVars
<1>4. ASSUME NEW d \in Side, CleanerStep(d) PROVE Carried
  BY <1>1, <1>4, NothingNew DEF CleanerStep, threadVars, boundVars
<1>5. ASSUME NEW s \in SeqNo, Expire(s) PROVE Carried
  BY <1>5, NothingNew DEF Expire, threadVars, boundVars
<1>6. CASE UNCHANGED vars
  BY <1>6, NothingNew DEF vars, threadVars, boundVars
<1> QED
  BY <1>2, <1>3, <1>4, <1>5, <1>6, ServeCarries DEF Next

(* a message is sent, or what is on its way only comes nearer *)
Sends(t) == SendReply(t) \/ ClientCalls(t) \/ HandlerCalls(t) \/ SendClose(t)

LEMMA WireSteps ==
    ASSUME TypeInv, [Next]_vars
    PROVE  \/ \E t \in Thread : Sends(t)
           \/ /\ UNCHANGED <<issued, owner>>
              /\ \A d \in Side : wire'[d] = wire[d] \/ (wire[d] # <<>> /\ wire'[d] = Tail(wire[d]))
<1> DEFINE Nearer == /\ UNCHANGED <<issued, owner>>
                     /\ \A d \in Side : wire'[d] = wire[d] \/ (wire[d] # <<>> /\ wire'[d] = Tail(wire[d]))
<1>1. ASSUME UNCHANGED <<wire, issued, owner>> PROVE Nearer
  BY <1>1
<1>2. ASSUME NEW t \in Thread, PollData(t) PROVE Nearer
  <2>1. /\ UNCHANGED <<issued, owner>> /\ wire[SideOf[t]] # <<>>
        /\ wire' = [wire EXCEPT ![SideOf[t]] = Tail(@)]
    BY <1>2 DEF PollData
  <2>2. DOMAIN wire = Side
    BY DEF TypeInv, Contents, WireInv
  <2> QED
    BY <2>1, <2>2
<1> HIDE DEF Nearer
<1>3. ASSUME NEW t \in Thread, ServeStep(t), ~SendReply(t) PROVE Nearer
  <2>1. CASE WaitDone(t) \/ Raise(t) \/ LoopEnds(t) \/ ServeEnter(t) \/ ServeWoken(t)
    BY <1>1, <2>1 DEF WaitDone, Raise, LoopEnds, ServeEnter, ServeWoken, netVars
  <2>2. CASE PollEOF(t) \/ PollWoken(t) \/ LeaveEmpty(t) \/ TakeMessage(t)
    BY <1>1, <2>2 DEF PollEOF, PollWoken, LeaveEmpty, TakeMessage, netVars
  <2>3. CASE HandOver(t) \/ StartWorker(t) \/ DropMessage(t) \/ DispatchReply(t) \/ DispatchRequest(t)
    BY <1>1, <2>3 DEF HandOver, StartWorker, DropMessage, DispatchReply, DispatchRequest, netVars
  <2> QED
    BY <1>2, <1>3, <2>1, <2>2, <2>3 DEF ServeStep
<1>4. ASSUME NEW t \in Thread, CloseStep(t) \/ UserCloses(t), ~SendClose(t) PROVE Nearer
  BY <1>1, <1>4 DEF CloseStep, UserCloses, Close, Cleanup, CleanupThreads, JoinWorkers, netVars
<1>5. ASSUME NEW d \in Side, CleanerStep(d) PROVE Nearer
  BY <1>1, <1>5 DEF CleanerStep, netVars
<1>6. ASSUME NEW s \in SeqNo, Expire(s) PROVE Nearer
  BY <1>1, <1>6 DEF Expire
<1>7. ASSUME UNCHANGED vars PROVE Nearer
  BY <1>1, <1>7 DEF vars, netVars
<1>8. Nearer \/ \E t \in Thread : Sends(t)
  BY <1>3, <1>4, <1>5, <1>6, <1>7 DEF Next, Sends
<1> QED
  BY <1>8 DEF Nearer

LEMMA KeptGrows ==
    ASSUME TypeInv, [Next]_vars
    PROVE  Kept \subseteq Kept'
<1>1. owner \in Seq([thread : Thread, home : Thread \cup {Unbound}]) /\ Len(owner) = issued /\ issued \in Nat
  BY DEF TypeInv, Contents, NumberInv
<1>2. UNCHANGED <<issued, owner>> \/ (issued' = issued + 1 /\ \E x : owner' = Append(owner, x))
  <2>1. ASSUME NEW t \in Thread, Sends(t)
        PROVE  UNCHANGED <<issued, owner>> \/ (issued' = issued + 1 /\ \E x : owner' = Append(owner, x))
    BY <2>1 DEF Sends, SendReply, ClientCalls, HandlerCalls, SendClose, SendRequest
  <2> QED
    BY <2>1, WireSteps
<1>3. \A s \in SeqNo : s < issued => s < issued' /\ owner'[s + 1] = owner[s + 1]
  BY <1>1, <1>2 DEF SeqNo
<1>4. ASSUME NEW m \in Kept PROVE m \in Kept'
  <2>1. m \in Message /\ m.seq \in SeqNo /\ m.seq < issued /\ Bound(m)
    BY DEF Kept, Message
  <2>2. m.seq < issued' /\ owner'[m.seq + 1] = owner[m.seq + 1]
    BY <1>3, <2>1
  <2>3. Bound(m)'
    BY <2>1, <2>2 DEF Bound
  <2> QED
    BY <2>1, <2>2, <2>3 DEF Kept
<1> QED
  BY <1>4

(* what a thread sends *)
LEMMA AnswerIsBound ==
    ASSUME Together, NEW t \in Thread, SendReply(t)
    PROVE  \E m \in Kept' : wire' = [wire EXCEPT ![Peer(SideOf[t])] = Append(@, m)]
<1> DEFINE s == Head(stack[t]).arg
           m == [type |-> "reply", seq |-> s, from |-> t, to |-> remote[t]]
<1>1. /\ pc[t] = "handler" /\ UNCHANGED <<issued, owner>>
      /\ wire' = [wire EXCEPT ![Peer(SideOf[t])] = Append(@, m)]
  BY InHand DEF SendReply, Post
<1>2. t \notin Waiters /\ pc[t] # "dispatch"
  BY <1>1 DEF Waiters, Waits
<1>3. s \in Hands[t]
  <2>1. stack[t] \in Seq(Frame) /\ Hands[t] = HandOf(stack[t])
    BY NumbersAre DEF Together
  <2>2. stack[t] # <<>> /\ Head(stack[t]).op = "handle"
    BY <1>1 DEF Together, TypeInv, Contents, NestInv
  <2>3. 1 \in 1 .. Len(stack[t]) /\ Head(stack[t]) = stack[t][1]
    BY <2>1, <2>2
  <2> QED
    BY <2>1, <2>2, <2>3 DEF HandOf
<1>4. PICK P : Core(P, Hands, Outs, remote, Waiters, Flying)
  BY DEF Together, CoreInv
<1>5. remote[t] = P[t] /\ P[t] \in Thread /\ s \in Outs[P[t]]
  BY <1>2, <1>3, <1>4, BoundTo DEF Together, Core, Paired
<1>6. s \in SeqNo /\ s < issued /\ owner[s + 1].thread = remote[t] /\ remote[t] \in Thread
  BY <1>5 DEF Outs, Numbers
<1>7. m \in Message /\ m.type = "reply" /\ m.seq = s /\ m.to = remote[t]
  BY <1>6 DEF Message
<1> HIDE DEF m
<1>8. m \in Kept'
  BY <1>1, <1>6, <1>7 DEF Kept, Bound
<1> QED
  BY <1>1, <1>8

LEMMA RequestIsBound ==
    ASSUME Together, NEW t \in Thread, ClientCalls(t) \/ HandlerCalls(t) \/ SendClose(t)
    PROVE  \E m \in Kept' : wire' = [wire EXCEPT ![Peer(SideOf[t])] = Append(@, m)]
<1>1. PICK type \in {"request", "close"} : SendRequest(t, type)
  BY DEF ClientCalls, HandlerCalls, SendClose
<1> DEFINE m == [type |-> type, seq |-> issued, from |-> t, to |-> remote[t]]
<1>2. /\ issued \in SeqNo /\ issued' = issued + 1
      /\ owner' = Append(owner, [thread |-> t, home |-> Asker(t)])
      /\ wire' = [wire EXCEPT ![Peer(SideOf[t])] = Append(@, m)]
  BY <1>1, InHand DEF SendRequest, Post
<1>3. Asker(t) \in {Unbound, remote[t]} /\ remote[t] \in Thread \cup {Unbound}
  <2>1. pc[t] \notin Waits
    BY DEF ClientCalls, HandlerCalls, SendClose, Waits
  <2> QED
    BY <2>1, AskerIsBound DEF Together, TypeInv, Contents, RemoteInv
<1>4. owner'[issued + 1].home = Asker(t)
  BY <1>2 DEF Together, TypeInv, Contents, NumberInv
<1>5. m \in Message /\ m.type # "reply" /\ m.seq = issued /\ m.to = remote[t]
  BY <1>2, <1>3 DEF Message
<1> HIDE DEF m
<1>6. m \in Kept'
  <2>1. m.seq < issued'
    BY <1>2, <1>5 DEF SeqNo
  <2> QED
    BY <1>3, <1>4, <1>5, <2>1 DEF Kept, Bound
<1> QED
  BY <1>2, <1>6

LEMMA HomeKeeps ==
    ASSUME TypeInv, QuietInv, ClientInv, SleepInv, ConvInv, HomeInv, [Next]_vars
    PROVE  HomeInv'
<1> SUFFICES ASSUME expired' = {}
             PROVE  /\ \A d \in Side : open'[d] => wire'[d] \in Seq(Kept')
                    /\ \A t \in Thread : /\ msg'[t] \in Kept' \cup {NoMsg, EOF}
                                         /\ deque'[t] \in Seq(Kept' \cup {Wake})
  BY DEF HomeInv
<1>1. /\ expired = {} /\ \A d \in Side : open'[d] => open[d]
  BY OpenStays
<1>2. /\ \A d \in Side : open[d] => wire[d] \in Seq(Kept)
      /\ \A t \in Thread : msg[t] \in Kept \cup {NoMsg, EOF} /\ deque[t] \in Seq(Kept \cup {Wake})
  BY <1>1 DEF HomeInv
<1>3. Kept \subseteq Kept'
  BY KeptGrows
<1>4. Kept \cup {Wake} \subseteq Kept' \cup {Wake}
  BY <1>3
<1>5. NoMsg \notin Message /\ EOF \notin Message /\ Kept \subseteq Message
  BY NoMessage DEF Kept
<1>6. ASSUME NEW t \in Thread PROVE msg'[t] \in Kept' \cup {NoMsg, EOF}
  <2>1. CameFrom(t)
    BY StepCarries DEF Carried
  <2>2. CASE msg'[t] \in {msg[t], NoMsg, EOF}
    BY <1>2, <1>3, <2>2
  <2>3. CASE open[SideOf[t]] /\ wire[SideOf[t]] # <<>> /\ msg'[t] = Head(wire[SideOf[t]])
    <3>1. SideOf[t] \in Side /\ wire[SideOf[t]] \in Seq(Kept)
      BY <1>2, <2>3, Sides
    <3>2. Head(wire[SideOf[t]]) \in Kept
      BY <2>3, <3>1
    <3> QED
      BY <1>3, <2>3, <3>2
  <2>4. CASE deque[t] # <<>> /\ Head(deque[t]) # Wake /\ msg'[t] = Head(deque[t])
    <3>1. Head(deque[t]) \in Kept \cup {Wake}
      BY <1>2, <2>4
    <3> QED
      BY <1>3, <2>4, <3>1
  <2> QED
    BY <2>1, <2>2, <2>3, <2>4 DEF CameFrom
<1>7. ASSUME NEW u \in Thread PROVE deque'[u] \in Seq(Kept' \cup {Wake})
  <2>1. Queued(u)
    BY StepCarries DEF Carried
  <2>2. deque[u] \in Seq(Kept' \cup {Wake})
    BY <1>2, <1>4, SeqGrows
  <2>3. CASE deque[u] # <<>> /\ deque'[u] = Tail(deque[u])
    BY <2>2, <2>3, TailOf
  <2>4. CASE deque'[u] = Append(deque[u], Wake)
    BY <2>2, <2>4
  <2>5. CASE \E t \in Thread : msg[t] \in Message /\ deque'[u] \in {Append(deque[u], msg[t]), <<msg[t]>>}
    <3>1. PICK t \in Thread : msg[t] \in Message /\ deque'[u] \in {Append(deque[u], msg[t]), <<msg[t]>>}
      BY <2>5
    <3>2. msg[t] \in Kept' \cup {Wake}
      BY <1>2, <1>3, <1>5, <3>1
    <3>3. ASSUME NEW T, NEW s \in Seq(T), NEW m \in T PROVE Append(s, m) \in Seq(T) /\ <<m>> \in Seq(T)
      OBVIOUS
    <3>4. Append(deque[u], msg[t]) \in Seq(Kept' \cup {Wake}) /\ <<msg[t]>> \in Seq(Kept' \cup {Wake})
      BY <2>2, <3>2, <3>3
    <3> QED
      BY <3>1, <3>4
  <2> QED
    BY <2>1, <2>2, <2>3, <2>4, <2>5 DEF Queued
<1>8. ASSUME NEW d \in Side, open'[d] PROVE wire'[d] \in Seq(Kept')
  <2>1. wire[d] \in Seq(Kept')
    BY <1>1, <1>2, <1>3, <1>8, SeqGrows
  <2>2. CASE wire'[d] = wire[d] \/ (wire[d] # <<>> /\ wire'[d] = Tail(wire[d]))
    BY <2>1, <2>2, TailOf
  <2>3. CASE \E t \in Thread : Sends(t)
    <3>1. PICK t \in Thread : Sends(t)
      BY <2>3
    <3>2. DOMAIN wire = Side /\ SideOf[t] \in Side /\ \A e \in Side : e = SideOf[t] \/ e = Peer(SideOf[t])
      BY Sides DEF TypeInv, Contents, WireInv
    <3>3. CASE open[SideOf[t]] /\ d = Peer(SideOf[t])
      <4>1. Together
        <5>1. \A e \in Side : open[e]
          BY <1>1, <1>8, <3>2, <3>3
        <5> QED
          BY <1>1, <5>1 DEF Together, Both, ConvInv
      <4>2. PICK m \in Kept' : wire' = [wire EXCEPT ![Peer(SideOf[t])] = Append(@, m)]
        BY <3>1, <4>1, AnswerIsBound, RequestIsBound DEF Sends
      <4>3. wire'[d] = Append(wire[d], m)
        BY <3>2, <3>3, <4>2
      <4> QED
        BY <2>1, <4>2, <4>3
    <3>4. CASE ~(open[SideOf[t]] /\ d = Peer(SideOf[t]))
      <4>1. wire'[d] = wire[d]
        BY <3>1, <3>2, <3>4 DEF Sends, SendReply, ClientCalls, HandlerCalls, SendClose, SendRequest, Post
      <4> QED
        BY <2>1, <4>1
    <3> QED
      BY <3>3, <3>4
  <2> QED
    BY <2>2, <2>3, WireSteps
<1> QED
  BY <1>6, <1>7, <1>8

(* the answer to a request goes to the thread that waits for it *)
LEMMA SleepKeeps ==
    ASSUME TypeInv, HomeInv, SleepInv, [Next]_vars
    PROVE  SleepInv'
<1> SUFFICES ASSUME expired' = {}, NEW u \in Thread, pc'[u] \in Serving
             PROVE  await'[u] \notin done'
  BY DEF SleepInv, Serving
<1>1. expired = {}
  BY OpenStays
<1>2. /\ await'[u] = await[u] /\ await[u] \notin done
      /\ pc[u] \in Serving \/ pc[u] = "loop"
  BY <1>1, ServingSteps DEF SleepInv, Serving, Predicate
<1>3. done' = done \/ \E t \in Thread : DispatchReply(t)
  <2>1. ASSUME NEW t \in Thread, ServeStep(t), ~DispatchReply(t) PROVE done' = done
    <3>1. CASE WaitDone(t) \/ Raise(t) \/ LoopEnds(t) \/ ServeEnter(t) \/ ServeWoken(t)
      BY <3>1 DEF WaitDone, Raise, LoopEnds, ServeEnter, ServeWoken, netVars
    <3>2. CASE PollData(t) \/ PollEOF(t) \/ PollWoken(t) \/ LeaveEmpty(t) \/ TakeMessage(t)
      BY <3>2 DEF PollData, PollEOF, PollWoken, LeaveEmpty, TakeMessage, netVars
    <3>3. CASE HandOver(t) \/ StartWorker(t) \/ DropMessage(t) \/ DispatchRequest(t) \/ SendReply(t)
      BY <3>3 DEF HandOver, StartWorker, DropMessage, SendReply, DispatchRequest, netVars
    <3> QED
      BY <2>1, <3>1, <3>2, <3>3 DEF ServeStep
  <2>2. ASSUME NEW t \in Thread, CloseStep(t) \/ UserCloses(t) PROVE done' = done
    BY <2>2 DEF CloseStep, UserCloses, Close, Cleanup, CleanupThreads, JoinWorkers, SendClose, netVars
  <2>3. ASSUME NEW t \in Thread, ClientCalls(t) \/ HandlerCalls(t) PROVE done' = done
    BY <2>3 DEF ClientCalls, HandlerCalls
  <2>4. ASSUME NEW d \in Side, CleanerStep(d) PROVE done' = done
    BY <2>4 DEF CleanerStep, netVars
  <2>5. ASSUME NEW s \in SeqNo, Expire(s) PROVE done' = done
    BY <2>5 DEF Expire
  <2>6. ASSUME UNCHANGED vars PROVE done' = done
    BY <2>6 DEF vars, netVars
  <2> QED
    BY <2>1, <2>2, <2>3, <2>4, <2>5, <2>6 DEF Next
<1>4. CASE \E t \in Thread : DispatchReply(t)
  <2>1. PICK t \in Thread : DispatchReply(t)
    BY <1>4
  <2>2. /\ pc[t] = "dispatch" /\ msg[t].type = "reply" /\ pc'[t] = "loop"
        /\ done' \subseteq done \cup {msg[t].seq}
    BY <2>1, Domains DEF DispatchReply, Goto
  <2>3. u # t
    BY <2>2 DEF Serving
  <2>4. msg[t] \in Message /\ msg[t].to \in {t, Unbound} /\ msg[t].seq < issued /\ msg[t] \in Kept
    <3>1. msg[t] \in Due(t)
      BY <2>2 DEF TypeInv, Contents, HandInv
    <3>2. msg[t] \in Message /\ msg[t].to \in {t, Unbound} /\ msg[t].seq < issued
      BY <3>1 DEF Due, Sent
    <3> QED
      BY <1>1, <3>2, NoMessage DEF HomeInv
  <2>5. ASSUME await[u] = msg[t].seq PROVE FALSE
    <3>1. await[u] \in Numbers(u)
      <4>1. await[u] \in SeqNo
        BY <2>4, <2>5 DEF Message
      <4> QED
        BY <4>1, NoSeqIs DEF TypeInv, Contents, AwaitInv
    <3>2. owner[msg[t].seq + 1].thread = u
      BY <2>5, <3>1 DEF Numbers
    <3>3. msg[t].to = u
      BY <2>2, <2>4, <3>2 DEF Kept, Bound
    <3> QED
      BY <2>3, <2>4, <3>3, BoundServingAssumption
  <2> QED
    BY <1>2, <2>2, <2>5
<1> QED
  BY <1>2, <1>3, <1>4

-----------------------------------------------------------------------------
Inv == /\ TypeInv /\ AsleepInv /\ WokenInv /\ SleepInv
       /\ ClientInv /\ QuietInv /\ HomeInv /\ ConvInv

LEMMA InitAll == Init => Inv
<1> SUFFICES ASSUME Init PROVE Inv
  OBVIOUS
<1>1. TypeInv /\ ConvInv
  BY InitTypes, ConvInit
<1>2. AsleepInv /\ WokenInv
  BY DEF Init, AsleepInv, WokenInv
<1>3. SleepInv /\ ClientInv
  <2>1. \A t \in Thread : pc[t] \notin Serving
    BY DEF Init, Serving
  <2> QED
    BY <2>1 DEF SleepInv, ClientInv, Serving, Thread
<1>4. \A t \in Thread : serve[t] /\ pc[t] \in {"loop", "idle"} /\ msg[t] = NoMsg /\ deque[t] = <<>>
  BY DEF Init
<1>5. QuietInv
  <2>1. NoMsg # EOF
    BY DEF NoMsg, EOF
  <2>2. \A d \in Side : cleaner[d] = "none"
    BY DEF Init
  <2>3. \A S : <<>> \in Seq(S)
    OBVIOUS
  <2> QED
    BY <1>4, <2>1, <2>2, <2>3 DEF QuietInv
<1>6. HomeInv
  <2>1. \A d \in Side : wire[d] = <<>>
    BY DEF Init
  <2>2. \A S : <<>> \in Seq(S)
    OBVIOUS
  <2> QED
    BY <1>4, <2>1, <2>2 DEF HomeInv
<1> QED
  BY <1>1, <1>2, <1>3, <1>5, <1>6 DEF Inv

LEMMA StepKeepsAll == Inv /\ [Next]_vars => Inv'
<1> SUFFICES ASSUME Inv, [Next]_vars PROVE Inv'
  OBVIOUS
<1>1. /\ TypeInv /\ AsleepInv /\ WokenInv /\ SleepInv
      /\ ClientInv /\ QuietInv /\ HomeInv /\ ConvInv
  BY DEF Inv
<1>2. TypeInv'
  BY <1>1, StepKeepsTypes
<1>3. AsleepInv'
  BY <1>1, AsleepKeeps
<1>4. WokenInv'
  BY <1>1, WokenSteps
<1>5. SleepInv'
  BY <1>1, SleepKeeps
<1>6. ClientInv'
  BY <1>1, ClientKeeps
<1>7. QuietInv'
  BY <1>1, QuietKeeps
<1>8. HomeInv'
  BY <1>1, HomeKeeps
<1>9. ConvInv'
  BY <1>1, ConvKeeps
<1> QED
  BY <1>2, <1>3, <1>4, <1>5, <1>6, <1>7, <1>8, <1>9 DEF Inv

LEMMA AllHolds == Spec => []Inv
  BY InitAll, StepKeepsAll, PTL DEF Spec

(* Nobody sleeps on a message, and unless a deadline has passed nobody sleeps while the
   socket is without a receiver and none of the sleepers has been notified: whoever
   leaves __serve_bound, however he does, has notified who is to follow. *)
THEOREM SleepersWoken == Spec => []SleepersAreWoken
<1>1. ASSUME Inv PROVE SleepersAreWoken
  <2>1. \A t \in asleep : deque[t] = <<>>
    BY <1>1 DEF Inv, AsleepInv
  <2>2. ASSUME NEW d \in Side, ~receiving[d], expired = {}, NEW t \in On(d), pc[t] = "asleep"
        PROVE  \E u \in On(d) : pc[u] = "asleep" /\ u \notin asleep
    <3>1. CASE t \in asleep
      <4>1. Sleeping(d) \cap asleep # {}
        BY <2>2, <3>1 DEF Sleeping
      <4>2. \E w \in Sleeping(d) : w \notin asleep
        BY <1>1, <2>2, <4>1 DEF Inv, WokenInv
      <4> QED
        BY <4>2 DEF Sleeping
    <3>2. CASE t \notin asleep
      BY <2>2, <3>2
    <3> QED
      BY <3>1, <3>2
  <2> QED
    BY <2>1, <2>2 DEF SleepersAreWoken
<1> QED
  BY <1>1, AllHolds, PTL

(* A request that a handler sends is served by the thread whose request that handler
   serves, and a reply is taken by the thread that asked, whatever the threads of both
   ends do and whoever closes, as long as no deadline passes. *)
THEOREM ThreadsAreBound == Spec => []BoundToThread
<1>1. ASSUME Inv PROVE BoundToThread
  <2> SUFFICES ASSUME NEW t \in Thread, pc[t] = "dispatch", expired = {}
               PROVE  Home(msg[t]) \in {t, Unbound}
    BY DEF BoundToThread
  <2>1. msg[t] \in Message /\ msg[t].to \in {t, Unbound}
    BY <1>1 DEF Inv, TypeInv, Contents, HandInv, Due, Sent
  <2>2. msg[t] \in Kept
    BY <1>1, <2>1, NoMessage DEF Inv, HomeInv
  <2>3. CASE msg[t].type = "reply"
    <3>1. msg[t].to = owner[msg[t].seq + 1].thread
      BY <2>2, <2>3 DEF Kept, Bound
    <3> QED
      BY <2>1, <2>3, <3>1 DEF Home
  <2>4. CASE msg[t].type # "reply"
    <3>1. owner[msg[t].seq + 1].home \in {Unbound, msg[t].to}
      BY <2>2, <2>4 DEF Kept, Bound
    <3> QED
      BY <2>1, <2>4, <3>1 DEF Home
  <2> QED
    BY <2>3, <2>4
<1> QED
  BY <1>1, AllHolds, PTL
=============================================================================
