-------------------------- MODULE ConnectionProofs --------------------------
(***************************************************************************)
(* Type correctness and safety of Connection for every set of threads,     *)
(* every number of requests and every behaviour of the peer.               *)
(***************************************************************************)
EXTENDS Connection, FiniteSetTheorems, SequenceTheorems, TLAPS

-----------------------------------------------------------------------------
(* Types: one lemma per action. *)

(* What the positions of the threads and of the send thread say about the
   rest of their state; with the types it is inductive. *)
ControlInv ==
    /\ \A t \in Thread :
        /\ pc[t] = "send" => await[t] \in SeqNo
        /\ pc[t] \in {"handler", "reply"} => stack[t] # <<>> /\ Top(t).op = "handle"
        /\ pc[t] \in {"closetest", "closeset"} => stack[t] # <<>> /\ Top(t).op # "handle"
        /\ pc[t] \in {"cleanup", "drain", "disconnect", "stop", "join", "clear"}
              => stack[t] # <<>>
        /\ pc[t] = "dispatch" => msg[t] \in Message
    /\ sender \in {"send", "fail"} => sending \in Message

-----------------------------------------------------------------------------
(* The numbers given to requests, and their bound, are natural numbers. *)
LEMMA SeqNoType ==
    /\ MaxSeq \in Nat
    /\ SeqNo \subseteq Nat
    /\ \A s \in SeqNo : s + 1 \in 0 .. MaxSeq
<1>1. IsFiniteSet(Thread)
  BY ConnectionAssumption, FS_Union DEF Thread
<1>2. Cardinality(Thread) \in Nat
  BY <1>1, FS_CardinalityType
<1> QED
  BY <1>2, ConnectionAssumption DEF SeqNo, MaxSeq

(* A frame pushed on a call stack is its head. *)
LEMMA PushFacts ==
    ASSUME NEW S, NEW s \in Seq(S), NEW f \in S
    PROVE  <<f>> \o s \in Seq(S) /\ <<f>> \o s # <<>> /\ Head(<<f>> \o s) = f
<1>1. <<f>> \in Seq(S)
  OBVIOUS
<1>2. Len(<<f>>) = 1 /\ <<f>>[1] = f
  OBVIOUS
<1>3. Len(s) \in Nat
  OBVIOUS
<1>4. <<f>> \o s \in Seq(S)
  BY <1>1, ConcatProperties
<1>5. Len(<<f>> \o s) = 1 + Len(s)
  BY <1>1, <1>2, ConcatProperties
<1>6. (<<f>> \o s)[1] = f
  BY <1>1, <1>2, <1>3, ConcatProperties
<1>7. Head(<<f>> \o s) = f
  BY <1>4, <1>5, <1>6, HeadTailProperties
<1>8. <<f>> \o s # <<>>
  BY <1>3, <1>4, <1>5, EmptySeq
<1> QED BY <1>4, <1>7, <1>8

(* A step that leaves a group of variables alone keeps their types. *)
LEMMA Unchanged ==
    ASSUME TypeOK
    PROVE  /\ UNCHANGED threadVars => ThreadTypeOK'
           /\ UNCHANGED tableVars => TableTypeOK'
           /\ UNCHANGED recvVars => RecvTypeOK'
           /\ UNCHANGED closeVars => CloseTypeOK'
           /\ UNCHANGED sendVars => SendTypeOK'
           /\ UNCHANGED netVars => NetTypeOK'
BY DEF TypeOK, ThreadTypeOK, TableTypeOK, RecvTypeOK, CloseTypeOK, SendTypeOK, NetTypeOK,
       threadVars, tableVars, recvVars, closeVars, sendVars, netVars

(* The frame a handler or close() returns from, and the reply it can send. *)
LEMMA TopType ==
    ASSUME TypeOK, NEW t \in Thread, stack[t] # <<>>
    PROVE  /\ Top(t) \in Frame
           /\ Top(t).await \in SeqNo \cup {NoSeq}
           /\ Top(t).op = "handle" => Reply(Top(t).arg) \in Message
           /\ Tail(stack[t]) \in Seq(Frame)
<1>1. Head(stack[t]) \in Frame /\ Tail(stack[t]) \in Seq(Frame)
  BY HeadTailProperties DEF TypeOK, ThreadTypeOK
<1> QED
  BY <1>1 DEF Top, Frame, Reply, Message

(* What a thread is about to send is a message. *)
LEMMA RequestOfType ==
    ASSUME TypeOK, ControlInv, NEW t \in Thread, pc[t] = "send"
    PROVE  RequestOf(t) \in Message
BY DEF RequestOf, ControlInv, Call, CloseReq, Message, AnySeq

(* Queues stay queues when their head is taken or an element is appended. *)
LEMMA SeqFacts ==
    ASSUME NEW S, NEW q \in Seq(S)
    PROVE  /\ \A e \in S : Append(q, e) \in Seq(S)
           /\ q # <<>> => Head(q) \in S /\ Tail(q) \in Seq(S)
OBVIOUS

(* Returning from a handler or from close() keeps the types of the stacks. *)
LEMMA PopType ==
    ASSUME TypeOK, NEW t \in Thread, stack[t] # <<>>, Pop(t)
    PROVE  await' \in [Thread -> SeqNo \cup {NoSeq}] /\ stack' \in [Thread -> Seq(Frame)]
BY TopType DEF Pop, TypeOK, ThreadTypeOK

(* Entering a handler or close() keeps the types of the stacks. *)
LEMMA PushType ==
    ASSUME TypeOK, NEW t \in Thread, NEW op, NEW arg, Push(t, op, arg),
           \/ op = "handle" /\ arg \in AnySeq
           \/ op \in {"close", "close_and_raise"} /\ arg = NoSeq
    PROVE  await' \in [Thread -> SeqNo \cup {NoSeq}] /\ stack' \in [Thread -> Seq(Frame)]
<1>1. [op |-> op, await |-> await[t], arg |-> arg] \in Frame
  BY DEF Frame, TypeOK, ThreadTypeOK
<1> QED
  BY <1>1, PushFacts DEF Push, TypeOK, ThreadTypeOK

(* ClientCalls keeps the types and ControlInv. *)
LEMMA ClientCallsType ==
    ASSUME TypeOK, ControlInv, NEW t \in Thread, ClientCalls(t)
    PROVE  TypeOK' /\ ControlInv'
<1>1. ThreadTypeOK'
  BY SeqNoType DEF ClientCalls, Goto, Issue, TypeOK, ThreadTypeOK, Label
<1>2. TableTypeOK'
  BY SeqNoType DEF ClientCalls, Goto, Issue, TypeOK, TableTypeOK
<1>3. ControlInv'
  BY SeqFacts, PushFacts
     DEF ClientCalls, Goto, Issue, TypeOK, ControlInv, Label, ThreadTypeOK, threadVars,
         SendTypeOK, sendVars, NoSeq, Top
<1> QED
  BY <1>1, <1>2, <1>3, Unchanged DEF ClientCalls, TypeOK

(* HandlerCalls keeps the types and ControlInv. *)
LEMMA HandlerCallsType ==
    ASSUME TypeOK, ControlInv, NEW t \in Thread, HandlerCalls(t)
    PROVE  TypeOK' /\ ControlInv'
<1>1. ThreadTypeOK'
  BY SeqNoType DEF HandlerCalls, Goto, Issue, TypeOK, ThreadTypeOK, Label
<1>2. TableTypeOK'
  BY SeqNoType DEF HandlerCalls, Goto, Issue, TypeOK, TableTypeOK
<1>3. ControlInv'
  BY SeqFacts, PushFacts
     DEF HandlerCalls, Goto, Issue, TypeOK, ControlInv, Label, ThreadTypeOK, threadVars,
         SendTypeOK, sendVars, NoSeq, Top
<1> QED
  BY <1>1, <1>2, <1>3, Unchanged DEF HandlerCalls, TypeOK

(* SendRequest keeps the types and ControlInv. *)
LEMMA SendRequestType ==
    ASSUME TypeOK, ControlInv, NEW t \in Thread, SendRequest(t)
    PROVE  TypeOK' /\ ControlInv'
<1>1. ThreadTypeOK'
  BY SeqNoType DEF SendRequest, Goto, Enqueue, TypeOK, ThreadTypeOK, Label
<1>2. TableTypeOK'
  <2>1. CASE sendLoop
    BY <2>1, Unchanged DEF SendRequest
  <2>2. CASE ~sendLoop
    BY <2>2 DEF SendRequest, TypeOK, TableTypeOK
  <2> QED
    BY <2>1, <2>2
<1>3. SendTypeOK'
  <2>1. CASE sendLoop
    BY <2>1, RequestOfType, SeqFacts DEF SendRequest, Enqueue, TypeOK, SendTypeOK
  <2>2. CASE ~sendLoop
    BY <2>2, Unchanged DEF SendRequest
  <2> QED
    BY <2>1, <2>2
<1>4. ControlInv'
  BY SeqFacts, PushFacts
     DEF SendRequest, Goto, Enqueue, TypeOK, ControlInv, Label, ThreadTypeOK, threadVars,
         SendTypeOK, sendVars, NoSeq, Top
<1> QED
  BY <1>1, <1>2, <1>3, <1>4, Unchanged DEF SendRequest, TypeOK

(* SendReply keeps the types and ControlInv. *)
LEMMA SendReplyType ==
    ASSUME TypeOK, ControlInv, NEW t \in Thread, SendReply(t)
    PROVE  TypeOK' /\ ControlInv'
<1>1. ThreadTypeOK'
  <2>1. stack[t] # <<>>
    BY DEF SendReply, ControlInv
  <2>2. pc' \in [Thread -> Label] /\ UNCHANGED msg
    BY DEF SendReply, Goto, TypeOK, ThreadTypeOK, Label
  <2>3. /\ await' = [await EXCEPT ![t] = Top(t).await]
        /\ stack' = [stack EXCEPT ![t] = Tail(@)]
    BY DEF SendReply, Pop
  <2> QED
    BY <2>1, <2>2, <2>3, TopType DEF TypeOK, ThreadTypeOK
<1>2. SendTypeOK'
  <2>1. Reply(Top(t).arg) \in Message
    BY TopType DEF SendReply, ControlInv
  <2>2. CASE sendLoop
    BY <2>1, <2>2, SeqFacts DEF SendReply, Enqueue, TypeOK, SendTypeOK
  <2>3. CASE ~sendLoop
    BY <2>3, Unchanged DEF SendReply
  <2> QED
    BY <2>2, <2>3
<1>3. ControlInv'
  BY SeqFacts, PushFacts
     DEF SendReply, Goto, Enqueue, Pop, TypeOK, ControlInv, Label, ThreadTypeOK,
         threadVars, SendTypeOK, sendVars, NoSeq, Top
<1> QED
  BY <1>1, <1>2, <1>3, Unchanged DEF SendReply, TypeOK

(* HandlerReturns keeps the types and ControlInv. *)
LEMMA HandlerReturnsType ==
    ASSUME TypeOK, ControlInv, NEW t \in Thread, HandlerReturns(t)
    PROVE  TypeOK' /\ ControlInv'
<1>1. ThreadTypeOK'
  BY SeqNoType DEF HandlerReturns, Goto, TypeOK, ThreadTypeOK, Label
<1>2. ControlInv'
  BY SeqFacts, PushFacts
     DEF HandlerReturns, Goto, TypeOK, ControlInv, Label, ThreadTypeOK, threadVars,
         SendTypeOK, sendVars, NoSeq, Top
<1> QED
  BY <1>1, <1>2, Unchanged DEF HandlerReturns, TypeOK

(* WaitDone keeps the types and ControlInv. *)
LEMMA WaitDoneType ==
    ASSUME TypeOK, ControlInv, NEW t \in Thread, WaitDone(t)
    PROVE  TypeOK' /\ ControlInv'
<1>1. ThreadTypeOK'
  BY SeqNoType DEF WaitDone, Goto, TypeOK, ThreadTypeOK, Label
<1>2. ControlInv'
  BY SeqFacts, PushFacts
     DEF WaitDone, Goto, TypeOK, ControlInv, Label, ThreadTypeOK, threadVars, SendTypeOK,
         sendVars, NoSeq, Top
<1> QED
  BY <1>1, <1>2, Unchanged DEF WaitDone, TypeOK

(* ServeAllEnds keeps the types and ControlInv. *)
LEMMA ServeAllEndsType ==
    ASSUME TypeOK, ControlInv, NEW t \in Thread, ServeAllEnds(t)
    PROVE  TypeOK' /\ ControlInv'
<1>1. ThreadTypeOK'
  BY SeqNoType, SeqFacts, PushFacts
     DEF ServeAllEnds, Goto, Push, TypeOK, ThreadTypeOK, Label, ControlInv, NoSeq, Top,
         Frame, Message, NoMsg, EOF, AnySeq, Call, CloseReq, Reply, Unset,
         SendFailed, Closing
<1>2. ControlInv'
  BY SeqFacts, PushFacts
     DEF ServeAllEnds, Goto, Push, TypeOK, ControlInv, Label, ThreadTypeOK, threadVars,
         SendTypeOK, sendVars, NoSeq, Top
<1> QED
  BY <1>1, <1>2, Unchanged DEF ServeAllEnds, TypeOK

(* ServeEnter keeps the types and ControlInv. *)
LEMMA ServeEnterType ==
    ASSUME TypeOK, ControlInv, NEW t \in Thread, ServeEnter(t)
    PROVE  TypeOK' /\ ControlInv'
<1>1. ThreadTypeOK'
  BY SeqNoType
     DEF ServeEnter, Goto, BecomeReceiver, WaitForReceiver, TypeOK, ThreadTypeOK, Label
<1>2. RecvTypeOK'
  BY DEF ServeEnter, Goto, BecomeReceiver, WaitForReceiver, TypeOK, RecvTypeOK
<1>3. ControlInv'
  BY SeqFacts, PushFacts
     DEF ServeEnter, Goto, BecomeReceiver, WaitForReceiver, TypeOK, ControlInv, Label,
         ThreadTypeOK, threadVars, SendTypeOK, sendVars, NoSeq, Top
<1> QED
  BY <1>1, <1>2, <1>3, Unchanged DEF ServeEnter, TypeOK

(* ServeWoken keeps the types and ControlInv. *)
LEMMA ServeWokenType ==
    ASSUME TypeOK, ControlInv, NEW t \in Thread, ServeWoken(t)
    PROVE  TypeOK' /\ ControlInv'
<1>1. ThreadTypeOK'
  BY SeqNoType
     DEF ServeWoken, Goto, BecomeReceiver, WaitForReceiver, TypeOK, ThreadTypeOK, Label
<1>2. RecvTypeOK'
  BY DEF ServeWoken, Goto, BecomeReceiver, WaitForReceiver, TypeOK, RecvTypeOK
<1>3. ControlInv'
  BY SeqFacts, PushFacts
     DEF ServeWoken, Goto, BecomeReceiver, WaitForReceiver, TypeOK, ControlInv, Label,
         ThreadTypeOK, threadVars, SendTypeOK, sendVars, NoSeq, Top
<1> QED
  BY <1>1, <1>2, <1>3, Unchanged DEF ServeWoken, TypeOK

(* PollEnter keeps the types and ControlInv. *)
LEMMA PollEnterType ==
    ASSUME TypeOK, ControlInv, NEW t \in Thread, PollEnter(t)
    PROVE  TypeOK' /\ ControlInv'
<1>1. ThreadTypeOK'
  BY SeqNoType DEF PollEnter, Goto, Received, TypeOK, ThreadTypeOK, Label
<1>2. RecvTypeOK'
  BY DEF PollEnter, Goto, Received, TypeOK, RecvTypeOK
<1>3. ControlInv'
  BY SeqFacts, PushFacts
     DEF PollEnter, Goto, Received, TypeOK, ControlInv, Label, ThreadTypeOK, threadVars,
         SendTypeOK, sendVars, NoSeq, Top
<1> QED
  BY <1>1, <1>2, <1>3, Unchanged DEF PollEnter, TypeOK

(* PollData keeps the types and ControlInv. *)
LEMMA PollDataType ==
    ASSUME TypeOK, ControlInv, NEW t \in Thread, PollData(t)
    PROVE  TypeOK' /\ ControlInv'
<1>1. ThreadTypeOK'
  <2>1. Head(in) \in Message
    BY SeqFacts DEF PollData, TypeOK, NetTypeOK
  <2>2. msg' = [msg EXCEPT ![t] = Head(in)] \/ msg' = [msg EXCEPT ![t] = EOF]
    BY DEF PollData, Received
  <2>3. pc' = [pc EXCEPT ![t] = "release"] /\ UNCHANGED <<await, stack>>
    BY DEF PollData, Received, Goto
  <2> QED
    BY <2>1, <2>2, <2>3 DEF TypeOK, ThreadTypeOK, Label
<1>2. RecvTypeOK'
  BY DEF PollData, Goto, Received, TypeOK, RecvTypeOK
<1>3. NetTypeOK'
  <2>1. in' \in Seq(Message)
    BY SeqFacts DEF PollData, TypeOK, NetTypeOK
  <2> QED
    BY <2>1 DEF PollData, TypeOK, NetTypeOK
<1>4. ControlInv'
  BY SeqFacts, PushFacts
     DEF PollData, Goto, Received, TypeOK, ControlInv, Label, ThreadTypeOK, threadVars,
         SendTypeOK, sendVars, NoSeq, Top
<1> QED
  BY <1>1, <1>2, <1>3, <1>4, Unchanged DEF PollData, TypeOK

(* PollEOF keeps the types and ControlInv. *)
LEMMA PollEOFType ==
    ASSUME TypeOK, ControlInv, NEW t \in Thread, PollEOF(t)
    PROVE  TypeOK' /\ ControlInv'
<1>1. ThreadTypeOK'
  BY SeqNoType DEF PollEOF, Goto, Received, TypeOK, ThreadTypeOK, Label
<1>2. RecvTypeOK'
  BY DEF PollEOF, Goto, Received, TypeOK, RecvTypeOK
<1>3. NetTypeOK'
  BY DEF PollEOF, Goto, Received, TypeOK, NetTypeOK
<1>4. ControlInv'
  BY SeqFacts, PushFacts
     DEF PollEOF, Goto, Received, TypeOK, ControlInv, Label, ThreadTypeOK, threadVars,
         SendTypeOK, sendVars, NoSeq, Top
<1> QED
  BY <1>1, <1>2, <1>3, <1>4, Unchanged DEF PollEOF, TypeOK

(* PollWoken keeps the types and ControlInv. *)
LEMMA PollWokenType ==
    ASSUME TypeOK, ControlInv, NEW t \in Thread, PollWoken(t)
    PROVE  TypeOK' /\ ControlInv'
<1>1. ThreadTypeOK'
  BY SeqNoType DEF PollWoken, Goto, Received, TypeOK, ThreadTypeOK, Label
<1>2. RecvTypeOK'
  BY DEF PollWoken, Goto, Received, TypeOK, RecvTypeOK
<1>3. ControlInv'
  BY SeqFacts, PushFacts
     DEF PollWoken, Goto, Received, TypeOK, ControlInv, Label, ThreadTypeOK, threadVars,
         SendTypeOK, sendVars, NoSeq, Top
<1> QED
  BY <1>1, <1>2, <1>3, Unchanged DEF PollWoken, TypeOK

(* Release keeps the types and ControlInv. *)
LEMMA ReleaseType ==
    ASSUME TypeOK, ControlInv, NEW t \in Thread, Release(t)
    PROVE  TypeOK' /\ ControlInv'
<1>1. ThreadTypeOK'
  BY SeqNoType DEF Release, Goto, TypeOK, ThreadTypeOK, Label
<1>2. RecvTypeOK'
  BY DEF Release, Goto, TypeOK, RecvTypeOK
<1>3. ControlInv'
  BY SeqFacts, PushFacts
     DEF Release, Goto, TypeOK, ControlInv, Label, ThreadTypeOK, threadVars, SendTypeOK,
         sendVars, NoSeq, Top
<1> QED
  BY <1>1, <1>2, <1>3, Unchanged DEF Release, TypeOK

(* DispatchReply keeps the types and ControlInv. *)
LEMMA DispatchReplyType ==
    ASSUME TypeOK, ControlInv, NEW t \in Thread, DispatchReply(t)
    PROVE  TypeOK' /\ ControlInv'
<1>1. ThreadTypeOK'
  BY SeqNoType DEF DispatchReply, Goto, Resolve, TypeOK, ThreadTypeOK, Label
<1>2. TableTypeOK'
  BY SeqNoType DEF DispatchReply, Goto, Resolve, TypeOK, TableTypeOK
<1>3. ControlInv'
  BY SeqFacts, PushFacts
     DEF DispatchReply, Goto, Resolve, TypeOK, ControlInv, Label, ThreadTypeOK,
         threadVars, SendTypeOK, sendVars, NoSeq, Top
<1> QED
  BY <1>1, <1>2, <1>3, Unchanged DEF DispatchReply, TypeOK

(* UnboxFails keeps the types and ControlInv. *)
LEMMA UnboxFailsType ==
    ASSUME TypeOK, ControlInv, NEW t \in Thread, UnboxFails(t)
    PROVE  TypeOK' /\ ControlInv'
<1>1. ThreadTypeOK'
  BY DEF UnboxFails, Goto, TypeOK, ThreadTypeOK, Label
<1>2. TableTypeOK'
  <2>1. msg[t].seq \in AnySeq
    BY DEF UnboxFails, ControlInv, Message
  <2> QED
    BY <2>1 DEF UnboxFails, TypeOK, TableTypeOK
<1>3. ControlInv'
  BY DEF UnboxFails, Goto, TypeOK, ControlInv, ThreadTypeOK, sendVars, Top
<1> QED
  BY <1>1, <1>2, <1>3, Unchanged DEF UnboxFails, TypeOK

(* DispatchRequest keeps the types and ControlInv. *)
LEMMA DispatchRequestType ==
    ASSUME TypeOK, ControlInv, NEW t \in Thread, DispatchRequest(t)
    PROVE  TypeOK' /\ ControlInv'
<1>1. ThreadTypeOK'
  BY SeqNoType, SeqFacts, PushFacts
     DEF DispatchRequest, Goto, Push, TypeOK, ThreadTypeOK, Label, ControlInv, NoSeq,
         Top, Frame, Message, NoMsg, EOF, AnySeq, Call, CloseReq, Reply, Unset,
         SendFailed, Closing
<1>2. ControlInv'
  BY SeqFacts, PushFacts
     DEF DispatchRequest, Goto, Push, TypeOK, ControlInv, Label, ThreadTypeOK,
         threadVars, SendTypeOK, sendVars, NoSeq, Top
<1> QED
  BY <1>1, <1>2, Unchanged DEF DispatchRequest, TypeOK

(* NotifyStream keeps the types and ControlInv. *)
LEMMA NotifyStreamType ==
    ASSUME TypeOK, ControlInv, NEW t \in Thread, NotifyStream(t)
    PROVE  TypeOK' /\ ControlInv'
<1>1. ThreadTypeOK'
  BY SeqNoType DEF NotifyStream, Goto, WakePoller, TypeOK, ThreadTypeOK, Label
<1>2. RecvTypeOK'
  BY DEF NotifyStream, Goto, WakePoller, TypeOK, RecvTypeOK
<1>3. ControlInv'
  BY SeqFacts, PushFacts
     DEF NotifyStream, Goto, WakePoller, TypeOK, ControlInv, Label, ThreadTypeOK,
         threadVars, SendTypeOK, sendVars, NoSeq, Top
<1> QED
  BY <1>1, <1>2, <1>3, Unchanged DEF NotifyStream, TypeOK

(* NotifyAll keeps the types and ControlInv. *)
LEMMA NotifyAllType ==
    ASSUME TypeOK, ControlInv, NEW t \in Thread, NotifyAll(t)
    PROVE  TypeOK' /\ ControlInv'
<1>1. ThreadTypeOK'
  BY SeqNoType DEF NotifyAll, Goto, TypeOK, ThreadTypeOK, Label
<1>2. RecvTypeOK'
  BY DEF NotifyAll, Goto, TypeOK, RecvTypeOK
<1>3. ControlInv'
  BY SeqFacts, PushFacts
     DEF NotifyAll, Goto, TypeOK, ControlInv, Label, ThreadTypeOK, threadVars,
         SendTypeOK, sendVars, NoSeq, Top
<1> QED
  BY <1>1, <1>2, <1>3, Unchanged DEF NotifyAll, TypeOK

(* Raise keeps the types and ControlInv. *)
LEMMA RaiseType ==
    ASSUME TypeOK, ControlInv, NEW t \in Thread, Raise(t)
    PROVE  TypeOK' /\ ControlInv'
<1>1. ThreadTypeOK'
  <2>1. CASE stack[t] = <<>> /\ t \in Client
    BY <2>1 DEF Raise, Goto, TypeOK, ThreadTypeOK, Label
  <2>2. CASE stack[t] = <<>> /\ t \notin Client
    BY <2>2, PushType DEF Raise, Goto, TypeOK, ThreadTypeOK, Label, NoSeq
  <2>3. CASE stack[t] # <<>>
    BY <2>3 DEF Raise, Goto, TypeOK, ThreadTypeOK, Label
  <2> QED
    BY <2>1, <2>2, <2>3
<1>2. ControlInv'
  BY SeqFacts, PushFacts
     DEF Raise, Goto, Push, TypeOK, ControlInv, Label, ThreadTypeOK, threadVars,
         SendTypeOK, sendVars, NoSeq, Top
<1> QED
  BY <1>1, <1>2, Unchanged DEF Raise, TypeOK

(* ClientCloses keeps the types and ControlInv. *)
LEMMA ClientClosesType ==
    ASSUME TypeOK, ControlInv, NEW t \in Thread, ClientCloses(t)
    PROVE  TypeOK' /\ ControlInv'
<1>1. ThreadTypeOK'
  BY SeqNoType, SeqFacts, PushFacts
     DEF ClientCloses, Goto, Push, TypeOK, ThreadTypeOK, Label, ControlInv, NoSeq, Top,
         Frame, Message, NoMsg, EOF, AnySeq, Call, CloseReq, Reply, Unset,
         SendFailed, Closing
<1>2. ControlInv'
  BY SeqFacts, PushFacts
     DEF ClientCloses, Goto, Push, TypeOK, ControlInv, Label, ThreadTypeOK, threadVars,
         SendTypeOK, sendVars, NoSeq, Top
<1> QED
  BY <1>1, <1>2, Unchanged DEF ClientCloses, TypeOK

(* CloseOnEOF keeps the types and ControlInv. *)
LEMMA CloseOnEOFType ==
    ASSUME TypeOK, ControlInv, NEW t \in Thread, CloseOnEOF(t)
    PROVE  TypeOK' /\ ControlInv'
<1>1. ThreadTypeOK'
  BY SeqNoType, SeqFacts, PushFacts
     DEF CloseOnEOF, Goto, Push, TypeOK, ThreadTypeOK, Label, ControlInv, NoSeq, Top,
         Frame, Message, NoMsg, EOF, AnySeq, Call, CloseReq, Reply, Unset,
         SendFailed, Closing
<1>2. ControlInv'
  BY SeqFacts, PushFacts
     DEF CloseOnEOF, Goto, Push, TypeOK, ControlInv, Label, ThreadTypeOK, threadVars,
         SendTypeOK, sendVars, NoSeq, Top
<1> QED
  BY <1>1, <1>2, Unchanged DEF CloseOnEOF, TypeOK

(* CloseTest keeps the types and ControlInv. *)
LEMMA CloseTestType ==
    ASSUME TypeOK, ControlInv, NEW t \in Thread, CloseTest(t)
    PROVE  TypeOK' /\ ControlInv'
<1>1. ThreadTypeOK'
  <2>1. CASE closed
    BY <2>1, PopType DEF CloseTest, CloseEnds, Goto, ControlInv, TypeOK, ThreadTypeOK, Label
  <2>2. CASE ~closed
    BY <2>2 DEF CloseTest, Goto, TypeOK, ThreadTypeOK, Label
  <2> QED
    BY <2>1, <2>2
<1>2. ControlInv'
  BY SeqFacts, PushFacts
     DEF CloseTest, Goto, CloseEnds, Pop, TypeOK, ControlInv, Label, ThreadTypeOK,
         threadVars, SendTypeOK, sendVars, NoSeq, Top
<1> QED
  BY <1>1, <1>2, Unchanged DEF CloseTest, TypeOK

(* CloseSet keeps the types and ControlInv. *)
LEMMA CloseSetType ==
    ASSUME TypeOK, ControlInv, NEW t \in Thread, CloseSet(t)
    PROVE  TypeOK' /\ ControlInv'
<1>1. ThreadTypeOK'
  BY SeqNoType DEF CloseSet, Goto, Issue, TypeOK, ThreadTypeOK, Label
<1>2. TableTypeOK'
  BY SeqNoType DEF CloseSet, Goto, Issue, TypeOK, TableTypeOK
<1>3. CloseTypeOK'
  BY DEF CloseSet, Goto, Issue, TypeOK, CloseTypeOK
<1>4. ControlInv'
  BY SeqFacts, PushFacts
     DEF CloseSet, Goto, Issue, TypeOK, ControlInv, Label, ThreadTypeOK, threadVars,
         SendTypeOK, sendVars, NoSeq, Top
<1> QED
  BY <1>1, <1>2, <1>3, <1>4, Unchanged DEF CloseSet, TypeOK

(* CleanupChannel keeps the types and ControlInv. *)
LEMMA CleanupChannelType ==
    ASSUME TypeOK, ControlInv, NEW t \in Thread, CleanupChannel(t)
    PROVE  TypeOK' /\ ControlInv'
<1>1. ThreadTypeOK'
  BY SeqNoType DEF CleanupChannel, Goto, TypeOK, ThreadTypeOK, Label
<1>2. CloseTypeOK'
  BY DEF CleanupChannel, Goto, TypeOK, CloseTypeOK
<1>3. NetTypeOK'
  BY DEF CleanupChannel, Goto, TypeOK, NetTypeOK
<1>4. ControlInv'
  BY SeqFacts, PushFacts
     DEF CleanupChannel, Goto, TypeOK, ControlInv, Label, ThreadTypeOK, threadVars,
         SendTypeOK, sendVars, NoSeq, Top
<1> QED
  BY <1>1, <1>2, <1>3, <1>4, Unchanged DEF CleanupChannel, TypeOK

(* CleanupDrain keeps the types and ControlInv. *)
LEMMA CleanupDrainType ==
    ASSUME TypeOK, ControlInv, NEW t \in Thread, CleanupDrain(t)
    PROVE  TypeOK' /\ ControlInv'
<1>1. ThreadTypeOK'
  BY SeqNoType DEF CleanupDrain, Goto, TypeOK, ThreadTypeOK, Label
<1>2. NetTypeOK'
  BY DEF CleanupDrain, Goto, TypeOK, NetTypeOK
<1>3. ControlInv'
  BY SeqFacts, PushFacts
     DEF CleanupDrain, Goto, TypeOK, ControlInv, Label, ThreadTypeOK, threadVars,
         SendTypeOK, sendVars, NoSeq, Top
<1> QED
  BY <1>1, <1>2, <1>3, Unchanged DEF CleanupDrain, TypeOK, recvVars

(* CleanupRoot keeps the types and ControlInv. *)
LEMMA CleanupRootType ==
    ASSUME TypeOK, ControlInv, NEW t \in Thread, CleanupRoot(t)
    PROVE  TypeOK' /\ ControlInv'
<1>1. ThreadTypeOK'
  <2>1. CASE alive \/ Top(t).op = "handle"
    BY <2>1 DEF CleanupRoot, CleanupFails, Goto, TypeOK, ThreadTypeOK, Label
  <2>2. CASE ~alive /\ Top(t).op # "handle"
    BY <2>2, PopType DEF CleanupRoot, CleanupFails, Goto, ControlInv, TypeOK, ThreadTypeOK, Label
  <2> QED
    BY <2>1, <2>2
<1>2. CloseTypeOK'
  BY DEF CleanupRoot, Goto, CleanupFails, Pop, TypeOK, CloseTypeOK
<1>3. ControlInv'
  BY SeqFacts, PushFacts
     DEF CleanupRoot, Goto, CleanupFails, Pop, TypeOK, ControlInv, Label, ThreadTypeOK,
         threadVars, SendTypeOK, sendVars, NoSeq, Top
<1> QED
  BY <1>1, <1>2, <1>3, Unchanged DEF CleanupRoot, TypeOK

(* StopSending keeps the types and ControlInv. *)
LEMMA StopSendingType ==
    ASSUME TypeOK, ControlInv, NEW t \in Thread, StopSending(t)
    PROVE  TypeOK' /\ ControlInv'
<1>1. ThreadTypeOK'
  BY SeqNoType DEF StopSending, Goto, TypeOK, ThreadTypeOK, Label
<1>2. CloseTypeOK'
  BY DEF StopSending, Goto, TypeOK, CloseTypeOK
<1>3. SendTypeOK'
  BY DEF StopSending, Goto, TypeOK, SendTypeOK
<1>4. ControlInv'
  BY SeqFacts, PushFacts
     DEF StopSending, Goto, TypeOK, ControlInv, Label, ThreadTypeOK, threadVars,
         SendTypeOK, sendVars, NoSeq, Top
<1> QED
  BY <1>1, <1>2, <1>3, <1>4, Unchanged DEF StopSending, TypeOK

(* JoinSender keeps the types and ControlInv. *)
LEMMA JoinSenderType ==
    ASSUME TypeOK, ControlInv, NEW t \in Thread, JoinSender(t)
    PROVE  TypeOK' /\ ControlInv'
<1>1. ThreadTypeOK'
  BY SeqNoType DEF JoinSender, Goto, TypeOK, ThreadTypeOK, Label
<1>2. ControlInv'
  BY SeqFacts, PushFacts
     DEF JoinSender, Goto, TypeOK, ControlInv, Label, ThreadTypeOK, threadVars,
         SendTypeOK, sendVars, NoSeq, Top
<1> QED
  BY <1>1, <1>2, Unchanged DEF JoinSender, TypeOK

(* CleanupClear keeps the types and ControlInv. *)
LEMMA CleanupClearType ==
    ASSUME TypeOK, ControlInv, NEW t \in Thread, CleanupClear(t)
    PROVE  TypeOK' /\ ControlInv'
<1>1. ThreadTypeOK'
  <2>1. CASE Top(t).op = "handle"
    BY <2>1 DEF CleanupClear, CleanupFails, Goto, TypeOK, ThreadTypeOK, Label
  <2>2. CASE Top(t).op # "handle"
    <3>1. Pop(t) /\ UNCHANGED msg /\ \E l \in Label : Goto(t, l)
      BY <2>2 DEF CleanupClear, CleanupFails, CloseEnds, Label
    <3> QED
      BY <3>1, PopType DEF CleanupClear, Goto, ControlInv, TypeOK, ThreadTypeOK
  <2> QED
    BY <2>1, <2>2
<1>2. TableTypeOK'
  BY SeqNoType DEF CleanupClear, Goto, CleanupFails, CloseEnds, Pop, TypeOK, TableTypeOK
<1>3. CloseTypeOK'
  BY DEF CleanupClear, Goto, CleanupFails, CloseEnds, Pop, TypeOK, CloseTypeOK
<1>4. ControlInv'
  BY SeqFacts, PushFacts
     DEF CleanupClear, Goto, CleanupFails, CloseEnds, Pop, TypeOK, ControlInv, Label,
         ThreadTypeOK, threadVars, SendTypeOK, sendVars, NoSeq, Top
<1> QED
  BY <1>1, <1>2, <1>3, <1>4, Unchanged DEF CleanupClear, TypeOK

(* SenderTake keeps the types and ControlInv. *)
LEMMA SenderTakeType ==
    ASSUME TypeOK, ControlInv, SenderTake
    PROVE  TypeOK' /\ ControlInv'
<1>1. SendTypeOK'
  <2>1. CASE sendQueue # <<>>
    BY <2>1, SeqFacts DEF SenderTake, TypeOK, SendTypeOK
  <2>2. CASE sendQueue = <<>>
    BY <2>2 DEF SenderTake, TypeOK, SendTypeOK
  <2> QED
    BY <2>1, <2>2
<1>2. ControlInv'
  BY SeqFacts, PushFacts
     DEF SenderTake, TypeOK, ControlInv, Label, ThreadTypeOK, threadVars, SendTypeOK,
         sendVars, NoSeq, Top
<1> QED
  BY <1>1, <1>2, Unchanged DEF SenderTake, TypeOK

(* SenderWoken keeps the types and ControlInv. *)
LEMMA SenderWokenType ==
    ASSUME TypeOK, ControlInv, SenderWoken
    PROVE  TypeOK' /\ ControlInv'
<1>1. SendTypeOK'
  BY DEF SenderWoken, TypeOK, SendTypeOK
<1>2. ControlInv'
  BY SeqFacts, PushFacts
     DEF SenderWoken, TypeOK, ControlInv, Label, ThreadTypeOK, threadVars, SendTypeOK,
         sendVars, NoSeq, Top
<1> QED
  BY <1>1, <1>2, Unchanged DEF SenderWoken, TypeOK

(* SenderSends keeps the types and ControlInv. *)
LEMMA SenderSendsType ==
    ASSUME TypeOK, ControlInv, SenderSends
    PROVE  TypeOK' /\ ControlInv'
<1>1. SendTypeOK'
  BY SeqFacts, PushFacts
     DEF SenderSends, TypeOK, SendTypeOK, ThreadTypeOK, ControlInv, NoSeq, Top, Frame,
         Message, NoMsg, EOF, AnySeq, Call, CloseReq, Reply, Unset, SendFailed,
         Closing
<1>2. NetTypeOK'
  BY SeqFacts, PushFacts
     DEF SenderSends, TypeOK, NetTypeOK, ThreadTypeOK, ControlInv, NoSeq, Top
<1>3. ControlInv'
  BY SeqFacts, PushFacts
     DEF SenderSends, TypeOK, ControlInv, Label, ThreadTypeOK, threadVars, SendTypeOK,
         sendVars, NoSeq, Top
<1> QED
  BY <1>1, <1>2, <1>3, Unchanged DEF SenderSends, TypeOK

(* SenderFails keeps the types and ControlInv. *)
LEMMA SenderFailsType ==
    ASSUME TypeOK, ControlInv, SenderFails
    PROVE  TypeOK' /\ ControlInv'
<1>1. SendTypeOK'
  BY DEF SenderFails, TypeOK, SendTypeOK
<1>2. NetTypeOK'
  BY DEF SenderFails, TypeOK, NetTypeOK
<1>3. ControlInv'
  BY SeqFacts, PushFacts
     DEF SenderFails, TypeOK, ControlInv, Label, ThreadTypeOK, threadVars, SendTypeOK,
         sendVars, NoSeq, Top
<1> QED
  BY <1>1, <1>2, <1>3, Unchanged DEF SenderFails, TypeOK

(* SenderReports keeps the types and ControlInv. *)
LEMMA SenderReportsType ==
    ASSUME TypeOK, ControlInv, SenderReports
    PROVE  TypeOK' /\ ControlInv'
<1>1. SendTypeOK'
  BY DEF SenderReports, Resolve, TypeOK, SendTypeOK
<1>2. TableTypeOK'
  BY SeqNoType DEF SenderReports, Resolve, TypeOK, TableTypeOK
<1>3. ControlInv'
  BY SeqFacts, PushFacts
     DEF SenderReports, Resolve, TypeOK, ControlInv, Label, ThreadTypeOK, threadVars,
         SendTypeOK, sendVars, NoSeq, Top
<1> QED
  BY <1>1, <1>2, <1>3, Unchanged DEF SenderReports, TypeOK

(* SenderNotifies keeps the types and ControlInv. *)
LEMMA SenderNotifiesType ==
    ASSUME TypeOK, ControlInv, SenderNotifies
    PROVE  TypeOK' /\ ControlInv'
<1>1. SendTypeOK'
  BY DEF SenderNotifies, WakePoller, TypeOK, SendTypeOK
<1>2. RecvTypeOK'
  BY DEF SenderNotifies, WakePoller, TypeOK, RecvTypeOK
<1>3. ControlInv'
  BY SeqFacts, PushFacts
     DEF SenderNotifies, WakePoller, TypeOK, ControlInv, Label, ThreadTypeOK, threadVars,
         SendTypeOK, sendVars, NoSeq, Top
<1> QED
  BY <1>1, <1>2, <1>3, Unchanged DEF SenderNotifies, TypeOK

(* Expire keeps the types and ControlInv. *)
LEMMA ExpireType ==
    ASSUME TypeOK, ControlInv, NEW s \in SeqNo, Expire(s)
    PROVE  TypeOK' /\ ControlInv'
<1>1. TableTypeOK'
  BY SeqNoType DEF Expire, TypeOK, TableTypeOK
<1>2. ControlInv'
  BY SeqFacts, PushFacts
     DEF Expire, TypeOK, ControlInv, Label, ThreadTypeOK, threadVars, SendTypeOK,
         sendVars, NoSeq, Top
<1> QED
  BY <1>1, <1>2, Unchanged DEF Expire, TypeOK

(* PeerReceives keeps the types and ControlInv. *)
LEMMA PeerReceivesType ==
    ASSUME TypeOK, ControlInv, PeerReceives
    PROVE  TypeOK' /\ ControlInv'
<1>1. NetTypeOK'
  <2>1. Head(out) \in Message /\ Tail(out) \in Seq(Message)
    BY SeqFacts DEF PeerReceives, TypeOK, NetTypeOK
  <2>2. peerPending' \subseteq AnySeq /\ peerEof' \in BOOLEAN
    BY <2>1 DEF PeerReceives, PeerStep, TypeOK, NetTypeOK, Message
  <2> QED
    BY <2>1, <2>2 DEF PeerReceives, PeerStep, TypeOK, NetTypeOK
<1>2. ControlInv'
  BY SeqFacts, PushFacts
     DEF PeerReceives, PeerStep, TypeOK, ControlInv, Label, ThreadTypeOK, threadVars,
         SendTypeOK, sendVars, NoSeq, Top
<1> QED
  BY <1>1, <1>2, Unchanged DEF PeerReceives, TypeOK, PeerStep

(* PeerAnswers keeps the types and ControlInv. *)
LEMMA PeerAnswersType ==
    ASSUME TypeOK, ControlInv, NEW s \in SeqNo, PeerAnswers(s)
    PROVE  TypeOK' /\ ControlInv'
<1>1. NetTypeOK'
  BY SeqFacts, PushFacts
     DEF PeerAnswers, PeerStep, TypeOK, NetTypeOK, ThreadTypeOK, ControlInv, NoSeq, Top,
         Frame, Message, NoMsg, EOF, AnySeq, Call, CloseReq, Reply, Unset,
         SendFailed, Closing
<1>2. ControlInv'
  BY SeqFacts, PushFacts
     DEF PeerAnswers, PeerStep, TypeOK, ControlInv, Label, ThreadTypeOK, threadVars,
         SendTypeOK, sendVars, NoSeq, Top
<1> QED
  BY <1>1, <1>2, Unchanged DEF PeerAnswers, TypeOK, PeerStep

(* PeerAsks keeps the types and ControlInv. *)
LEMMA PeerAsksType ==
    ASSUME TypeOK, ControlInv, NEW r \in PeerRequest, PeerAsks(r)
    PROVE  TypeOK' /\ ControlInv'
<1>1. NetTypeOK'
  BY SeqFacts, PushFacts
     DEF PeerAsks, PeerStep, TypeOK, NetTypeOK, ThreadTypeOK, ControlInv, NoSeq, Top,
         Frame, Message, NoMsg, EOF, AnySeq, Call, CloseReq, Reply, Unset,
         SendFailed, Closing
<1>2. ControlInv'
  BY SeqFacts, PushFacts
     DEF PeerAsks, PeerStep, TypeOK, ControlInv, Label, ThreadTypeOK, threadVars,
         SendTypeOK, sendVars, NoSeq, Top
<1> QED
  BY <1>1, <1>2, Unchanged DEF PeerAsks, TypeOK, PeerStep

(* PeerAsksClose keeps the types and ControlInv. *)
LEMMA PeerAsksCloseType ==
    ASSUME TypeOK, ControlInv, NEW r \in PeerRequest, PeerAsksClose(r)
    PROVE  TypeOK' /\ ControlInv'
<1>1. NetTypeOK'
  BY SeqFacts, PushFacts
     DEF PeerAsksClose, PeerStep, TypeOK, NetTypeOK, ThreadTypeOK, ControlInv, NoSeq,
         Top, Frame, Message, NoMsg, EOF, AnySeq, Call, CloseReq, Reply, Unset,
         SendFailed, Closing
<1>2. ControlInv'
  BY SeqFacts, PushFacts
     DEF PeerAsksClose, PeerStep, TypeOK, ControlInv, Label, ThreadTypeOK, threadVars,
         SendTypeOK, sendVars, NoSeq, Top
<1> QED
  BY <1>1, <1>2, Unchanged DEF PeerAsksClose, TypeOK, PeerStep

(* PeerShuts keeps the types and ControlInv. *)
LEMMA PeerShutsType ==
    ASSUME TypeOK, ControlInv, PeerShuts
    PROVE  TypeOK' /\ ControlInv'
<1>1. NetTypeOK'
  BY DEF PeerShuts, PeerStep, TypeOK, NetTypeOK
<1>2. ControlInv'
  BY SeqFacts, PushFacts
     DEF PeerShuts, PeerStep, TypeOK, ControlInv, Label, ThreadTypeOK, threadVars,
         SendTypeOK, sendVars, NoSeq, Top
<1> QED
  BY <1>1, <1>2, Unchanged DEF PeerShuts, TypeOK, PeerStep, recvVars

(* Every operation of a thread keeps the types and ControlInv. *)
LEMMA ThreadStepType ==
    ASSUME TypeOK, ControlInv, NEW t \in Thread,
           ThreadStep(t) \/ ClientCalls(t) \/ HandlerCalls(t) \/ ClientCloses(t) \/ UnboxFails(t)
    PROVE  TypeOK' /\ ControlInv'
BY ClientCallsType, HandlerCallsType, SendRequestType, SendReplyType,
   HandlerReturnsType, WaitDoneType, ServeAllEndsType, ServeEnterType,
   ServeWokenType, PollEnterType, PollDataType, PollEOFType, PollWokenType,
   ReleaseType, DispatchReplyType, UnboxFailsType, DispatchRequestType, NotifyStreamType,
   NotifyAllType, RaiseType, ClientClosesType, CloseOnEOFType, CloseTestType,
   CloseSetType, CleanupChannelType, CleanupDrainType, CleanupRootType,
   StopSendingType, JoinSenderType, CleanupClearType
   DEF ThreadStep

(* Every step of the send thread keeps the types and ControlInv. *)
LEMMA SenderStepType ==
    ASSUME TypeOK, ControlInv, SenderStep
    PROVE  TypeOK' /\ ControlInv'
BY SenderTakeType, SenderWokenType, SenderSendsType, SenderFailsType,
   SenderReportsType, SenderNotifiesType
   DEF SenderStep

(* The types and ControlInv hold when a connection has been made. *)
LEMMA InitType == Init => TypeOK /\ ControlInv
<1> SUFFICES ASSUME Init
             PROVE  TypeOK /\ ControlInv
  OBVIOUS
<1>1. ThreadTypeOK
  BY DEF Init, ThreadTypeOK, Label
<1>2. TableTypeOK
  BY SeqNoType DEF Init, TableTypeOK
<1>3. RecvTypeOK /\ CloseTypeOK
  BY DEF Init, RecvTypeOK, CloseTypeOK
<1>4. SendTypeOK /\ NetTypeOK
  BY EmptySeq DEF Init, SendTypeOK, NetTypeOK
<1>5. ControlInv
  BY DEF Init, ControlInv
<1> QED
  BY <1>1, <1>2, <1>3, <1>4, <1>5 DEF TypeOK

(* The types and ControlInv are kept by every step. *)
LEMMA NextType == TypeOK /\ ControlInv /\ [Next]_vars => TypeOK' /\ ControlInv'
<1> SUFFICES ASSUME TypeOK, ControlInv, [Next]_vars
             PROVE  TypeOK' /\ ControlInv'
  OBVIOUS
<1>1. CASE \E t \in Thread : \/ ThreadStep(t) \/ ClientCalls(t) \/ HandlerCalls(t)
                              \/ ClientCloses(t) \/ UnboxFails(t)
  BY <1>1, ThreadStepType
<1>2. CASE SenderStep
  BY <1>2, SenderStepType
<1>3. CASE \E s \in SeqNo : Expire(s) \/ PeerAnswers(s)
  BY <1>3, ExpireType, PeerAnswersType
<1>4. CASE PeerReceives \/ PeerShuts
  BY <1>4, PeerReceivesType, PeerShutsType
<1>5. CASE \E r \in PeerRequest : PeerAsks(r) \/ PeerAsksClose(r)
  BY <1>5, PeerAsksType, PeerAsksCloseType
<1>6. CASE UNCHANGED vars
  <2>1. ControlInv'
    BY <1>6 DEF ControlInv, Top, vars, threadVars, sendVars
  <2> QED
    BY <1>6, <2>1, Unchanged DEF vars, TypeOK
<1> QED
  BY <1>1, <1>2, <1>3, <1>4, <1>5, <1>6 DEF Next

(* Every state the connection can be in is well typed, and the control state
   of every thread agrees with its stack, its message and its pending request. *)
THEOREM TypeCorrect == Spec => [](TypeOK /\ ControlInv)
<1> QED
  BY InitType, NextType, PTL DEF Spec

-----------------------------------------------------------------------------
(* SingleReceiver.  A step either leaves the receivers and _receiving alone, or
   it makes the only receiver, or it lets the only receiver go. *)

ReceiversKept == Receivers' = Receivers /\ receiving' = receiving

(* Where a thread is after serve() decided for it. *)
LEMMA DecideToReceive ==
    ASSUME TypeOK, SingleReceiver, NEW t \in Thread, t \notin Receivers,
           IF receiving THEN WaitForReceiver(t) ELSE BecomeReceiver(t)
    PROVE  SingleReceiver'
<1>1. CASE receiving
  <2>1. ReceiversKept
    BY <1>1 DEF WaitForReceiver, Goto, ReceiversKept, Receivers, TypeOK, ThreadTypeOK
  <2> QED
    BY <2>1 DEF ReceiversKept, SingleReceiver
<1>2. CASE ~receiving
  <2>1. Receivers = {}
    BY <1>2 DEF SingleReceiver
  <2>2. Receivers' = {t} /\ receiving' = TRUE
    BY <1>2, <2>1 DEF BecomeReceiver, Goto, Receivers, TypeOK, ThreadTypeOK
  <2> QED
    BY <2>2 DEF SingleReceiver
<1> QED
  BY <1>1, <1>2

(* Every other operation of a thread leaves the receivers alone. *)
LEMMA ReceiversAreKept ==
    ASSUME TypeOK, ControlInv, NEW t \in Thread,
           ThreadStep(t) \/ ClientCalls(t) \/ HandlerCalls(t) \/ ClientCloses(t) \/ UnboxFails(t),
           ~ServeEnter(t), ~ServeWoken(t), ~Release(t)
    PROVE  ReceiversKept
<1>1. CASE ClientCalls(t)
  BY <1>1 DEF ClientCalls, Goto, Issue, recvVars, ReceiversKept, Receivers, TypeOK,
             ThreadTypeOK
<1>2. CASE HandlerCalls(t)
  BY <1>2 DEF HandlerCalls, Goto, Issue, recvVars, ReceiversKept, Receivers, TypeOK,
             ThreadTypeOK
<1>3. CASE SendRequest(t)
  BY <1>3 DEF SendRequest, Goto, Enqueue, recvVars, ReceiversKept, Receivers, TypeOK,
             ThreadTypeOK
<1>4. CASE SendReply(t)
  BY <1>4 DEF SendReply, Goto, Enqueue, Pop, recvVars, ReceiversKept, Receivers, TypeOK,
             ThreadTypeOK
<1>5. CASE HandlerReturns(t)
  BY <1>5 DEF HandlerReturns, Goto, recvVars, ReceiversKept, Receivers, TypeOK, ThreadTypeOK
<1>6. CASE WaitDone(t)
  BY <1>6 DEF WaitDone, Goto, recvVars, ReceiversKept, Receivers, TypeOK, ThreadTypeOK
<1>7. CASE ServeAllEnds(t)
  BY <1>7 DEF ServeAllEnds, Goto, Push, recvVars, ReceiversKept, Receivers, TypeOK,
             ThreadTypeOK
<1>8. CASE PollEnter(t)
  BY <1>8 DEF PollEnter, Goto, Received, ReceiversKept, Receivers, TypeOK, ThreadTypeOK
<1>9. CASE PollData(t)
  BY <1>9 DEF PollData, Goto, Received, ReceiversKept, Receivers, TypeOK, ThreadTypeOK
<1>10. CASE PollEOF(t)
  BY <1>10 DEF PollEOF, Goto, Received, ReceiversKept, Receivers, TypeOK, ThreadTypeOK
<1>11. CASE PollWoken(t)
  BY <1>11 DEF PollWoken, Goto, Received, ReceiversKept, Receivers, TypeOK, ThreadTypeOK
<1>12. CASE DispatchReply(t)
  BY <1>12 DEF DispatchReply, Goto, Resolve, recvVars, ReceiversKept, Receivers, TypeOK,
             ThreadTypeOK
<1>13. CASE DispatchRequest(t)
  BY <1>13 DEF DispatchRequest, Goto, Push, recvVars, ReceiversKept, Receivers, TypeOK,
             ThreadTypeOK
<1>14. CASE NotifyStream(t)
  BY <1>14 DEF NotifyStream, Goto, WakePoller, ReceiversKept, Receivers, TypeOK, ThreadTypeOK
<1>15. CASE NotifyAll(t)
  BY <1>15 DEF NotifyAll, Goto, ReceiversKept, Receivers, TypeOK, ThreadTypeOK
<1>16. CASE Raise(t)
  BY <1>16 DEF Raise, Goto, Push, recvVars, ReceiversKept, Receivers, TypeOK, ThreadTypeOK
<1>17. CASE ClientCloses(t)
  BY <1>17 DEF ClientCloses, Goto, Push, recvVars, ReceiversKept, Receivers, TypeOK,
             ThreadTypeOK
<1>18. CASE CloseOnEOF(t)
  BY <1>18 DEF CloseOnEOF, Goto, Push, recvVars, ReceiversKept, Receivers, TypeOK, ThreadTypeOK
<1>19. CASE CloseTest(t)
  BY <1>19 DEF CloseTest, Goto, CloseEnds, Pop, recvVars, ReceiversKept, Receivers, TypeOK,
             ThreadTypeOK
<1>20. CASE CloseSet(t)
  BY <1>20 DEF CloseSet, Goto, Issue, recvVars, ReceiversKept, Receivers, TypeOK, ThreadTypeOK
<1>21. CASE CleanupChannel(t)
  BY <1>21 DEF CleanupChannel, Goto, recvVars, ReceiversKept, Receivers, TypeOK, ThreadTypeOK
<1>22. CASE CleanupDrain(t)
  BY <1>22 DEF CleanupDrain, Goto, recvVars, ReceiversKept, Receivers, TypeOK, ThreadTypeOK
<1>23. CASE CleanupRoot(t)
  BY <1>23 DEF CleanupRoot, Goto, CleanupFails, Pop, recvVars, ReceiversKept, Receivers,
             TypeOK, ThreadTypeOK
<1>24. CASE StopSending(t)
  BY <1>24 DEF StopSending, Goto, recvVars, ReceiversKept, Receivers, TypeOK, ThreadTypeOK
<1>25. CASE JoinSender(t)
  BY <1>25 DEF JoinSender, Goto, recvVars, ReceiversKept, Receivers, TypeOK, ThreadTypeOK
<1>26. CASE CleanupClear(t)
  BY <1>26 DEF CleanupClear, Goto, CleanupFails, CloseEnds, Pop, recvVars, ReceiversKept,
             Receivers, TypeOK, ThreadTypeOK
<1>27. CASE UnboxFails(t)
  BY <1>27 DEF UnboxFails, Goto, recvVars, ReceiversKept, Receivers, TypeOK, ThreadTypeOK
<1> QED
  BY <1>1, <1>2, <1>3, <1>4, <1>5, <1>6, <1>7, <1>8, <1>9, <1>10, <1>11, <1>12,
     <1>13, <1>14, <1>15, <1>16, <1>17, <1>18, <1>19, <1>20, <1>21, <1>22,
     <1>23, <1>24, <1>25, <1>26, <1>27 DEF ThreadStep

(* One receiver at a time, kept by every step. *)
LEMMA NextSingleReceiver ==
    ASSUME TypeOK, ControlInv, SingleReceiver, [Next]_vars
    PROVE  SingleReceiver'
<1>1. ASSUME NEW t \in Thread, ServeEnter(t)
      PROVE  SingleReceiver'
  BY <1>1, DecideToReceive DEF ServeEnter, Receivers
<1>2. ASSUME NEW t \in Thread, ServeWoken(t)
      PROVE  SingleReceiver'
  <2>1. CASE Predicate(t)
    <3>1. ReceiversKept
      BY <1>2, <2>1 DEF ServeWoken, Goto, ReceiversKept, Receivers, TypeOK, ThreadTypeOK
    <3> QED
      BY <3>1 DEF ReceiversKept, SingleReceiver
  <2>2. CASE ~Predicate(t)
    BY <1>2, <2>2, DecideToReceive DEF ServeWoken, Receivers
  <2> QED
    BY <2>1, <2>2
<1>3. ASSUME NEW t \in Thread, Release(t)
      PROVE  SingleReceiver'
  <2>1. Receivers = {t}
    BY <1>3 DEF Release, Receivers, SingleReceiver
  <2>2. Receivers' = {} /\ receiving' = FALSE
    BY <1>3, <2>1 DEF Release, Goto, Receivers, TypeOK, ThreadTypeOK
  <2> QED
    BY <2>2 DEF SingleReceiver
<1>4. ASSUME NEW t \in Thread,
             ThreadStep(t) \/ ClientCalls(t) \/ HandlerCalls(t) \/ ClientCloses(t) \/ UnboxFails(t)
      PROVE  SingleReceiver'
  <2>1. CASE ServeEnter(t) \/ ServeWoken(t) \/ Release(t)
    BY <1>1, <1>2, <1>3, <2>1
  <2>2. CASE ~(ServeEnter(t) \/ ServeWoken(t) \/ Release(t))
    BY <1>4, <2>2, ReceiversAreKept DEF ReceiversKept, SingleReceiver
  <2> QED
    BY <2>1, <2>2
<1>5. CASE SenderStep
  BY <1>5 DEF SenderStep, SenderTake, SenderWoken, SenderSends, SenderFails, SenderReports,
              SenderNotifies, threadVars, recvVars, SingleReceiver, Receivers
<1>6. CASE \/ \E s \in SeqNo : Expire(s) \/ PeerAnswers(s)
           \/ PeerReceives \/ PeerShuts
           \/ \E r \in PeerRequest : PeerAsks(r) \/ PeerAsksClose(r)
  BY <1>6 DEF Expire, PeerAnswers, PeerReceives, PeerShuts, PeerAsks, PeerAsksClose,
              PeerStep, threadVars, recvVars, SingleReceiver, Receivers
<1>7. CASE UNCHANGED vars
  BY <1>7 DEF vars, threadVars, recvVars, SingleReceiver, Receivers
<1> QED
  BY <1>4, <1>5, <1>6, <1>7 DEF Next

(* However the threads interleave, only one of them is reading from the stream,
   and _receiving tells whether there is one: frames are never torn apart. *)
THEOREM OneReceiver == Spec => []SingleReceiver
<1>1. Init => SingleReceiver
  BY DEF Init, SingleReceiver, Receivers
<1>2. TypeOK /\ ControlInv /\ SingleReceiver /\ [Next]_vars => SingleReceiver'
  BY NextSingleReceiver
<1> QED
  BY <1>1, <1>2, TypeCorrect, PTL DEF Spec

-----------------------------------------------------------------------------
(* Queues of messages: the seqs they hold of one type of message, and that they
   hold none twice. *)

SeqsOf(q, type) == {q[i].seq : i \in {j \in DOMAIN q : q[j].type = type}}

AtMostOnce(q, type) ==
    \A i, j \in DOMAIN q :
        q[i].type = type /\ q[j].type = type /\ q[i].seq = q[j].seq => i = j

(* An element appended to a queue adds its seq, and no second time. *)
LEMMA SeqsAppend ==
    ASSUME NEW S, NEW q \in Seq(S), NEW e \in S, NEW type
    PROVE  /\ SeqsOf(Append(q, e), type)
                 = SeqsOf(q, type) \cup (IF e.type = type THEN {e.seq} ELSE {})
           /\ AtMostOnce(q, type) /\ (e.type = type => e.seq \notin SeqsOf(q, type))
                 => AtMostOnce(Append(q, e), type)
<1>1. Len(q) \in Nat /\ DOMAIN q = 1 .. Len(q) /\ DOMAIN Append(q, e) = 1 .. Len(q) + 1
  OBVIOUS
<1>2. Append(q, e)[Len(q) + 1] = e /\ \A i \in 1 .. Len(q) : Append(q, e)[i] = q[i]
  OBVIOUS
<1>3. SeqsOf(Append(q, e), type) = SeqsOf(q, type) \cup (IF e.type = type THEN {e.seq} ELSE {})
  BY <1>1, <1>2 DEF SeqsOf
<1>4. ASSUME AtMostOnce(q, type), e.type = type => e.seq \notin SeqsOf(q, type)
      PROVE  AtMostOnce(Append(q, e), type)
  <2> SUFFICES ASSUME NEW i \in 1 .. Len(q) + 1, NEW j \in 1 .. Len(q) + 1,
                      Append(q, e)[i].type = type, Append(q, e)[j].type = type,
                      Append(q, e)[i].seq = Append(q, e)[j].seq
               PROVE  i = j
    BY <1>1 DEF AtMostOnce
  <2>1. CASE i \in 1 .. Len(q) /\ j \in 1 .. Len(q)
    BY <1>1, <1>2, <1>4, <2>1 DEF AtMostOnce
  <2>2. CASE i = Len(q) + 1 /\ j \in 1 .. Len(q)
    BY <1>1, <1>2, <1>4, <2>2 DEF SeqsOf
  <2>3. CASE j = Len(q) + 1 /\ i \in 1 .. Len(q)
    BY <1>1, <1>2, <1>4, <2>3 DEF SeqsOf
  <2> QED
    BY <1>1, <2>1, <2>2, <2>3
<1> QED
  BY <1>3, <1>4

(* What leaves the front of a queue takes its seq away, and was in it once. *)
LEMMA SeqsTail ==
    ASSUME NEW S, NEW q \in Seq(S), q # <<>>, NEW type
    PROVE  /\ SeqsOf(q, type)
                 = SeqsOf(Tail(q), type) \cup (IF Head(q).type = type THEN {Head(q).seq} ELSE {})
           /\ AtMostOnce(q, type) =>
                 /\ AtMostOnce(Tail(q), type)
                 /\ Head(q).type = type => Head(q).seq \notin SeqsOf(Tail(q), type)
<1>1. /\ Len(q) \in Nat \ {0} /\ DOMAIN q = 1 .. Len(q) /\ DOMAIN Tail(q) = 1 .. Len(q) - 1
      /\ Head(q) = q[1] /\ \A i \in 1 .. Len(q) - 1 : Tail(q)[i] = q[i + 1]
  OBVIOUS
<1>2. 1 \in DOMAIN q /\ \A i \in DOMAIN Tail(q) : i + 1 \in DOMAIN q /\ i + 1 # 1
  BY <1>1
<1>3. SeqsOf(Tail(q), type) \subseteq SeqsOf(q, type)
  <2> SUFFICES ASSUME NEW i \in DOMAIN Tail(q), Tail(q)[i].type = type
               PROVE  Tail(q)[i].seq \in SeqsOf(q, type)
    BY DEF SeqsOf
  <2> QED
    BY <1>1, <1>2 DEF SeqsOf
<1>4. Head(q).type = type => Head(q).seq \in SeqsOf(q, type)
  BY <1>1, <1>2 DEF SeqsOf
<1>5. ASSUME AtMostOnce(q, type)
      PROVE  AtMostOnce(Tail(q), type)
  <2> SUFFICES ASSUME NEW i \in DOMAIN Tail(q), NEW j \in DOMAIN Tail(q),
                      Tail(q)[i].type = type, Tail(q)[j].type = type,
                      Tail(q)[i].seq = Tail(q)[j].seq
               PROVE  i = j
    BY DEF AtMostOnce
  <2>1. i + 1 = j + 1
    BY <1>1, <1>2, <1>5 DEF AtMostOnce
  <2> QED
    BY <1>1, <2>1
<1>6. ASSUME AtMostOnce(q, type), Head(q).type = type
      PROVE  Head(q).seq \notin SeqsOf(Tail(q), type)
  <2> SUFFICES ASSUME NEW i \in DOMAIN Tail(q), Tail(q)[i].type = type,
                      Tail(q)[i].seq = Head(q).seq
               PROVE  FALSE
    BY DEF SeqsOf
  <2> QED
    BY <1>1, <1>2, <1>6 DEF AtMostOnce
<1>7. ASSUME NEW x \in SeqsOf(q, type)
      PROVE  x \in SeqsOf(Tail(q), type) \/ (Head(q).type = type /\ x = Head(q).seq)
  <2>1. PICK i \in DOMAIN q : q[i].type = type /\ x = q[i].seq
    BY <1>7 DEF SeqsOf
  <2>2. CASE i = 1
    BY <1>1, <2>1, <2>2
  <2>3. CASE i # 1
    <3>1. i - 1 \in DOMAIN Tail(q) /\ Tail(q)[i - 1] = q[i]
      BY <1>1, <2>3
    <3> QED
      BY <2>1, <3>1 DEF SeqsOf
  <2> QED
    BY <2>2, <2>3
<1> QED
  BY <1>3, <1>4, <1>5, <1>6, <1>7

-----------------------------------------------------------------------------
(* NoStrandedSend.  The send thread is empty-handed except between taking a
   message and giving it to the channel or reporting it. *)

EmptyHanded == sender \notin {"send", "fail"} => sending = NoMsg

PathInv == NoStrandedSend /\ EmptyHanded

(* A step that neither registers a callback nor moves a message. *)
PathKept ==
    /\ callbacks' \subseteq callbacks
    /\ UNCHANGED <<sendQueue, sending, sender, handed>>
    /\ \A t \in Thread : pc[t] = "send" => pc'[t] = "send" /\ await'[t] = await[t]

(* A step that puts no request on the way to the channel out of it, unless its
   callback is given up, and registers a callback only with its request. *)
SendKept ==
    /\ callbacks' \subseteq callbacks \cup BeingSent'
    /\ callbacks' \cap BeingSent \subseteq BeingSent'
    /\ UNCHANGED <<sender, sending, handed>>

(* Moving nothing is such a step. *)
LEMMA PathKeptSends ==
    ASSUME PathKept
    PROVE  SendKept
<1>1. BeingSent \subseteq BeingSent'
  BY DEF PathKept, BeingSent, Requests
<1> QED
  BY <1>1 DEF PathKept, SendKept

(* Such a step strands nothing. *)
LEMMA SendKeptSafe ==
    ASSUME PathInv, SendKept
    PROVE  PathInv'
BY DEF SendKept, PathInv, NoStrandedSend, EmptyHanded

(* A message appended to a queue adds its request, if it is one. *)
LEMMA RequestsAppend ==
    ASSUME NEW S, NEW q \in Seq(S), NEW e \in S
    PROVE  Requests(Append(q, e)) = Requests(q) \cup (IF e.type = "request" THEN {e.seq} ELSE {})
<1>1. Requests(q) = SeqsOf(q, "request") /\ Requests(Append(q, e)) = SeqsOf(Append(q, e), "request")
  BY DEF Requests, SeqsOf
<1> QED
  BY <1>1, SeqsAppend

(* The requests of a queue are those of its tail and of its head. *)
LEMMA RequestsTail ==
    ASSUME NEW S, NEW q \in Seq(S), q # <<>>
    PROVE  Requests(q) = Requests(Tail(q)) \cup Requests(<<Head(q)>>)
<1>1. Requests(q) = SeqsOf(q, "request") /\ Requests(Tail(q)) = SeqsOf(Tail(q), "request")
  BY DEF Requests, SeqsOf
<1>2. Requests(<<Head(q)>>) = IF Head(q).type = "request" THEN {Head(q).seq} ELSE {}
  BY DEF Requests
<1> QED
  BY <1>1, <1>2, SeqsTail

(* Every operation of a thread but the four that register a callback, enqueue a
   request or an answer keeps the path from the threads to the channel. *)
LEMMA PathIsKept ==
    ASSUME TypeOK, ControlInv, NEW t \in Thread,
           ThreadStep(t) \/ ClientCalls(t) \/ HandlerCalls(t) \/ ClientCloses(t) \/ UnboxFails(t),
           ~ClientCalls(t), ~HandlerCalls(t), ~CloseSet(t), ~SendRequest(t), ~SendReply(t)
    PROVE  PathKept
<1>1. CASE HandlerReturns(t)
  BY <1>1 DEF HandlerReturns, Goto, sendVars, tableVars, PathKept, TypeOK, ThreadTypeOK
<1>2. CASE WaitDone(t)
  BY <1>2 DEF WaitDone, Goto, sendVars, tableVars, PathKept, TypeOK, ThreadTypeOK
<1>3. CASE ServeAllEnds(t)
  BY <1>3 DEF ServeAllEnds, Goto, Push, sendVars, tableVars, PathKept, TypeOK, ThreadTypeOK
<1>4. CASE ServeEnter(t)
  BY <1>4 DEF ServeEnter, Goto, BecomeReceiver, WaitForReceiver, sendVars, tableVars,
             PathKept, TypeOK, ThreadTypeOK
<1>5. CASE ServeWoken(t)
  BY <1>5 DEF ServeWoken, Goto, BecomeReceiver, WaitForReceiver, sendVars, tableVars,
             PathKept, TypeOK, ThreadTypeOK
<1>6. CASE PollEnter(t)
  BY <1>6 DEF PollEnter, Goto, Received, sendVars, tableVars, PathKept, TypeOK, ThreadTypeOK
<1>7. CASE PollData(t)
  BY <1>7 DEF PollData, Goto, Received, sendVars, tableVars, PathKept, TypeOK, ThreadTypeOK
<1>8. CASE PollEOF(t)
  BY <1>8 DEF PollEOF, Goto, Received, sendVars, tableVars, PathKept, TypeOK, ThreadTypeOK
<1>9. CASE PollWoken(t)
  BY <1>9 DEF PollWoken, Goto, Received, sendVars, tableVars, PathKept, TypeOK, ThreadTypeOK
<1>10. CASE Release(t)
  BY <1>10 DEF Release, Goto, sendVars, tableVars, PathKept, TypeOK, ThreadTypeOK
<1>11. CASE DispatchReply(t)
  BY <1>11 DEF DispatchReply, Goto, Resolve, sendVars, PathKept, TypeOK, ThreadTypeOK
<1>12. CASE DispatchRequest(t)
  BY <1>12 DEF DispatchRequest, Goto, Push, sendVars, tableVars, PathKept, TypeOK, ThreadTypeOK
<1>13. CASE NotifyStream(t)
  BY <1>13 DEF NotifyStream, Goto, WakePoller, sendVars, tableVars, PathKept, TypeOK,
             ThreadTypeOK
<1>14. CASE NotifyAll(t)
  BY <1>14 DEF NotifyAll, Goto, sendVars, tableVars, PathKept, TypeOK, ThreadTypeOK
<1>15. CASE Raise(t)
  BY <1>15 DEF Raise, Goto, Push, sendVars, tableVars, PathKept, TypeOK, ThreadTypeOK
<1>16. CASE ClientCloses(t)
  BY <1>16 DEF ClientCloses, Goto, Push, sendVars, tableVars, PathKept, TypeOK, ThreadTypeOK
<1>17. CASE CloseOnEOF(t)
  BY <1>17 DEF CloseOnEOF, Goto, Push, sendVars, tableVars, PathKept, TypeOK, ThreadTypeOK
<1>18. CASE CloseTest(t)
  BY <1>18 DEF CloseTest, Goto, CloseEnds, Pop, sendVars, tableVars, PathKept, TypeOK,
             ThreadTypeOK
<1>19. CASE CleanupChannel(t)
  BY <1>19 DEF CleanupChannel, Goto, sendVars, tableVars, PathKept, TypeOK, ThreadTypeOK
<1>20. CASE CleanupDrain(t)
  BY <1>20 DEF CleanupDrain, Goto, sendVars, tableVars, PathKept, TypeOK, ThreadTypeOK
<1>21. CASE CleanupRoot(t)
  BY <1>21 DEF CleanupRoot, Goto, CleanupFails, Pop, sendVars, tableVars, PathKept, TypeOK,
             ThreadTypeOK
<1>22. CASE StopSending(t)
  BY <1>22 DEF StopSending, Goto, tableVars, PathKept, TypeOK, ThreadTypeOK
<1>23. CASE JoinSender(t)
  BY <1>23 DEF JoinSender, Goto, sendVars, tableVars, PathKept, TypeOK, ThreadTypeOK
<1>24. CASE CleanupClear(t)
  BY <1>24 DEF CleanupClear, Goto, CleanupFails, CloseEnds, Pop, sendVars, PathKept, TypeOK,
             ThreadTypeOK
<1>25. CASE UnboxFails(t)
  BY <1>25 DEF UnboxFails, Goto, sendVars, PathKept, TypeOK, ThreadTypeOK
<1> QED
  BY <1>1, <1>2, <1>3, <1>4, <1>5, <1>6, <1>7, <1>8, <1>9, <1>10, <1>11, <1>12,
     <1>13, <1>14, <1>15, <1>16, <1>17, <1>18, <1>19, <1>20, <1>21, <1>22,
     <1>23, <1>24, <1>25 DEF ThreadStep

(* A new request is with the thread that will send it. *)
LEMMA PathIssue ==
    ASSUME TypeOK, ControlInv, NEW t \in Thread, pc[t] # "send",
           Issue(t), Goto(t, "send"), UNCHANGED sendVars
    PROVE  SendKept
<1>1. BeingSent \cup {seqcounter} \subseteq BeingSent'
  BY DEF Issue, Goto, sendVars, BeingSent, Requests, TypeOK, ThreadTypeOK
<1> QED
  BY <1>1 DEF Issue, sendVars, SendKept

(* __send hands the request to the queue, or takes its callback back. *)
LEMMA PathSendRequest ==
    ASSUME TypeOK, ControlInv, NEW t \in Thread, SendRequest(t)
    PROVE  SendKept
<1>1. CASE sendLoop
  <2>1. RequestOf(t) \in Message /\ RequestOf(t).type = "request" /\ RequestOf(t).seq = await[t]
    BY RequestOfType DEF SendRequest, RequestOf, Call, CloseReq
  <2>2. Requests(sendQueue') = Requests(sendQueue) \cup {await[t]}
    BY <1>1, <2>1, RequestsAppend DEF SendRequest, Enqueue, TypeOK, SendTypeOK
  <2>3. BeingSent \subseteq BeingSent'
    BY <1>1, <2>2 DEF SendRequest, Enqueue, Goto, BeingSent, TypeOK, ThreadTypeOK
  <2> QED
    BY <1>1, <2>3 DEF SendRequest, Enqueue, tableVars, SendKept
<1>2. CASE ~sendLoop
  <2>1. BeingSent \subseteq BeingSent' \cup {await[t]}
    BY <1>2 DEF SendRequest, Goto, sendVars, BeingSent, TypeOK, ThreadTypeOK
  <2> QED
    BY <1>2, <2>1 DEF SendRequest, sendVars, SendKept
<1> QED
  BY <1>1, <1>2

(* The answer of a handler does not displace a request. *)
LEMMA PathSendReply ==
    ASSUME TypeOK, ControlInv, NEW t \in Thread, SendReply(t)
    PROVE  SendKept
<1>1. \A u \in Thread : pc[u] = "send" => pc'[u] = "send" /\ await'[u] = await[u]
  BY DEF SendReply, Goto, Pop, TypeOK, ThreadTypeOK
<1>2. Requests(sendQueue) \subseteq Requests(sendQueue')
  <2>1. CASE sendLoop
    <3>1. Reply(Top(t).arg) \in Message
      BY TopType DEF SendReply, ControlInv
    <3>2. sendQueue' = Append(sendQueue, Reply(Top(t).arg)) /\ sendQueue \in Seq(Message)
      BY <2>1 DEF SendReply, Enqueue, TypeOK, SendTypeOK
    <3> QED
      BY <3>1, <3>2, RequestsAppend
  <2>2. CASE ~sendLoop
    BY <2>2 DEF SendReply, sendVars
  <2> QED
    BY <2>1, <2>2
<1>3. UNCHANGED <<callbacks, sending, sender, handed>>
  BY DEF SendReply, Enqueue, sendVars, tableVars
<1>4. BeingSent \subseteq BeingSent'
  BY <1>1, <1>2, <1>3 DEF BeingSent
<1> QED
  BY <1>3, <1>4 DEF SendKept

(* No operation of a thread takes a request off the path. *)
LEMMA ThreadKeepsSends ==
    ASSUME TypeOK, ControlInv, NEW t \in Thread,
           ThreadStep(t) \/ ClientCalls(t) \/ HandlerCalls(t) \/ ClientCloses(t) \/ UnboxFails(t)
    PROVE  SendKept
<1>1. CASE ClientCalls(t) \/ HandlerCalls(t) \/ CloseSet(t)
  BY <1>1, PathIssue DEF ClientCalls, HandlerCalls, CloseSet
<1>2. CASE SendRequest(t) \/ SendReply(t)
  BY <1>2, PathSendRequest, PathSendReply
<1>3. CASE ~(ClientCalls(t) \/ HandlerCalls(t) \/ CloseSet(t) \/ SendRequest(t) \/ SendReply(t))
  BY <1>3, PathIsKept, PathKeptSends
<1> QED
  BY <1>1, <1>2, <1>3

(* The send thread: what leaves the queue is in its hands, what leaves its
   hands was given to the channel or reported. *)
LEMMA SenderMoves ==
    ASSUME TypeOK, ControlInv, EmptyHanded, SenderStep
    PROVE  /\ callbacks' \subseteq callbacks /\ handed \subseteq handed' /\ EmptyHanded'
           /\ callbacks' \cap BeingSent \subseteq BeingSent' \cup (handed' \cap Requests(out'))
<1>1. CASE SenderTake
  <2>1. sending = NoMsg
    BY <1>1 DEF SenderTake, EmptyHanded
  <2>2. CASE sendQueue # <<>>
    <3>1. sending' = Head(sendQueue) /\ sendQueue' = Tail(sendQueue) /\ sender' \in {"send", "fail"}
      BY <1>1, <2>2 DEF SenderTake
    <3>2. sending' \in Message
      BY <3>1, <2>2, SeqFacts DEF TypeOK, SendTypeOK
    <3>3. sending' # NoMsg
      BY <3>2 DEF Message, NoMsg
    <3>4. Requests(sendQueue) = Requests(sendQueue') \cup Requests(<<sending'>>)
      BY <2>2, <3>1, RequestsTail DEF TypeOK, SendTypeOK
    <3>5. BeingSent \subseteq BeingSent'
      BY <1>1, <2>1, <3>3, <3>4 DEF SenderTake, threadVars, BeingSent, Requests
    <3> QED
      BY <1>1, <3>1, <3>5 DEF SenderTake, tableVars, EmptyHanded
  <2>3. CASE sendQueue = <<>>
    BY <1>1, <2>1, <2>3 DEF SenderTake, threadVars, tableVars, EmptyHanded, BeingSent, Requests
  <2> QED
    BY <2>2, <2>3
<1>2. CASE SenderWoken \/ SenderFails \/ SenderNotifies
  BY <1>2 DEF SenderWoken, SenderFails, SenderNotifies, threadVars, tableVars, EmptyHanded,
              BeingSent, Requests
<1>3. CASE SenderSends
  <2>1. Requests(out') = Requests(out) \cup (IF sending.type = "request" THEN {sending.seq} ELSE {})
    <3>1. out' = Append(out, sending) /\ out \in Seq(Message) /\ sending \in Message
      BY <1>3 DEF SenderSends, ControlInv, TypeOK, NetTypeOK
    <3> QED
      BY <3>1, RequestsAppend
  <2>2. Requests(<<sending>>) \subseteq IF sending.type = "request" THEN {sending.seq} ELSE {}
    BY DEF Requests
  <2>3. BeingSent \subseteq BeingSent' \cup (handed' \cap Requests(out'))
    BY <1>3, <2>1, <2>2 DEF SenderSends, threadVars, BeingSent
  <2> QED
    BY <1>3, <2>3 DEF SenderSends, tableVars, EmptyHanded
<1>4. CASE SenderReports
  <2>1. BeingSent \subseteq BeingSent' \cup {sending.seq}
    BY <1>4 DEF SenderReports, threadVars, BeingSent, Requests
  <2> QED
    BY <1>4, <2>1 DEF SenderReports, Resolve, EmptyHanded
<1> QED
  BY <1>1, <1>2, <1>3, <1>4 DEF SenderStep

(* The path from the threads to the channel, kept by every step. *)
LEMMA NextPath ==
    ASSUME TypeOK, ControlInv, PathInv, [Next]_vars
    PROVE  PathInv'
<1>1. ASSUME NEW t \in Thread,
             ThreadStep(t) \/ ClientCalls(t) \/ HandlerCalls(t) \/ ClientCloses(t) \/ UnboxFails(t)
      PROVE  PathInv'
  BY <1>1, ThreadKeepsSends, SendKeptSafe
<1>2. CASE SenderStep
  BY <1>2, SenderMoves DEF PathInv, NoStrandedSend
<1>3. CASE \/ \E s \in SeqNo : Expire(s) \/ PeerAnswers(s)
           \/ PeerReceives \/ PeerShuts
           \/ \E r \in PeerRequest : PeerAsks(r) \/ PeerAsksClose(r)
  <2>1. PathKept
    BY <1>3 DEF Expire, PeerAnswers, PeerReceives, PeerShuts, PeerAsks, PeerAsksClose,
                PeerStep, threadVars, tableVars, sendVars, PathKept
  <2> QED
    BY <2>1, PathKeptSends, SendKeptSafe
<1>4. CASE UNCHANGED vars
  <2>1. PathKept
    BY <1>4 DEF vars, threadVars, tableVars, sendVars, PathKept
  <2> QED
    BY <2>1, PathKeptSends, SendKeptSafe
<1> QED
  BY <1>1, <1>2, <1>3, <1>4 DEF Next

(* No request is ever stranded on its way to the channel: also when sends fail
   and the connection is closed, a request whose callback is registered was
   given to the channel or still is with its caller or the send thread. *)
THEOREM NothingStranded == Spec => []NoStrandedSend
<1>1. Init => PathInv
  BY DEF Init, PathInv, NoStrandedSend, EmptyHanded
<1>2. TypeOK /\ ControlInv /\ PathInv /\ [Next]_vars => PathInv'
  BY NextPath
<1>3. PathInv => NoStrandedSend
  BY DEF PathInv
<1> QED
  BY <1>1, <1>2, <1>3, TypeCorrect, PTL DEF Spec

-----------------------------------------------------------------------------
(* NoLostRequest.  While the socket is open a request leaves one place of its way
   only for the next one. *)

(* the replies that receivers hold *)
InHands == {msg[t].seq : t \in {u \in Thread : msg[u].type = "reply"}}

(* the way of a request beyond the send thread, and back, or to where it got stuck *)
Beyond == Requests(out) \cup peerPending \cup Answers(in) \cup InHands
              \cup (IF peerEof THEN handed ELSE {}) \cup spoiled

HandsInv ==
    \A t \in Thread : /\ msg[t].type = "reply" => pc[t] \in {"release", "dispatch"}
                      /\ pc[t] = "drain" => ~sockOpen

LostInv ==
    /\ EmptyHanded /\ HandsInv
    /\ sockOpen => callbacks \subseteq BeingSent \cup Beyond

(* A step that leaves the way beyond the send thread alone. *)
BeyondKept ==
    /\ sockOpen' => sockOpen /\ in' = in
    /\ UNCHANGED <<out, peerPending, peerEof>>
    /\ \A t \in Thread : msg[t].type = "reply" => msg'[t] = msg[t]

(* Every operation of a thread but taking a message and dispatching a reply is such
   a step; the draining of a closed channel loses only what nobody waits for. *)
LEMMA BeyondIsKept ==
    ASSUME TypeOK, ControlInv, HandsInv, NEW t \in Thread,
           ThreadStep(t) \/ ClientCalls(t) \/ HandlerCalls(t) \/ ClientCloses(t) \/ UnboxFails(t),
           ~PollData(t), ~DispatchReply(t), ~UnboxFails(t)
    PROVE  BeyondKept /\ HandsInv'
<1>1. CASE ClientCalls(t)
  BY <1>1 DEF ClientCalls, Goto, netVars, BeyondKept, HandsInv, TypeOK, ThreadTypeOK
<1>2. CASE HandlerCalls(t)
  BY <1>2 DEF HandlerCalls, Goto, netVars, BeyondKept, HandsInv, TypeOK, ThreadTypeOK
<1>3. CASE SendRequest(t)
  BY <1>3 DEF SendRequest, Goto, netVars, BeyondKept, HandsInv, TypeOK, ThreadTypeOK
<1>4. CASE SendReply(t)
  BY <1>4 DEF SendReply, Goto, netVars, BeyondKept, HandsInv, TypeOK, ThreadTypeOK
<1>5. CASE HandlerReturns(t)
  BY <1>5 DEF HandlerReturns, Goto, netVars, BeyondKept, HandsInv, TypeOK, ThreadTypeOK
<1>6. CASE WaitDone(t)
  BY <1>6 DEF WaitDone, Goto, netVars, BeyondKept, HandsInv, TypeOK, ThreadTypeOK
<1>7. CASE ServeAllEnds(t)
  BY <1>7 DEF ServeAllEnds, Goto, netVars, BeyondKept, HandsInv, TypeOK, ThreadTypeOK
<1>8. CASE ServeEnter(t)
  BY <1>8 DEF ServeEnter, Goto, BecomeReceiver, WaitForReceiver, netVars, BeyondKept,
              HandsInv, TypeOK, ThreadTypeOK
<1>9. CASE ServeWoken(t)
  BY <1>9 DEF ServeWoken, Goto, BecomeReceiver, WaitForReceiver, netVars, BeyondKept,
              HandsInv, TypeOK, ThreadTypeOK
<1>10. CASE PollEnter(t)
  BY <1>10 DEF PollEnter, Goto, Received, EOF, NoMsg, netVars, BeyondKept, HandsInv, TypeOK,
               ThreadTypeOK
<1>11. CASE PollEOF(t)
  BY <1>11 DEF PollEOF, Goto, Received, EOF, netVars, BeyondKept, HandsInv, TypeOK,
               ThreadTypeOK
<1>12. CASE PollWoken(t)
  BY <1>12 DEF PollWoken, Goto, Received, NoMsg, netVars, BeyondKept, HandsInv, TypeOK,
               ThreadTypeOK
<1>13. CASE Release(t)
  BY <1>13 DEF Release, Goto, EOF, NoMsg, netVars, BeyondKept, HandsInv, TypeOK,
               ThreadTypeOK
<1>14. CASE DispatchRequest(t)
  BY <1>14 DEF DispatchRequest, Goto, NoMsg, netVars, BeyondKept, HandsInv, TypeOK,
               ThreadTypeOK
<1>15. CASE NotifyStream(t)
  BY <1>15 DEF NotifyStream, Goto, netVars, BeyondKept, HandsInv, TypeOK, ThreadTypeOK
<1>16. CASE NotifyAll(t)
  BY <1>16 DEF NotifyAll, Goto, netVars, BeyondKept, HandsInv, TypeOK, ThreadTypeOK
<1>17. CASE Raise(t)
  BY <1>17 DEF Raise, Goto, netVars, BeyondKept, HandsInv, TypeOK, ThreadTypeOK
<1>18. CASE ClientCloses(t)
  BY <1>18 DEF ClientCloses, Goto, netVars, BeyondKept, HandsInv, TypeOK, ThreadTypeOK
<1>19. CASE CloseOnEOF(t)
  BY <1>19 DEF CloseOnEOF, Goto, NoMsg, netVars, BeyondKept, HandsInv, TypeOK, ThreadTypeOK
<1>20. CASE CloseTest(t)
  BY <1>20 DEF CloseTest, Goto, CloseEnds, netVars, BeyondKept, HandsInv, TypeOK,
               ThreadTypeOK
<1>21. CASE CloseSet(t)
  BY <1>21 DEF CloseSet, Goto, netVars, BeyondKept, HandsInv, TypeOK, ThreadTypeOK
<1>22. CASE CleanupChannel(t)
  BY <1>22 DEF CleanupChannel, Goto, netVars, BeyondKept, HandsInv, TypeOK, ThreadTypeOK
<1>23. CASE CleanupDrain(t)
  BY <1>23 DEF CleanupDrain, Goto, netVars, BeyondKept, HandsInv, TypeOK, ThreadTypeOK
<1>24. CASE CleanupRoot(t)
  BY <1>24 DEF CleanupRoot, Goto, CleanupFails, netVars, BeyondKept, HandsInv, TypeOK,
               ThreadTypeOK
<1>25. CASE StopSending(t)
  BY <1>25 DEF StopSending, Goto, netVars, BeyondKept, HandsInv, TypeOK, ThreadTypeOK
<1>26. CASE JoinSender(t)
  BY <1>26 DEF JoinSender, Goto, netVars, BeyondKept, HandsInv, TypeOK, ThreadTypeOK
<1>27. CASE CleanupClear(t)
  BY <1>27 DEF CleanupClear, Goto, CleanupFails, CloseEnds, netVars, BeyondKept, HandsInv,
               TypeOK, ThreadTypeOK
<1> QED
  BY <1>1, <1>2, <1>3, <1>4, <1>5, <1>6, <1>7, <1>8, <1>9, <1>10, <1>11, <1>12, <1>13,
     <1>14, <1>15, <1>16, <1>17, <1>18, <1>19, <1>20, <1>21, <1>22, <1>23, <1>24, <1>25, <1>26, <1>27
     DEF ThreadStep

(* What could not be unboxed stays so. *)
LEMMA SpoiledStays ==
    ASSUME [Next]_vars
    PROVE  spoiled \subseteq spoiled'
<1>1. ASSUME NEW t \in Thread,
             ThreadStep(t) \/ ClientCalls(t) \/ HandlerCalls(t) \/ ClientCloses(t)
      PROVE  spoiled' = spoiled
  BY <1>1 DEF ThreadStep, ClientCalls, HandlerCalls, ClientCloses, SendRequest, SendReply,
              HandlerReturns, WaitDone, ServeAllEnds, ServeEnter, ServeWoken, PollEnter,
              PollData, PollEOF, PollWoken, Release, DispatchReply, DispatchRequest,
              NotifyStream, NotifyAll, Raise, CloseOnEOF, CloseTest, CloseSet, Issue,
              CleanupChannel, CleanupDrain, CleanupRoot, StopSending, JoinSender,
              CleanupClear, tableVars
<1>2. ASSUME NEW t \in Thread, UnboxFails(t)
      PROVE  spoiled \subseteq spoiled'
  BY <1>2 DEF UnboxFails
<1>3. CASE SenderStep
  BY <1>3 DEF SenderStep, SenderTake, SenderWoken, SenderSends, SenderFails, SenderReports,
              SenderNotifies, tableVars
<1>4. CASE \/ \E s \in SeqNo : Expire(s) \/ PeerAnswers(s)
           \/ PeerReceives \/ PeerShuts
           \/ \E r \in PeerRequest : PeerAsks(r) \/ PeerAsksClose(r)
           \/ UNCHANGED vars
  BY <1>4 DEF Expire, PeerAnswers, PeerReceives, PeerShuts, PeerAsks, PeerAsksClose, PeerStep,
              vars, tableVars
<1> QED
  BY <1>1, <1>2, <1>3, <1>4 DEF Next

(* The receiver takes a reply; dispatching it takes its callback, or does not and
   the request is spoiled. *)
LEMMA LostReceiver ==
    ASSUME TypeOK, ControlInv, LostInv, NEW t \in Thread,
           PollData(t) \/ DispatchReply(t) \/ UnboxFails(t)
    PROVE  LostInv'
<1>1. SendKept
  BY ThreadKeepsSends DEF ThreadStep
<1>2. EmptyHanded'
  BY <1>1 DEF SendKept, LostInv, EmptyHanded
<1>3. /\ UNCHANGED <<sockOpen, out, peerPending, peerEof, handed>>
      /\ callbacks' \subseteq callbacks
      /\ \A u \in Thread : u # t => msg'[u] = msg[u] /\ pc'[u] = pc[u]
  BY DEF PollData, DispatchReply, UnboxFails, Received, Resolve, Goto, tableVars, sendVars,
         netVars, TypeOK, ThreadTypeOK
<1>4. spoiled \subseteq spoiled'
  BY SpoiledStays DEF Next, ThreadStep
<1>5. CASE PollData(t)
  <2>1. pc'[t] = "release" /\ pc[t] = "polling" /\ in \in Seq(Message) /\ in # <<>>
    BY <1>5 DEF PollData, Received, Goto, TypeOK, ThreadTypeOK, NetTypeOK
  <2>2. HandsInv'
    BY <1>3, <2>1 DEF LostInv, HandsInv
  <2>3. ASSUME sockOpen
        PROVE  Answers(in) \cup InHands \subseteq Answers(in') \cup InHands'
    <3>1. in' = Tail(in) /\ msg'[t] = Head(in)
      BY <1>5, <2>3 DEF PollData, Received, TypeOK, ThreadTypeOK
    <3>2. Answers(in) = SeqsOf(in, "reply") /\ Answers(in') = SeqsOf(in', "reply")
      BY DEF Answers, SeqsOf
    <3>3. Answers(in) = Answers(in') \cup (IF Head(in).type = "reply" THEN {Head(in).seq} ELSE {})
      BY <2>1, <3>1, <3>2, SeqsTail
    <3>4. InHands \subseteq InHands'
      BY <1>3, <2>1 DEF InHands, LostInv, HandsInv
    <3>5. Head(in).type = "reply" => Head(in).seq \in InHands'
      BY <3>1 DEF InHands
    <3> QED
      BY <3>3, <3>4, <3>5
  <2>4. sockOpen => Beyond \subseteq Beyond'
    BY <1>3, <1>4, <2>3 DEF Beyond
  <2> QED
    BY <1>1, <1>2, <1>3, <2>2, <2>4 DEF LostInv, SendKept
<1>6. CASE DispatchReply(t)
  <2>1. in' = in /\ callbacks' = callbacks \ {msg[t].seq} /\ msg'[t] = NoMsg /\ pc'[t] = "notify"
    BY <1>6 DEF DispatchReply, Resolve, Goto, netVars, TypeOK, ThreadTypeOK
  <2>2. HandsInv'
    BY <1>3, <2>1 DEF LostInv, HandsInv, NoMsg
  <2>3. InHands \subseteq InHands' \cup {msg[t].seq}
    BY <1>3 DEF InHands
  <2>4. Beyond \subseteq Beyond' \cup {msg[t].seq}
    BY <1>3, <1>4, <2>1, <2>3 DEF Beyond
  <2> QED
    BY <1>1, <1>2, <1>3, <2>1, <2>2, <2>4 DEF LostInv, SendKept
<1>7. CASE UnboxFails(t)
  <2>1. /\ in' = in /\ spoiled' = spoiled \cup {msg[t].seq} /\ msg'[t] = NoMsg
        /\ pc'[t] = "raise_attr"
    BY <1>7 DEF UnboxFails, Goto, netVars, TypeOK, ThreadTypeOK
  <2>2. HandsInv'
    BY <1>3, <2>1 DEF LostInv, HandsInv, NoMsg
  <2>3. InHands \subseteq InHands' \cup {msg[t].seq}
    BY <1>3 DEF InHands
  <2>4. Beyond \subseteq Beyond'
    BY <1>3, <2>1, <2>3 DEF Beyond
  <2> QED
    BY <1>1, <1>2, <1>3, <2>1, <2>2, <2>4 DEF LostInv, SendKept
<1> QED
  BY <1>5, <1>6, <1>7

(* The way beyond the send thread is kept by all other steps of threads. *)
LEMMA LostThread ==
    ASSUME TypeOK, ControlInv, LostInv, NEW t \in Thread,
           ThreadStep(t) \/ ClientCalls(t) \/ HandlerCalls(t) \/ ClientCloses(t) \/ UnboxFails(t)
    PROVE  LostInv'
<1>1. CASE PollData(t) \/ DispatchReply(t) \/ UnboxFails(t)
  BY <1>1, LostReceiver
<1>2. CASE ~(PollData(t) \/ DispatchReply(t) \/ UnboxFails(t))
  <2>1. SendKept
    BY ThreadKeepsSends
  <2>2. BeyondKept /\ HandsInv'
    BY <1>2, BeyondIsKept DEF LostInv
  <2>3. InHands \subseteq InHands'
    BY <2>2 DEF BeyondKept, InHands
  <2>4. spoiled \subseteq spoiled'
    BY SpoiledStays DEF Next
  <2>5. sockOpen' => Beyond \subseteq Beyond'
    BY <2>1, <2>2, <2>3, <2>4 DEF BeyondKept, SendKept, Beyond
  <2> QED
    BY <2>1, <2>2, <2>5 DEF LostInv, SendKept, BeyondKept, EmptyHanded
<1> QED
  BY <1>1, <1>2

(* The send thread puts what it takes on the wire while the socket is open. *)
LEMMA LostSender ==
    ASSUME TypeOK, ControlInv, LostInv, SenderStep
    PROVE  LostInv'
<1>1. /\ callbacks' \subseteq callbacks /\ handed \subseteq handed' /\ EmptyHanded'
      /\ callbacks' \cap BeingSent \subseteq BeingSent' \cup (handed' \cap Requests(out'))
  BY SenderMoves DEF LostInv
<1>2. /\ pc' = pc /\ msg' = msg /\ in' = in /\ peerPending' = peerPending /\ peerEof' = peerEof
      /\ sockOpen' => sockOpen
  BY DEF SenderStep, SenderTake, SenderWoken, SenderSends, SenderFails, SenderReports,
         SenderNotifies, threadVars, netVars
<1>3. Requests(out) \subseteq Requests(out')
  <2>1. CASE SenderSends
    <3>1. out' = Append(out, sending) /\ out \in Seq(Message) /\ sending \in Message
      BY <2>1 DEF SenderSends, ControlInv, TypeOK, NetTypeOK
    <3> QED
      BY <3>1, RequestsAppend
  <2>2. CASE ~SenderSends
    BY <2>2 DEF SenderStep, SenderTake, SenderWoken, SenderFails, SenderReports, SenderNotifies,
                netVars
  <2> QED
    BY <2>1, <2>2
<1>4. spoiled \subseteq spoiled'
  BY SpoiledStays DEF Next
<1>5. Beyond \subseteq Beyond' /\ Requests(out') \subseteq Beyond'
  BY <1>1, <1>2, <1>3, <1>4 DEF Beyond, InHands
<1> QED
  BY <1>1, <1>2, <1>5 DEF LostInv, HandsInv

(* The peer passes on what it receives and what it answers. *)
LEMMA LostPeer ==
    ASSUME TypeOK, ControlInv, LostInv,
           \/ \E s \in SeqNo : Expire(s) \/ PeerAnswers(s)
           \/ PeerReceives \/ PeerShuts
           \/ \E r \in PeerRequest : PeerAsks(r) \/ PeerAsksClose(r)
    PROVE  LostInv'
<1>1. /\ UNCHANGED <<callbacks, pc, await, msg, sockOpen, sendQueue, sending, sender, handed>>
      /\ peerEof => peerEof'
  BY DEF Expire, PeerAnswers, PeerReceives, PeerShuts, PeerAsks, PeerAsksClose,
         PeerStep, threadVars, tableVars, sendVars, netVars
<1>2. BeingSent' = BeingSent /\ InHands' = InHands
  BY <1>1 DEF BeingSent, InHands
<1>3. out \in Seq(Message) /\ in \in Seq(Message)
  BY DEF TypeOK, NetTypeOK
<1>4. Requests(out) \cup peerPending \cup Answers(in)
         \subseteq Requests(out') \cup peerPending' \cup Answers(in')
  <2>1. CASE PeerReceives
    <3>1. out # <<>> /\ out' = Tail(out) /\ in' = in
      BY <2>1 DEF PeerReceives, PeerStep
    <3>2. Requests(out) = Requests(out') \cup Requests(<<Head(out)>>)
      BY <1>3, <3>1, RequestsTail
    <3>3. peerPending \cup Requests(<<Head(out)>>) \subseteq peerPending'
      BY <2>1 DEF PeerReceives, PeerStep, Requests
    <3> QED
      BY <3>1, <3>2, <3>3
  <2>2. ASSUME NEW m \in Message, in' = Append(in, m)
        PROVE  Answers(in') = Answers(in) \cup (IF m.type = "reply" THEN {m.seq} ELSE {})
    <3>1. Answers(in) = SeqsOf(in, "reply") /\ Answers(in') = SeqsOf(in', "reply")
      BY DEF Answers, SeqsOf
    <3> QED
      BY <1>3, <2>2, <3>1, SeqsAppend
  <2>3. ASSUME NEW s \in SeqNo, PeerAnswers(s)
        PROVE  Requests(out) \cup peerPending \cup Answers(in)
                  \subseteq Requests(out') \cup peerPending' \cup Answers(in')
    <3>1. Reply(s) \in Message /\ Reply(s).type = "reply" /\ Reply(s).seq = s
      BY DEF Reply, Message, AnySeq
    <3>2. out' = out /\ peerPending' = peerPending \ {s} /\ in' = Append(in, Reply(s))
      BY <2>3 DEF PeerAnswers, PeerStep
    <3> QED
      BY <2>2, <3>1, <3>2
  <2>4. ASSUME NEW r \in PeerRequest, PeerAsks(r) \/ PeerAsksClose(r)
        PROVE  Requests(out) \cup peerPending \cup Answers(in)
                  \subseteq Requests(out') \cup peerPending' \cup Answers(in')
    <3>1. Call(r) \in Message /\ CloseReq(r) \in Message
      BY DEF Call, CloseReq, Message, AnySeq
    <3>2. /\ out' = out /\ peerPending' = peerPending
          /\ in' = Append(in, Call(r)) \/ in' = Append(in, CloseReq(r))
      BY <2>4 DEF PeerAsks, PeerAsksClose, PeerStep
    <3> QED
      BY <2>2, <3>1, <3>2
  <2>5. CASE (\E s \in SeqNo : Expire(s)) \/ PeerShuts
    BY <2>5 DEF Expire, PeerShuts, PeerStep, netVars
  <2> QED
    BY <2>1, <2>3, <2>4, <2>5
<1>5. spoiled \subseteq spoiled'
  BY SpoiledStays DEF Next
<1>6. Beyond \subseteq Beyond'
  BY <1>1, <1>2, <1>4, <1>5 DEF Beyond
<1> QED
  BY <1>1, <1>2, <1>6 DEF LostInv, HandsInv, EmptyHanded

(* While the socket is open a request whose callback is registered is somewhere on
   its way, with the peer, or its reply is in the hands of a receiver. *)
THEOREM NothingLost == Spec => []NoLostRequest
<1>1. Init => LostInv
  BY DEF Init, LostInv, EmptyHanded, HandsInv, NoMsg
<1>2. TypeOK /\ ControlInv /\ LostInv /\ [Next]_vars => LostInv'
  <2>1. CASE UNCHANGED vars
    BY <2>1 DEF vars, threadVars, tableVars, sendVars, netVars, LostInv, EmptyHanded, HandsInv,
                BeingSent, Beyond, InHands
  <2>2. ASSUME TypeOK, ControlInv, LostInv, Next
        PROVE  LostInv'
    BY <2>2, LostThread, LostSender, LostPeer DEF Next
  <2> QED
    BY <2>1, <2>2
<1>3. LostInv => NoLostRequest
  <2> SUFFICES ASSUME LostInv, sockOpen
               PROVE  callbacks \subseteq BeingSent \cup Requests(out) \cup peerPending \cup Answers(in)
                         \cup {msg[t].seq : t \in {u \in Thread : msg[u] \notin {NoMsg, EOF}}}
                         \cup (IF peerEof THEN handed ELSE {}) \cup spoiled
    BY DEF NoLostRequest
  <2>1. InHands \subseteq {msg[t].seq : t \in {u \in Thread : msg[u] \notin {NoMsg, EOF}}}
    BY DEF InHands, NoMsg, EOF
  <2> QED
    BY <2>1 DEF LostInv, Beyond
<1> QED
  BY <1>1, <1>2, <1>3, TypeCorrect, PTL DEF Spec

-----------------------------------------------------------------------------
(* ClosedReleases.  As long as on_disconnect has been called once there is one
   thread between that call and the end of the cleanup. *)

Cleaners == {t \in Thread : pc[t] \in {"stop", "join", "clear"}}

(* the requests of the threads that are inside of __send *)
Asking == {await[t] : t \in {u \in Thread : pc[u] = "send"}}

ChannelInv ==
    /\ sender = "end" => ~sendLoop
    /\ \A t \in Thread : pc[t] \in {"drain", "disconnect", "stop", "join", "clear"} => ~sockOpen

CleanInv ==
    /\ disconnects = 0 => alive /\ worker /\ Cleaners = {}
    /\ disconnects = 1 =>
          /\ \A t, u \in Cleaners : t = u
          /\ \A t \in Thread : (pc[t] = "stop" => worker) /\ (pc[t] = "clear" => sender = "end")
          /\ ~alive => Cleaners = {} /\ ~sockOpen /\ sender = "end" /\ callbacks \subseteq Asking

(* A step that is no part of a cleanup. *)
CleanKept ==
    /\ UNCHANGED <<alive, disconnects, worker, sender, sendLoop>>
    /\ sockOpen' => sockOpen
    /\ \A t \in Thread : pc'[t] \in {"drain", "disconnect", "stop", "join", "clear"} => pc'[t] = pc[t]
    /\ \A t \in Thread : pc[t] \in {"stop", "join", "clear"} => pc'[t] = pc[t]

(* Every other operation of a thread is such a step. *)
LEMMA CleanIsKept ==
    ASSUME TypeOK, ControlInv, NEW t \in Thread,
           ThreadStep(t) \/ ClientCalls(t) \/ HandlerCalls(t) \/ ClientCloses(t) \/ UnboxFails(t),
           ~CleanupChannel(t), ~CleanupDrain(t), ~CleanupRoot(t), ~StopSending(t),
           ~JoinSender(t), ~CleanupClear(t)
    PROVE  CleanKept
<1>1. CASE ClientCalls(t)
  BY <1>1 DEF ClientCalls, Goto, closeVars, sendVars, netVars, CleanKept, TypeOK,
              ThreadTypeOK
<1>2. CASE HandlerCalls(t)
  BY <1>2 DEF HandlerCalls, Goto, closeVars, sendVars, netVars, CleanKept, TypeOK,
              ThreadTypeOK
<1>3. CASE SendRequest(t)
  BY <1>3 DEF SendRequest, Goto, Enqueue, closeVars, sendVars, netVars, CleanKept, TypeOK,
              ThreadTypeOK
<1>4. CASE SendReply(t)
  BY <1>4 DEF SendReply, Goto, Enqueue, closeVars, sendVars, netVars, CleanKept, TypeOK,
              ThreadTypeOK
<1>5. CASE HandlerReturns(t)
  BY <1>5 DEF HandlerReturns, Goto, closeVars, sendVars, netVars, CleanKept, TypeOK,
              ThreadTypeOK
<1>6. CASE WaitDone(t)
  BY <1>6 DEF WaitDone, Goto, closeVars, sendVars, netVars, CleanKept, TypeOK, ThreadTypeOK
<1>7. CASE ServeAllEnds(t)
  BY <1>7 DEF ServeAllEnds, Goto, closeVars, sendVars, netVars, CleanKept, TypeOK,
              ThreadTypeOK
<1>8. CASE ServeEnter(t)
  BY <1>8 DEF ServeEnter, Goto, BecomeReceiver, WaitForReceiver, closeVars, sendVars,
              netVars, CleanKept, TypeOK, ThreadTypeOK
<1>9. CASE ServeWoken(t)
  BY <1>9 DEF ServeWoken, Goto, BecomeReceiver, WaitForReceiver, closeVars, sendVars,
              netVars, CleanKept, TypeOK, ThreadTypeOK
<1>10. CASE PollEnter(t)
  BY <1>10 DEF PollEnter, Goto, Received, closeVars, sendVars, netVars, CleanKept, TypeOK,
               ThreadTypeOK
<1>11. CASE PollData(t)
  BY <1>11 DEF PollData, Goto, Received, closeVars, sendVars, netVars, CleanKept, TypeOK,
               ThreadTypeOK
<1>12. CASE PollEOF(t)
  BY <1>12 DEF PollEOF, Goto, Received, closeVars, sendVars, netVars, CleanKept, TypeOK,
               ThreadTypeOK
<1>13. CASE PollWoken(t)
  BY <1>13 DEF PollWoken, Goto, Received, closeVars, sendVars, netVars, CleanKept, TypeOK,
               ThreadTypeOK
<1>14. CASE Release(t)
  BY <1>14 DEF Release, Goto, closeVars, sendVars, netVars, CleanKept, TypeOK, ThreadTypeOK
<1>15. CASE DispatchReply(t)
  BY <1>15 DEF DispatchReply, Goto, closeVars, sendVars, netVars, CleanKept, TypeOK,
               ThreadTypeOK
<1>16. CASE DispatchRequest(t)
  BY <1>16 DEF DispatchRequest, Goto, closeVars, sendVars, netVars, CleanKept, TypeOK,
               ThreadTypeOK
<1>17. CASE NotifyStream(t)
  BY <1>17 DEF NotifyStream, Goto, closeVars, sendVars, netVars, CleanKept, TypeOK,
               ThreadTypeOK
<1>18. CASE NotifyAll(t)
  BY <1>18 DEF NotifyAll, Goto, closeVars, sendVars, netVars, CleanKept, TypeOK,
               ThreadTypeOK
<1>19. CASE Raise(t)
  BY <1>19 DEF Raise, Goto, closeVars, sendVars, netVars, CleanKept, TypeOK, ThreadTypeOK
<1>20. CASE ClientCloses(t)
  BY <1>20 DEF ClientCloses, Goto, closeVars, sendVars, netVars, CleanKept, TypeOK,
               ThreadTypeOK
<1>21. CASE CloseOnEOF(t)
  BY <1>21 DEF CloseOnEOF, Goto, closeVars, sendVars, netVars, CleanKept, TypeOK,
               ThreadTypeOK
<1>22. CASE CloseTest(t)
  BY <1>22 DEF CloseTest, Goto, CloseEnds, closeVars, sendVars, netVars, CleanKept, TypeOK,
               ThreadTypeOK
<1>23. CASE CloseSet(t)
  BY <1>23 DEF CloseSet, Goto, closeVars, sendVars, netVars, CleanKept, TypeOK,
               ThreadTypeOK
<1>24. CASE UnboxFails(t)
  BY <1>24 DEF UnboxFails, Goto, closeVars, sendVars, netVars, CleanKept, TypeOK,
               ThreadTypeOK
<1> QED
  BY <1>1, <1>2, <1>3, <1>4, <1>5, <1>6, <1>7, <1>8, <1>9, <1>10, <1>11, <1>12,
     <1>13, <1>14, <1>15, <1>16, <1>17, <1>18, <1>19, <1>20, <1>21, <1>22, <1>23, <1>24
     DEF ThreadStep

(* Once nothing can be sent, a callback is only there for a caller in __send. *)
LEMMA CallersAsk ==
    ASSUME TypeOK, ControlInv, ~sendLoop, NEW t \in Thread,
           ThreadStep(t) \/ ClientCalls(t) \/ HandlerCalls(t) \/ ClientCloses(t) \/ UnboxFails(t),
           callbacks \subseteq Asking
    PROVE  callbacks' \subseteq Asking'
<1>1. CASE ClientCalls(t) \/ HandlerCalls(t) \/ CloseSet(t)
  <2>1. Issue(t) /\ Goto(t, "send") /\ pc[t] # "send"
    BY <1>1 DEF ClientCalls, HandlerCalls, CloseSet
  <2>2. Asking \cup {seqcounter} \subseteq Asking'
    BY <2>1 DEF Issue, Goto, Asking, TypeOK, ThreadTypeOK
  <2> QED
    BY <2>1, <2>2 DEF Issue
<1>2. CASE SendRequest(t)
  <2>1. callbacks' = callbacks \ {await[t]}
    BY <1>2 DEF SendRequest
  <2>2. Asking \subseteq Asking' \cup {await[t]}
    BY <1>2 DEF SendRequest, Goto, Asking, TypeOK, ThreadTypeOK
  <2> QED
    BY <2>1, <2>2
<1>3. CASE SendReply(t)
  <2>1. callbacks' = callbacks
    BY <1>3 DEF SendReply, tableVars
  <2>2. Asking \subseteq Asking'
    BY <1>3 DEF SendReply, Goto, Pop, Asking, TypeOK, ThreadTypeOK
  <2> QED
    BY <2>1, <2>2
<1>4. CASE ~(ClientCalls(t) \/ HandlerCalls(t) \/ CloseSet(t) \/ SendRequest(t) \/ SendReply(t))
  <2>1. PathKept
    BY <1>4, PathIsKept
  <2>2. Asking \subseteq Asking'
    BY <2>1 DEF PathKept, Asking
  <2> QED
    BY <2>1, <2>2 DEF PathKept
<1> QED
  BY <1>1, <1>2, <1>3, <1>4

(* A thread that does not clean up leaves the cleanup of another one alone. *)
LEMMA CleanKeptSafe ==
    ASSUME ChannelInv, CleanInv, CleanKept,
           ~sendLoop /\ callbacks \subseteq Asking => callbacks' \subseteq Asking'
    PROVE  ChannelInv' /\ CleanInv'
<1>1. ChannelInv'
  BY DEF CleanKept, ChannelInv
<1>2. Cleaners' = Cleaners
  BY DEF CleanKept, Cleaners
<1>3. CleanInv'
  BY <1>2 DEF CleanKept, CleanInv, ChannelInv
<1> QED
  BY <1>1, <1>3

(* The steps of a cleanup. *)
LEMMA CleanSteps ==
    ASSUME TypeOK, ControlInv, ChannelInv, CleanInv, NEW t \in Thread,
           \/ CleanupChannel(t) \/ CleanupDrain(t) \/ CleanupRoot(t)
           \/ StopSending(t) \/ JoinSender(t) \/ CleanupClear(t)
    PROVE  ChannelInv' /\ CleanInv'
<1>1. sender' = sender /\ (sendLoop' => sendLoop) /\ (sockOpen' => sockOpen)
  BY DEF CleanupChannel, CleanupDrain, CleanupRoot, StopSending, JoinSender, CleanupClear,
         sendVars, netVars
<1>2. \A u \in Thread : u # t => pc'[u] = pc[u]
  BY DEF CleanupChannel, CleanupDrain, CleanupRoot, StopSending, JoinSender, CleanupClear,
         CleanupFails, CloseEnds, Goto, TypeOK, ThreadTypeOK
<1>3. ~sockOpen'
  BY DEF CleanupChannel, CleanupDrain, CleanupRoot, StopSending, JoinSender, CleanupClear,
         ChannelInv, netVars
<1>4. ChannelInv'
  BY <1>1, <1>3 DEF ChannelInv
<1>5. callbacks \subseteq Asking /\ sender = "end" => callbacks' \subseteq Asking'
  BY CallersAsk DEF ChannelInv, ThreadStep
<1>6. CASE CleanupChannel(t) \/ CleanupDrain(t)
  <2>1. UNCHANGED <<alive, disconnects, worker>>
    BY <1>6 DEF CleanupChannel, CleanupDrain, closeVars
  <2>2. pc[t] \in {"cleanup", "drain"} /\ pc'[t] \in {"drain", "disconnect"}
    BY <1>6 DEF CleanupChannel, CleanupDrain, Goto, TypeOK, ThreadTypeOK
  <2>3. Cleaners' = Cleaners
    BY <1>2, <2>2 DEF Cleaners
  <2> QED
    BY <1>1, <1>2, <1>3, <1>4, <1>5, <2>1, <2>2, <2>3 DEF CleanInv
<1>7. CASE CleanupRoot(t)
  <2>1. worker' = worker /\ alive' = alive /\ pc[t] = "disconnect"
    BY <1>7 DEF CleanupRoot
  <2>2. CASE alive
    <3>1. disconnects' = disconnects + 1 /\ pc'[t] = "stop" /\ disconnects \in Nat
      BY <1>7, <2>2 DEF CleanupRoot, Goto, TypeOK, ThreadTypeOK, CloseTypeOK
    <3>2. disconnects' # 0 /\ (disconnects' = 1 => disconnects = 0)
      BY <3>1
    <3>3. disconnects = 0 => Cleaners' = {t} /\ worker /\ \A u \in Thread : pc'[u] # "clear"
      BY <1>2, <2>1, <3>1 DEF CleanInv, Cleaners
    <3>4. disconnects = 0 => \A u \in Thread : pc'[u] = "stop" => worker'
      BY <2>1, <3>3
    <3> QED
      BY <1>4, <2>1, <2>2, <3>2, <3>3, <3>4 DEF CleanInv
  <2>3. CASE ~alive
    <3>1. disconnects' = disconnects /\ pc'[t] \in {"reply", "raise_attr"}
      BY <1>7, <2>3 DEF CleanupRoot, CleanupFails, Goto, TypeOK, ThreadTypeOK
    <3>2. Cleaners' = Cleaners
      BY <1>2, <2>1, <3>1 DEF Cleaners
    <3> QED
      BY <1>1, <1>2, <1>3, <1>4, <1>5, <2>1, <3>1, <3>2 DEF CleanInv
  <2> QED
    BY <2>2, <2>3
<1>8. CASE StopSending(t)
  <2>1. /\ alive' = alive /\ disconnects' = disconnects /\ pc[t] = "stop"
        /\ pc'[t] = IF worker THEN "join" ELSE "clear"
    BY <1>8 DEF StopSending, Goto, TypeOK, ThreadTypeOK
  <2>2. Cleaners' = Cleaners /\ t \in Cleaners
    BY <1>2, <2>1 DEF Cleaners
  <2>3. disconnects = 1 => worker /\ \A u \in Thread : u # t => pc[u] \notin {"stop", "clear"}
    BY <2>1, <2>2 DEF CleanInv, Cleaners
  <2>4. disconnects = 1 => \A u \in Thread : pc'[u] \notin {"stop", "clear"}
    BY <1>2, <2>1, <2>3
  <2> QED
    BY <1>4, <2>1, <2>2, <2>4 DEF CleanInv
<1>9. CASE JoinSender(t)
  <2>1. /\ UNCHANGED <<alive, disconnects, worker>> /\ pc[t] = "join" /\ pc'[t] = "clear"
        /\ sender = "end"
    BY <1>9 DEF JoinSender, Goto, closeVars, TypeOK, ThreadTypeOK
  <2>2. Cleaners' = Cleaners
    BY <1>2, <2>1 DEF Cleaners
  <2> QED
    BY <1>1, <1>2, <1>3, <1>4, <1>5, <2>1, <2>2 DEF CleanInv
<1>10. CASE CleanupClear(t)
  <2>1. /\ alive' = FALSE /\ disconnects' = disconnects /\ callbacks' = {} /\ worker' = worker
        /\ pc[t] = "clear" /\ pc'[t] \notin {"stop", "join", "clear"}
    BY <1>10 DEF CleanupClear, CleanupFails, CloseEnds, Goto, TypeOK, ThreadTypeOK
  <2>2. t \in Cleaners /\ Cleaners' = Cleaners \ {t}
    BY <1>2, <2>1 DEF Cleaners
  <2>3. disconnects # 0
    BY <2>2 DEF CleanInv
  <2>4. disconnects = 1 => Cleaners' = {} /\ sender = "end"
    BY <2>1, <2>2 DEF CleanInv
  <2>5. Cleaners' = {} => \A u \in Thread : pc'[u] \notin {"stop", "clear"}
    BY DEF Cleaners
  <2> QED
    BY <1>1, <1>3, <1>4, <2>1, <2>3, <2>4, <2>5 DEF CleanInv
<1> QED
  BY <1>6, <1>7, <1>8, <1>9, <1>10

(* "closes the connection, releasing all held resources": when one thread has
   cleaned up, the socket is closed, the send thread has ended and the only callbacks
   left are those of callers about to be refused by __send. *)
THEOREM OneCleanupReleases == Spec => []ClosedReleases
<1>1. Init => ChannelInv /\ CleanInv
  BY DEF Init, ChannelInv, CleanInv, Cleaners
<1>2. TypeOK /\ ControlInv /\ ChannelInv /\ CleanInv /\ [Next]_vars => ChannelInv' /\ CleanInv'
  <2> SUFFICES ASSUME TypeOK, ControlInv, ChannelInv, CleanInv, [Next]_vars
               PROVE  ChannelInv' /\ CleanInv'
    OBVIOUS
  <2>1. ASSUME NEW t \in Thread,
               ThreadStep(t) \/ ClientCalls(t) \/ HandlerCalls(t) \/ ClientCloses(t) \/ UnboxFails(t)
        PROVE  ChannelInv' /\ CleanInv'
    <3>1. CASE \/ CleanupChannel(t) \/ CleanupDrain(t) \/ CleanupRoot(t)
               \/ StopSending(t) \/ JoinSender(t) \/ CleanupClear(t)
      BY <3>1, CleanSteps
    <3>2. CASE ~(\/ CleanupChannel(t) \/ CleanupDrain(t) \/ CleanupRoot(t)
                 \/ StopSending(t) \/ JoinSender(t) \/ CleanupClear(t))
      BY <2>1, <3>2, CleanIsKept, CleanKeptSafe, CallersAsk
    <3> QED
      BY <3>1, <3>2
  <2>2. CASE SenderStep
    <3>1. /\ sender # "end" /\ (sender' = "end" => ~sendLoop') /\ (sockOpen' => sockOpen)
          /\ pc' = pc /\ UNCHANGED <<alive, disconnects, worker>>
      BY <2>2 DEF SenderStep, SenderTake, SenderWoken, SenderSends, SenderFails, SenderReports,
                  SenderNotifies, threadVars, closeVars, netVars
    <3>2. Cleaners' = Cleaners
      BY <3>1 DEF Cleaners
    <3> QED
      BY <3>1, <3>2 DEF ChannelInv, CleanInv
  <2>3. CASE \/ \E s \in SeqNo : Expire(s) \/ PeerAnswers(s)
             \/ PeerReceives \/ PeerShuts
             \/ \E r \in PeerRequest : PeerAsks(r) \/ PeerAsksClose(r)
    <3>1. CleanKept /\ pc' = pc /\ await' = await /\ callbacks' = callbacks
      BY <2>3 DEF Expire, PeerAnswers, PeerReceives, PeerShuts, PeerAsks, PeerAsksClose,
                  PeerStep, threadVars, tableVars, closeVars, sendVars, netVars, CleanKept
    <3> QED
      BY <3>1, CleanKeptSafe DEF Asking
  <2>4. CASE UNCHANGED vars
    <3>1. CleanKept /\ pc' = pc /\ await' = await /\ callbacks' = callbacks
      BY <2>4 DEF vars, threadVars, tableVars, closeVars, sendVars, netVars, CleanKept
    <3> QED
      BY <3>1, CleanKeptSafe DEF Asking
  <2> QED
    BY <2>1, <2>2, <2>3, <2>4 DEF Next
<1>3. CleanInv => ClosedReleases
  BY DEF CleanInv, ClosedReleases, Asking
<1> QED
  BY <1>1, <1>2, <1>3, TypeCorrect, PTL DEF Spec

-----------------------------------------------------------------------------
(* OwnReply and ResultIsFinal.  A request goes through the connection once: its
   seq is with the thread that asks, in the send queue, with the send thread, on
   the wire, with the peer, on its way back, in the hands of the receiver, and at
   last the result, and in one of these places at a time. *)

(* how far a request has come *)
Stage == {"new", "asked", "queued", "sending", "sent", "pending", "answered", "taken", "done"}
Sent  == {"sent", "pending", "answered", "taken", "done"}

Journey(stage) ==
    /\ \A s \in Nat : s >= seqcounter => stage[s] = "new"
    /\ \A t \in Thread : pc[t] = "send" => stage[await[t]] = "asked"
    /\ \A s \in SeqsOf(sendQueue, "request") : stage[s] = "queued"
    /\ sending.type = "request" => stage[sending.seq] = "sending"
    /\ \A s \in SeqsOf(out, "request") : stage[s] = "sent"
    /\ \A s \in peerPending : stage[s] = "pending"
    /\ \A s \in SeqsOf(in, "reply") : stage[s] = "answered"
    /\ \A t \in Thread : msg[t].type = "reply" => stage[msg[t].seq] = "taken"
    /\ \A s \in SeqNo : result[s] = s => stage[s] = "done"
    /\ \A s \in Nat : stage[s] \in Sent => s \in handed

JourneyInv == \E stage \in [Nat -> Stage] : Journey(stage)

OnceInv ==
    /\ \A t, u \in Thread : pc[t] = "send" /\ pc[u] = "send" /\ await[t] = await[u] => t = u
    /\ \A t, u \in Thread :
          msg[t].type = "reply" /\ msg[u].type = "reply" /\ msg[t].seq = msg[u].seq => t = u
    /\ AtMostOnce(sendQueue, "request") /\ AtMostOnce(out, "request") /\ AtMostOnce(in, "reply")

FinalInv ==
    /\ \A s \in SeqNo : result[s] # Unset => s \notin callbacks /\ s < seqcounter
    /\ \A s \in SeqNo : result[s] \in {Unset, SendFailed, s}
    /\ \A s \in callbacks : s < seqcounter

ReplyInv == JourneyInv /\ OnceInv /\ FinalInv

(* Every seq is a natural number. *)
LEMMA SeqsAreNumbers ==
    ASSUME TypeOK, ControlInv
    PROVE  /\ SeqNo \subseteq Nat /\ AnySeq \subseteq Nat /\ seqcounter \in Nat
           /\ \A t \in Thread : pc[t] = "send" => await[t] \in SeqNo
           /\ SeqsOf(sendQueue, "request") \subseteq Nat /\ SeqsOf(out, "request") \subseteq Nat
           /\ SeqsOf(in, "reply") \subseteq Nat /\ peerPending \subseteq Nat
           /\ sending.type = "request" => sending.seq \in Nat
           /\ \A t \in Thread : msg[t].type = "reply" => msg[t].seq \in Nat
<1>1. SeqNo \subseteq Nat /\ AnySeq \subseteq Nat /\ seqcounter \in Nat
  BY SeqNoType, ConnectionAssumption DEF AnySeq, TypeOK, TableTypeOK
<1>2. \A m \in Message : m.seq \in Nat
  BY <1>1 DEF Message
<1>3. ASSUME NEW q \in Seq(Message), NEW type
      PROVE  SeqsOf(q, type) \subseteq Nat
  BY <1>2 DEF SeqsOf
<1>4. sending.type = "request" => sending.seq \in Nat
  BY <1>2 DEF TypeOK, SendTypeOK, NoMsg
<1>5. \A t \in Thread : msg[t].type = "reply" => msg[t].seq \in Nat
  BY <1>2 DEF TypeOK, ThreadTypeOK, NoMsg, EOF
<1> QED
  BY <1>1, <1>3, <1>4, <1>5 DEF TypeOK, NetTypeOK, SendTypeOK, ControlInv

(* No seq of the type is added to a queue, and none twice. *)
Fewer(q, r, type) ==
    SeqsOf(r, type) \subseteq SeqsOf(q, type) /\ (AtMostOnce(q, type) => AtMostOnce(r, type))

(* A step that takes no request further: it may only drop one. *)
StagesKept ==
    /\ Fewer(sendQueue, sendQueue', "request")
    /\ Fewer(out, out', "request")
    /\ Fewer(in, in', "reply")
    /\ peerPending' = peerPending /\ handed' = handed /\ seqcounter' = seqcounter
    /\ sending' = sending \/ sending'.type # "request"
    /\ callbacks' \subseteq callbacks
    /\ \A s \in SeqNo :
          result'[s] = result[s] \/ (result'[s] = SendFailed /\ s \in callbacks \ callbacks')
    /\ \A t \in Thread : pc'[t] = "send" => pc[t] = "send" /\ await'[t] = await[t]
    /\ \A t \in Thread : msg'[t] = msg[t] \/ msg'[t].type # "reply"

(* Such a step keeps the journeys. *)
LEMMA StagesKeptSafe ==
    ASSUME TypeOK, ControlInv, ReplyInv, StagesKept
    PROVE  ReplyInv'
<1>1. PICK stage \in [Nat -> Stage] : Journey(stage)
  BY DEF ReplyInv, JourneyInv
<1>2. Journey(stage)'
  <2>1. /\ \A s \in Nat : s >= seqcounter' => stage[s] = "new"
        /\ \A s \in peerPending' : stage[s] = "pending"
        /\ \A s \in Nat : stage[s] \in Sent => s \in handed'
    BY <1>1 DEF StagesKept, Journey
  <2>2. /\ \A s \in SeqsOf(sendQueue', "request") : stage[s] = "queued"
        /\ \A s \in SeqsOf(out', "request") : stage[s] = "sent"
        /\ \A s \in SeqsOf(in', "reply") : stage[s] = "answered"
    BY <1>1 DEF StagesKept, Journey, Fewer
  <2>3. /\ \A t \in Thread : pc'[t] = "send" => stage[await'[t]] = "asked"
        /\ sending'.type = "request" => stage[sending'.seq] = "sending"
        /\ \A t \in Thread : msg'[t].type = "reply" => stage[msg'[t].seq] = "taken"
    BY <1>1 DEF StagesKept, Journey
  <2>4. \A s \in SeqNo : result'[s] = s => stage[s] = "done"
    BY <1>1, SeqNoType DEF StagesKept, Journey, SendFailed
  <2> QED
    BY <2>1, <2>2, <2>3, <2>4 DEF Journey
<1>3. OnceInv'
  BY DEF StagesKept, ReplyInv, OnceInv, Fewer
<1>4. FinalInv'
  BY DEF StagesKept, ReplyInv, FinalInv, SendFailed, Unset
<1> QED
  BY <1>2, <1>3, <1>4 DEF ReplyInv, JourneyInv

(* The stage of one request changes. *)
Moved(stage, new, x, to) == \A s \in Nat : new[s] = IF s = x THEN to ELSE stage[s]

(* There is a function of the stages for every such change. *)
LEMMA Moves ==
    ASSUME NEW stage \in [Nat -> Stage], NEW x \in Nat, NEW to \in Stage
    PROVE  \E new \in [Nat -> Stage] : Moved(stage, new, x, to)
<1>1. [stage EXCEPT ![x] = to] \in [Nat -> Stage]
  OBVIOUS
<1>2. Moved(stage, [stage EXCEPT ![x] = to], x, to)
  BY DEF Moved
<1> QED
  BY <1>1, <1>2

(* A new request is with the thread that asks. *)
LEMMA JourneyIssue ==
    ASSUME TypeOK, ControlInv, ReplyInv, NEW t \in Thread, Issue(t), Goto(t, "send"),
           UNCHANGED <<msg, sendVars, netVars>>
    PROVE  ReplyInv'
<1>1. PICK stage \in [Nat -> Stage] : Journey(stage)
  BY DEF ReplyInv, JourneyInv
<1>2. PICK new \in [Nat -> Stage] : Moved(stage, new, seqcounter, "asked")
  BY Moves, SeqsAreNumbers DEF Stage
<1>3. stage[seqcounter] = "new" /\ new[seqcounter] = "asked"
  BY <1>1, <1>2, SeqsAreNumbers DEF Journey, Moved
<1>4. \A s \in Nat : stage[s] # "new" => s # seqcounter /\ new[s] = stage[s]
  BY <1>2, <1>3 DEF Moved
<1>5. /\ seqcounter' = seqcounter + 1 /\ result' = result
      /\ callbacks' = callbacks \cup {seqcounter} /\ seqcounter \in SeqNo
      /\ msg' = msg /\ sendQueue' = sendQueue /\ sending' = sending /\ handed' = handed
      /\ out' = out /\ in' = in /\ peerPending' = peerPending
  BY DEF Issue, sendVars, netVars
<1>6. /\ await'[t] = seqcounter
      /\ \A u \in Thread : u # t => pc'[u] = pc[u] /\ await'[u] = await[u]
  BY DEF Issue, Goto, TypeOK, ThreadTypeOK
<1>7. Journey(new)'
  <2>1. \A s \in Nat : s >= seqcounter' => new[s] = "new"
    BY <1>1, <1>2, <1>5, SeqsAreNumbers DEF Journey, Moved
  <2>2. \A u \in Thread : pc'[u] = "send" => new[await'[u]] = "asked"
    BY <1>1, <1>3, <1>4, <1>6, SeqsAreNumbers DEF Journey
  <2>3. /\ \A s \in SeqsOf(sendQueue', "request") : new[s] = "queued"
        /\ \A s \in SeqsOf(out', "request") : new[s] = "sent"
        /\ \A s \in SeqsOf(in', "reply") : new[s] = "answered"
        /\ \A s \in peerPending' : new[s] = "pending"
        /\ sending'.type = "request" => new[sending'.seq] = "sending"
        /\ \A u \in Thread : msg'[u].type = "reply" => new[msg'[u].seq] = "taken"
    BY <1>1, <1>4, <1>5, SeqsAreNumbers DEF Journey
  <2>4. \A s \in SeqNo : result'[s] = s => new[s] = "done"
    BY <1>1, <1>4, <1>5, SeqsAreNumbers DEF Journey
  <2>5. \A s \in Nat : new[s] \in Sent => s \in handed'
    BY <1>1, <1>2, <1>5 DEF Journey, Moved, Sent
  <2> QED
    BY <2>1, <2>2, <2>3, <2>4, <2>5 DEF Journey
<1>8. OnceInv'
  <2>1. \A u \in Thread : u # t /\ pc[u] = "send" => await[u] # seqcounter
    BY <1>1, <1>3, SeqsAreNumbers DEF Journey
  <2> QED
    BY <1>5, <1>6, <2>1 DEF ReplyInv, OnceInv
<1>9. FinalInv'
  <2>1. seqcounter \in Nat /\ seqcounter < seqcounter' /\ callbacks \subseteq Nat
    BY <1>5, SeqsAreNumbers DEF TypeOK, TableTypeOK
  <2>2. \A s \in Nat : s < seqcounter => s < seqcounter' /\ s # seqcounter
    BY <1>5, <2>1
  <2> QED
    BY <1>5, <2>1, <2>2, SeqsAreNumbers DEF ReplyInv, FinalInv
<1> QED
  BY <1>7, <1>8, <1>9 DEF ReplyInv, JourneyInv

(* __send puts the request in the queue, or gives it up. *)
LEMMA JourneySendRequest ==
    ASSUME TypeOK, ControlInv, ReplyInv, NEW t \in Thread, SendRequest(t)
    PROVE  ReplyInv'
<1>1. CASE sendLoop
  <2>1. PICK stage \in [Nat -> Stage] : Journey(stage)
    BY DEF ReplyInv, JourneyInv
  <2>2. await[t] \in Nat /\ pc[t] = "send"
    BY SeqsAreNumbers DEF SendRequest
  <2>3. PICK new \in [Nat -> Stage] : Moved(stage, new, await[t], "queued")
    BY <2>2, Moves DEF Stage
  <2>4. stage[await[t]] = "asked" /\ new[await[t]] = "queued"
    BY <2>1, <2>2, <2>3 DEF Journey, Moved
  <2>5. \A s \in Nat : stage[s] # "asked" => s # await[t] /\ new[s] = stage[s]
    BY <2>3, <2>4 DEF Moved
  <2>6. RequestOf(t) \in Message /\ RequestOf(t).type = "request" /\ RequestOf(t).seq = await[t]
    BY <2>2, RequestOfType DEF RequestOf, Call, CloseReq
  <2>7. await[t] \notin SeqsOf(sendQueue, "request")
    BY <2>1, <2>4 DEF Journey
  <2>8. /\ SeqsOf(sendQueue', "request") = SeqsOf(sendQueue, "request") \cup {await[t]}
        /\ AtMostOnce(sendQueue', "request")
    <3>1. sendQueue' = Append(sendQueue, RequestOf(t)) /\ sendQueue \in Seq(Message)
      BY <1>1 DEF SendRequest, Enqueue, TypeOK, SendTypeOK
    <3>2. AtMostOnce(sendQueue, "request")
      BY DEF ReplyInv, OnceInv
    <3> QED
      BY <2>6, <2>7, <3>1, <3>2, SeqsAppend
  <2>9. /\ seqcounter' = seqcounter /\ result' = result /\ callbacks' = callbacks
        /\ msg' = msg /\ sending' = sending /\ handed' = handed
        /\ out' = out /\ in' = in /\ peerPending' = peerPending /\ await' = await
    BY <1>1 DEF SendRequest, Enqueue, tableVars, netVars
  <2>10. \A u \in Thread : pc'[u] = "send" => pc[u] = "send" /\ u # t
    BY <1>1 DEF SendRequest, Goto, TypeOK, ThreadTypeOK
  <2>11. Journey(new)'
    <3>1. \A s \in Nat : s >= seqcounter' => new[s] = "new"
      BY <2>1, <2>5, <2>9 DEF Journey
    <3>2. \A u \in Thread : pc'[u] = "send" => new[await'[u]] = "asked"
      <4> SUFFICES ASSUME NEW u \in Thread, pc'[u] = "send"
                   PROVE  new[await[u]] = "asked"
        BY <2>9
      <4>1. await[u] # await[t]
        BY <2>2, <2>10 DEF ReplyInv, OnceInv
      <4> QED
        BY <2>1, <2>3, <2>10, <4>1, SeqsAreNumbers DEF Journey, Moved
    <3>3. \A s \in SeqsOf(sendQueue', "request") : new[s] = "queued"
      BY <2>1, <2>4, <2>5, <2>8, SeqsAreNumbers DEF Journey
    <3>4. /\ \A s \in SeqsOf(out', "request") : new[s] = "sent"
          /\ \A s \in SeqsOf(in', "reply") : new[s] = "answered"
          /\ \A s \in peerPending' : new[s] = "pending"
          /\ sending'.type = "request" => new[sending'.seq] = "sending"
          /\ \A u \in Thread : msg'[u].type = "reply" => new[msg'[u].seq] = "taken"
      BY <2>1, <2>5, <2>9, SeqsAreNumbers DEF Journey
    <3>5. \A s \in SeqNo : result'[s] = s => new[s] = "done"
      BY <2>1, <2>5, <2>9, SeqsAreNumbers DEF Journey
    <3>6. \A s \in Nat : new[s] \in Sent => s \in handed'
      BY <2>1, <2>3, <2>9 DEF Journey, Moved, Sent
    <3> QED
      BY <3>1, <3>2, <3>3, <3>4, <3>5, <3>6 DEF Journey
  <2>12. OnceInv'
    BY <2>8, <2>9, <2>10 DEF ReplyInv, OnceInv
  <2>13. FinalInv'
    BY <2>9 DEF ReplyInv, FinalInv
  <2> QED
    BY <2>11, <2>12, <2>13 DEF ReplyInv, JourneyInv
<1>2. CASE ~sendLoop
  <2>1. StagesKept
    BY <1>2 DEF SendRequest, Goto, sendVars, netVars, StagesKept, Fewer, TypeOK, ThreadTypeOK
  <2> QED
    BY <2>1, StagesKeptSafe
<1> QED
  BY <1>1, <1>2

(* A handler's answer in the queue is no request. *)
LEMMA JourneySendReply ==
    ASSUME TypeOK, ControlInv, ReplyInv, NEW t \in Thread, SendReply(t)
    PROVE  ReplyInv'
<1>1. Fewer(sendQueue, sendQueue', "request")
  <2>1. CASE sendLoop
    <3>1. Reply(Top(t).arg) \in Message /\ Reply(Top(t).arg).type # "request"
      BY TopType DEF SendReply, ControlInv, Reply
    <3>2. sendQueue' = Append(sendQueue, Reply(Top(t).arg)) /\ sendQueue \in Seq(Message)
      BY <2>1 DEF SendReply, Enqueue, TypeOK, SendTypeOK
    <3> QED
      BY <3>1, <3>2, SeqsAppend DEF Fewer
  <2>2. CASE ~sendLoop
    BY <2>2 DEF SendReply, sendVars, Fewer
  <2> QED
    BY <2>1, <2>2
<1>2. \A u \in Thread : pc'[u] = "send" => pc[u] = "send" /\ await'[u] = await[u]
  BY DEF SendReply, Goto, Pop, TypeOK, ThreadTypeOK
<1>3. StagesKept
  BY <1>1, <1>2 DEF SendReply, Enqueue, sendVars, tableVars, netVars, StagesKept, Fewer
<1> QED
  BY <1>3, StagesKeptSafe

(* A reply comes into the hands of the receiver. *)
LEMMA JourneyPollData ==
    ASSUME TypeOK, ControlInv, ReplyInv, NEW t \in Thread, PollData(t)
    PROVE  ReplyInv'
<1>1. /\ seqcounter' = seqcounter /\ result' = result /\ callbacks' = callbacks
      /\ await' = await /\ sendQueue' = sendQueue /\ sending' = sending /\ handed' = handed
      /\ out' = out /\ peerPending' = peerPending
      /\ \A u \in Thread : pc'[u] = "send" => pc[u] = "send"
      /\ \A u \in Thread : u # t => msg'[u] = msg[u]
  BY DEF PollData, Received, Goto, tableVars, sendVars, TypeOK, ThreadTypeOK
<1>2. in \in Seq(Message) /\ in # <<>>
  BY DEF PollData, TypeOK, NetTypeOK
<1>3. CASE sockOpen /\ Head(in).type = "reply"
  <2> DEFINE x == Head(in).seq
  <2>1. PICK stage \in [Nat -> Stage] : Journey(stage)
    BY DEF ReplyInv, JourneyInv
  <2>2. in' = Tail(in) /\ msg'[t] = Head(in)
    BY <1>3 DEF PollData, Received, TypeOK, ThreadTypeOK
  <2>3. /\ SeqsOf(in', "reply") \subseteq SeqsOf(in, "reply") /\ x \in SeqsOf(in, "reply")
        /\ AtMostOnce(in', "reply") /\ x \notin SeqsOf(in', "reply")
    BY <1>2, <1>3, <2>2, SeqsTail DEF ReplyInv, OnceInv
  <2>4. x \in Nat
    BY <2>3, SeqsAreNumbers
  <2>5. PICK new \in [Nat -> Stage] : Moved(stage, new, x, "taken")
    BY <2>4, Moves DEF Stage
  <2>6. stage[x] = "answered" /\ new[x] = "taken"
    BY <2>1, <2>3, <2>4, <2>5 DEF Journey, Moved
  <2>7. \A s \in Nat : stage[s] # "answered" => s # x /\ new[s] = stage[s]
    BY <2>5, <2>6 DEF Moved
  <2> HIDE DEF x
  <2>8. Journey(new)'
    <3>1. \A s \in Nat : s >= seqcounter' => new[s] = "new"
      BY <1>1, <2>1, <2>7 DEF Journey
    <3>2. /\ \A u \in Thread : pc'[u] = "send" => new[await'[u]] = "asked"
          /\ \A s \in SeqsOf(sendQueue', "request") : new[s] = "queued"
          /\ \A s \in SeqsOf(out', "request") : new[s] = "sent"
          /\ \A s \in peerPending' : new[s] = "pending"
          /\ sending'.type = "request" => new[sending'.seq] = "sending"
      BY <1>1, <2>1, <2>7, SeqsAreNumbers DEF Journey
    <3>3. \A s \in SeqsOf(in', "reply") : new[s] = "answered"
      BY <2>1, <2>3, <2>5, SeqsAreNumbers DEF Journey, Moved
    <3>4. \A u \in Thread : msg'[u].type = "reply" => new[msg'[u].seq] = "taken"
      BY <1>1, <2>1, <2>2, <2>6, <2>7, SeqsAreNumbers DEF Journey, x
    <3>5. \A s \in SeqNo : result'[s] = s => new[s] = "done"
      BY <1>1, <2>1, <2>7, SeqsAreNumbers DEF Journey
    <3>6. \A s \in Nat : new[s] \in Sent => s \in handed'
      BY <1>1, <2>1, <2>5, <2>6 DEF Journey, Moved, Sent
    <3> QED
      BY <3>1, <3>2, <3>3, <3>4, <3>5, <3>6 DEF Journey
  <2>9. \A u \in Thread : u # t /\ msg[u].type = "reply" => msg[u].seq # x
    BY <2>1, <2>6 DEF Journey
  <2>10. OnceInv'
    BY <1>1, <2>2, <2>3, <2>9 DEF ReplyInv, OnceInv, x
  <2>11. FinalInv'
    BY <1>1 DEF ReplyInv, FinalInv
  <2> QED
    BY <2>8, <2>10, <2>11 DEF ReplyInv, JourneyInv
<1>4. CASE ~(sockOpen /\ Head(in).type = "reply")
  <2>1. Fewer(in, in', "reply") /\ msg'[t].type # "reply"
    <3>1. CASE sockOpen
      <4>1. in' = Tail(in) /\ msg'[t] = Head(in)
        BY <3>1 DEF PollData, Received, TypeOK, ThreadTypeOK
      <4> QED
        BY <1>2, <1>4, <3>1, <4>1, SeqsTail DEF Fewer
    <3>2. CASE ~sockOpen
      BY <3>2 DEF PollData, Received, EOF, Fewer, TypeOK, ThreadTypeOK
    <3> QED
      BY <3>1, <3>2
  <2>2. StagesKept
    BY <1>1, <2>1 DEF StagesKept, Fewer
  <2> QED
    BY <2>2, StagesKeptSafe
<1> QED
  BY <1>3, <1>4

(* The receiver gives a reply to its request, if it is still wanted. *)
LEMMA JourneyDispatchReply ==
    ASSUME TypeOK, ControlInv, ReplyInv, NEW t \in Thread, DispatchReply(t)
    PROVE  ReplyInv'
<1> DEFINE x == msg[t].seq
<1>1. PICK stage \in [Nat -> Stage] : Journey(stage)
  BY DEF ReplyInv, JourneyInv
<1>2. x \in Nat /\ msg[t].type = "reply"
  BY SeqsAreNumbers DEF DispatchReply
<1>3. PICK new \in [Nat -> Stage] : Moved(stage, new, x, "done")
  BY <1>2, Moves DEF Stage
<1>4. stage[x] = "taken" /\ new[x] = "done"
  BY <1>1, <1>2, <1>3 DEF Journey, Moved
<1>5. \A s \in Nat : stage[s] # "taken" => s # x /\ new[s] = stage[s]
  BY <1>3, <1>4 DEF Moved
<1>6. /\ seqcounter' = seqcounter /\ callbacks' = callbacks \ {x} /\ await' = await
      /\ sendQueue' = sendQueue /\ sending' = sending /\ handed' = handed
      /\ out' = out /\ in' = in /\ peerPending' = peerPending
      /\ \A u \in Thread : pc'[u] = "send" => pc[u] = "send"
      /\ msg'[t] = NoMsg /\ \A u \in Thread : u # t => msg'[u] = msg[u]
  BY DEF DispatchReply, Resolve, Goto, sendVars, netVars, TypeOK, ThreadTypeOK
<1>7. \A s \in SeqNo : result'[s] = result[s] \/ (s = x /\ result'[s] = x /\ x \in callbacks)
  BY DEF DispatchReply, Resolve, TypeOK, TableTypeOK
<1>8. \A u \in Thread : u # t /\ msg[u].type = "reply" => msg[u].seq # x
  BY <1>2 DEF ReplyInv, OnceInv
<1> HIDE DEF x
<1>9. Journey(new)'
  <2>1. \A s \in Nat : s >= seqcounter' => new[s] = "new"
    BY <1>1, <1>5, <1>6 DEF Journey
  <2>2. /\ \A u \in Thread : pc'[u] = "send" => new[await'[u]] = "asked"
        /\ \A s \in SeqsOf(sendQueue', "request") : new[s] = "queued"
        /\ \A s \in SeqsOf(out', "request") : new[s] = "sent"
        /\ \A s \in SeqsOf(in', "reply") : new[s] = "answered"
        /\ \A s \in peerPending' : new[s] = "pending"
        /\ sending'.type = "request" => new[sending'.seq] = "sending"
    BY <1>1, <1>5, <1>6, SeqsAreNumbers DEF Journey
  <2>3. \A u \in Thread : msg'[u].type = "reply" => new[msg'[u].seq] = "taken"
    BY <1>1, <1>3, <1>6, <1>8, SeqsAreNumbers DEF Journey, Moved, NoMsg
  <2>4. \A s \in SeqNo : result'[s] = s => new[s] = "done"
    BY <1>1, <1>3, <1>4, <1>7, SeqsAreNumbers DEF Journey, Moved
  <2>5. \A s \in Nat : new[s] \in Sent => s \in handed'
    BY <1>1, <1>3, <1>4, <1>6 DEF Journey, Moved, Sent
  <2> QED
    BY <2>1, <2>2, <2>3, <2>4, <2>5 DEF Journey
<1>10. OnceInv'
  BY <1>6 DEF ReplyInv, OnceInv, NoMsg
<1>11. FinalInv'
  BY <1>6, <1>7 DEF ReplyInv, FinalInv, TypeOK, TableTypeOK
<1> QED
  BY <1>9, <1>10, <1>11 DEF ReplyInv, JourneyInv

(* The send thread takes a request off the queue. *)
LEMMA JourneySenderTake ==
    ASSUME TypeOK, ControlInv, ReplyInv, SenderTake
    PROVE  ReplyInv'
<1>1. /\ seqcounter' = seqcounter /\ result' = result /\ callbacks' = callbacks
      /\ pc' = pc /\ await' = await /\ msg' = msg /\ handed' = handed
      /\ out' = out /\ in' = in /\ peerPending' = peerPending
  BY DEF SenderTake, threadVars, tableVars, netVars
<1>2. CASE sendQueue # <<>> /\ Head(sendQueue).type = "request"
  <2> DEFINE x == Head(sendQueue).seq
  <2>1. PICK stage \in [Nat -> Stage] : Journey(stage)
    BY DEF ReplyInv, JourneyInv
  <2>2. sendQueue' = Tail(sendQueue) /\ sending'.seq = x /\ sendQueue \in Seq(Message)
    BY <1>2 DEF SenderTake, TypeOK, SendTypeOK
  <2>3. /\ SeqsOf(sendQueue', "request") \subseteq SeqsOf(sendQueue, "request")
        /\ x \in SeqsOf(sendQueue, "request")
        /\ AtMostOnce(sendQueue', "request") /\ x \notin SeqsOf(sendQueue', "request")
    BY <1>2, <2>2, SeqsTail DEF ReplyInv, OnceInv
  <2>4. x \in Nat
    BY <2>3, SeqsAreNumbers
  <2>5. PICK new \in [Nat -> Stage] : Moved(stage, new, x, "sending")
    BY <2>4, Moves DEF Stage
  <2>6. stage[x] = "queued" /\ new[x] = "sending"
    BY <2>1, <2>3, <2>4, <2>5 DEF Journey, Moved
  <2>7. \A s \in Nat : stage[s] # "queued" => s # x /\ new[s] = stage[s]
    BY <2>5, <2>6 DEF Moved
  <2> HIDE DEF x
  <2>8. Journey(new)'
    <3>1. \A s \in Nat : s >= seqcounter' => new[s] = "new"
      BY <1>1, <2>1, <2>7 DEF Journey
    <3>2. /\ \A u \in Thread : pc'[u] = "send" => new[await'[u]] = "asked"
          /\ \A s \in SeqsOf(out', "request") : new[s] = "sent"
          /\ \A s \in SeqsOf(in', "reply") : new[s] = "answered"
          /\ \A s \in peerPending' : new[s] = "pending"
          /\ \A u \in Thread : msg'[u].type = "reply" => new[msg'[u].seq] = "taken"
      BY <1>1, <2>1, <2>7, SeqsAreNumbers DEF Journey
    <3>3. \A s \in SeqsOf(sendQueue', "request") : new[s] = "queued"
      BY <2>1, <2>3, <2>5, SeqsAreNumbers DEF Journey, Moved
    <3>4. sending'.type = "request" => new[sending'.seq] = "sending"
      BY <2>2, <2>6
    <3>5. \A s \in SeqNo : result'[s] = s => new[s] = "done"
      BY <1>1, <2>1, <2>7, SeqsAreNumbers DEF Journey
    <3>6. \A s \in Nat : new[s] \in Sent => s \in handed'
      BY <1>1, <2>1, <2>5 DEF Journey, Moved, Sent
    <3> QED
      BY <3>1, <3>2, <3>3, <3>4, <3>5, <3>6 DEF Journey
  <2>9. OnceInv' /\ FinalInv'
    BY <1>1, <2>3 DEF ReplyInv, OnceInv, FinalInv
  <2> QED
    BY <2>8, <2>9 DEF ReplyInv, JourneyInv
<1>3. CASE ~(sendQueue # <<>> /\ Head(sendQueue).type = "request")
  <2>1. Fewer(sendQueue, sendQueue', "request") /\ (sending' = sending \/ sending'.type # "request")
    <3>1. CASE sendQueue # <<>>
      <4>1. sendQueue' = Tail(sendQueue) /\ sending' = Head(sendQueue) /\ sendQueue \in Seq(Message)
        BY <3>1 DEF SenderTake, TypeOK, SendTypeOK
      <4> QED
        BY <1>3, <3>1, <4>1, SeqsTail DEF Fewer
    <3>2. CASE sendQueue = <<>>
      BY <3>2 DEF SenderTake, Fewer
    <3> QED
      BY <3>1, <3>2
  <2>2. StagesKept
    BY <1>1, <2>1 DEF StagesKept, Fewer
  <2> QED
    BY <2>2, StagesKeptSafe
<1> QED
  BY <1>2, <1>3

(* The send thread gives a request to the channel. *)
LEMMA JourneySenderSends ==
    ASSUME TypeOK, ControlInv, ReplyInv, SenderSends
    PROVE  ReplyInv'
<1>1. /\ seqcounter' = seqcounter /\ result' = result /\ callbacks' = callbacks
      /\ pc' = pc /\ await' = await /\ msg' = msg /\ sendQueue' = sendQueue
      /\ in' = in /\ peerPending' = peerPending /\ sending' = NoMsg
  BY DEF SenderSends, threadVars, tableVars
<1>2. out' = Append(out, sending) /\ out \in Seq(Message) /\ sending \in Message
  BY DEF SenderSends, ControlInv, TypeOK, NetTypeOK
<1>3. CASE sending.type = "request"
  <2> DEFINE x == sending.seq
  <2>1. PICK stage \in [Nat -> Stage] : Journey(stage)
    BY DEF ReplyInv, JourneyInv
  <2>2. x \in Nat
    BY <1>3, SeqsAreNumbers
  <2>3. PICK new \in [Nat -> Stage] : Moved(stage, new, x, "sent")
    BY <2>2, Moves DEF Stage
  <2>4. stage[x] = "sending" /\ new[x] = "sent"
    BY <1>3, <2>1, <2>2, <2>3 DEF Journey, Moved
  <2>5. \A s \in Nat : stage[s] # "sending" => s # x /\ new[s] = stage[s]
    BY <2>3, <2>4 DEF Moved
  <2>6. x \notin SeqsOf(out, "request")
    BY <2>1, <2>4 DEF Journey
  <2>7. AtMostOnce(out, "request")
    BY DEF ReplyInv, OnceInv
  <2>8. SeqsOf(out', "request") = SeqsOf(out, "request") \cup {x} /\ AtMostOnce(out', "request")
    BY <1>2, <1>3, <2>6, <2>7, SeqsAppend
  <2>9. handed' = handed \cup {x}
    BY <1>3 DEF SenderSends
  <2> HIDE DEF x
  <2>10. Journey(new)'
    <3>1. \A s \in Nat : s >= seqcounter' => new[s] = "new"
      BY <1>1, <2>1, <2>5 DEF Journey
    <3>2. /\ \A u \in Thread : pc'[u] = "send" => new[await'[u]] = "asked"
          /\ \A s \in SeqsOf(sendQueue', "request") : new[s] = "queued"
          /\ \A s \in SeqsOf(in', "reply") : new[s] = "answered"
          /\ \A s \in peerPending' : new[s] = "pending"
          /\ \A u \in Thread : msg'[u].type = "reply" => new[msg'[u].seq] = "taken"
      BY <1>1, <2>1, <2>5, SeqsAreNumbers DEF Journey
    <3>3. \A s \in SeqsOf(out', "request") : new[s] = "sent"
      BY <2>1, <2>4, <2>5, <2>8, SeqsAreNumbers DEF Journey
    <3>4. sending'.type = "request" => new[sending'.seq] = "sending"
      BY <1>1 DEF NoMsg
    <3>5. \A s \in SeqNo : result'[s] = s => new[s] = "done"
      BY <1>1, <2>1, <2>5, SeqsAreNumbers DEF Journey
    <3>6. \A s \in Nat : new[s] \in Sent => s \in handed'
      BY <2>1, <2>3, <2>9 DEF Journey, Moved, Sent
    <3> QED
      BY <3>1, <3>2, <3>3, <3>4, <3>5, <3>6 DEF Journey
  <2>11. OnceInv' /\ FinalInv'
    BY <1>1, <2>8 DEF ReplyInv, OnceInv, FinalInv
  <2> QED
    BY <2>10, <2>11 DEF ReplyInv, JourneyInv
<1>4. CASE sending.type # "request"
  <2>1. Fewer(out, out', "request")
    BY <1>2, <1>4, SeqsAppend DEF Fewer
  <2>2. handed' = handed
    BY <1>4 DEF SenderSends
  <2>3. StagesKept
    BY <1>1, <2>1, <2>2 DEF StagesKept, Fewer, NoMsg
  <2> QED
    BY <2>3, StagesKeptSafe
<1> QED
  BY <1>3, <1>4

(* What the send thread does otherwise. *)
LEMMA JourneySender ==
    ASSUME TypeOK, ControlInv, ReplyInv, SenderStep
    PROVE  ReplyInv'
<1>1. CASE SenderWoken \/ SenderFails \/ SenderNotifies
  <2>1. StagesKept
    BY <1>1 DEF SenderWoken, SenderFails, SenderNotifies, threadVars, tableVars, netVars,
                StagesKept, Fewer
  <2> QED
    BY <2>1, StagesKeptSafe
<1>2. CASE SenderReports
  <2>1. \A s \in SeqNo :
           result'[s] = result[s] \/ (result'[s] = SendFailed /\ s \in callbacks \ callbacks')
    BY <1>2 DEF SenderReports, Resolve, TypeOK, TableTypeOK
  <2>2. StagesKept
    BY <1>2, <2>1 DEF SenderReports, Resolve, threadVars, netVars, NoMsg, StagesKept, Fewer
  <2> QED
    BY <2>2, StagesKeptSafe
<1> QED
  BY <1>1, <1>2, JourneySenderTake, JourneySenderSends DEF SenderStep

(* The peer receives a request. *)
LEMMA JourneyPeerReceives ==
    ASSUME TypeOK, ControlInv, ReplyInv, PeerReceives
    PROVE  ReplyInv'
<1>1. /\ seqcounter' = seqcounter /\ result' = result /\ callbacks' = callbacks
      /\ pc' = pc /\ await' = await /\ msg' = msg /\ sendQueue' = sendQueue
      /\ in' = in /\ sending' = sending /\ handed' = handed
  BY DEF PeerReceives, PeerStep, threadVars, tableVars, sendVars
<1>2. out # <<>> /\ out' = Tail(out) /\ out \in Seq(Message)
  BY DEF PeerReceives, PeerStep, TypeOK, NetTypeOK
<1>3. CASE Head(out).type = "request"
  <2> DEFINE x == Head(out).seq
  <2>1. PICK stage \in [Nat -> Stage] : Journey(stage)
    BY DEF ReplyInv, JourneyInv
  <2>2. /\ SeqsOf(out', "request") \subseteq SeqsOf(out, "request") /\ x \in SeqsOf(out, "request")
        /\ AtMostOnce(out', "request") /\ x \notin SeqsOf(out', "request")
    BY <1>2, <1>3, SeqsTail DEF ReplyInv, OnceInv
  <2>3. x \in Nat
    BY <2>2, SeqsAreNumbers
  <2>4. PICK new \in [Nat -> Stage] : Moved(stage, new, x, "pending")
    BY <2>3, Moves DEF Stage
  <2>5. stage[x] = "sent" /\ new[x] = "pending"
    BY <2>1, <2>2, <2>3, <2>4 DEF Journey, Moved
  <2>6. \A s \in Nat : stage[s] # "sent" => s # x /\ new[s] = stage[s]
    BY <2>4, <2>5 DEF Moved
  <2>7. peerPending' = peerPending \cup {x}
    BY <1>3 DEF PeerReceives, PeerStep
  <2> HIDE DEF x
  <2>8. Journey(new)'
    <3>1. \A s \in Nat : s >= seqcounter' => new[s] = "new"
      BY <1>1, <2>1, <2>6 DEF Journey
    <3>2. /\ \A u \in Thread : pc'[u] = "send" => new[await'[u]] = "asked"
          /\ \A s \in SeqsOf(sendQueue', "request") : new[s] = "queued"
          /\ \A s \in SeqsOf(in', "reply") : new[s] = "answered"
          /\ sending'.type = "request" => new[sending'.seq] = "sending"
          /\ \A u \in Thread : msg'[u].type = "reply" => new[msg'[u].seq] = "taken"
      BY <1>1, <2>1, <2>6, SeqsAreNumbers DEF Journey
    <3>3. \A s \in SeqsOf(out', "request") : new[s] = "sent"
      BY <2>1, <2>2, <2>4, SeqsAreNumbers DEF Journey, Moved
    <3>4. \A s \in peerPending' : new[s] = "pending"
      BY <2>1, <2>5, <2>6, <2>7, SeqsAreNumbers DEF Journey
    <3>5. \A s \in SeqNo : result'[s] = s => new[s] = "done"
      BY <1>1, <2>1, <2>6, SeqsAreNumbers DEF Journey
    <3>6. \A s \in Nat : new[s] \in Sent => s \in handed'
      BY <1>1, <2>1, <2>4, <2>5 DEF Journey, Moved, Sent
    <3> QED
      BY <3>1, <3>2, <3>3, <3>4, <3>5, <3>6 DEF Journey
  <2>9. OnceInv' /\ FinalInv'
    BY <1>1, <2>2 DEF ReplyInv, OnceInv, FinalInv
  <2> QED
    BY <2>8, <2>9 DEF ReplyInv, JourneyInv
<1>4. CASE Head(out).type # "request"
  <2>1. Fewer(out, out', "request")
    BY <1>2, SeqsTail DEF Fewer
  <2>2. peerPending' = peerPending
    BY <1>4 DEF PeerReceives, PeerStep
  <2>3. StagesKept
    BY <1>1, <2>1, <2>2 DEF StagesKept, Fewer
  <2> QED
    BY <2>3, StagesKeptSafe
<1> QED
  BY <1>3, <1>4

(* The peer answers a request. *)
LEMMA JourneyPeerAnswers ==
    ASSUME TypeOK, ControlInv, ReplyInv, NEW x \in SeqNo, PeerAnswers(x)
    PROVE  ReplyInv'
<1>1. /\ seqcounter' = seqcounter /\ result' = result /\ callbacks' = callbacks
      /\ pc' = pc /\ await' = await /\ msg' = msg /\ sendQueue' = sendQueue
      /\ out' = out /\ sending' = sending /\ handed' = handed
      /\ x \in peerPending /\ peerPending' = peerPending \ {x}
  BY DEF PeerAnswers, PeerStep, threadVars, tableVars, sendVars
<1>2. /\ in' = Append(in, Reply(x)) /\ in \in Seq(Message)
      /\ Reply(x) \in Message /\ Reply(x).type = "reply" /\ Reply(x).seq = x
  BY DEF PeerAnswers, PeerStep, TypeOK, NetTypeOK, Reply, Message, AnySeq
<1>3. PICK stage \in [Nat -> Stage] : Journey(stage)
  BY DEF ReplyInv, JourneyInv
<1>4. x \in Nat
  BY SeqsAreNumbers
<1>5. PICK new \in [Nat -> Stage] : Moved(stage, new, x, "answered")
  BY <1>4, Moves DEF Stage
<1>6. stage[x] = "pending" /\ new[x] = "answered"
  BY <1>1, <1>3, <1>4, <1>5 DEF Journey, Moved
<1>7. \A s \in Nat : stage[s] # "pending" => s # x /\ new[s] = stage[s]
  BY <1>5, <1>6 DEF Moved
<1>8. x \notin SeqsOf(in, "reply") /\ AtMostOnce(in, "reply")
  BY <1>3, <1>6 DEF Journey, ReplyInv, OnceInv
<1>9. SeqsOf(in', "reply") = SeqsOf(in, "reply") \cup {x} /\ AtMostOnce(in', "reply")
  BY <1>2, <1>8, SeqsAppend
<1>10. Journey(new)'
  <2>1. \A s \in Nat : s >= seqcounter' => new[s] = "new"
    BY <1>1, <1>3, <1>7 DEF Journey
  <2>2. /\ \A u \in Thread : pc'[u] = "send" => new[await'[u]] = "asked"
        /\ \A s \in SeqsOf(sendQueue', "request") : new[s] = "queued"
        /\ \A s \in SeqsOf(out', "request") : new[s] = "sent"
        /\ sending'.type = "request" => new[sending'.seq] = "sending"
        /\ \A u \in Thread : msg'[u].type = "reply" => new[msg'[u].seq] = "taken"
    BY <1>1, <1>3, <1>7, SeqsAreNumbers DEF Journey
  <2>3. \A s \in SeqsOf(in', "reply") : new[s] = "answered"
    BY <1>3, <1>6, <1>7, <1>9, SeqsAreNumbers DEF Journey
  <2>4. \A s \in peerPending' : new[s] = "pending"
    BY <1>1, <1>3, <1>5, SeqsAreNumbers DEF Journey, Moved
  <2>5. \A s \in SeqNo : result'[s] = s => new[s] = "done"
    BY <1>1, <1>3, <1>7, SeqsAreNumbers DEF Journey
  <2>6. \A s \in Nat : new[s] \in Sent => s \in handed'
    BY <1>1, <1>3, <1>5, <1>6 DEF Journey, Moved, Sent
  <2> QED
    BY <2>1, <2>2, <2>3, <2>4, <2>5, <2>6 DEF Journey
<1>11. OnceInv' /\ FinalInv'
  BY <1>1, <1>9 DEF ReplyInv, OnceInv, FinalInv
<1> QED
  BY <1>10, <1>11 DEF ReplyInv, JourneyInv

(* What the environment does otherwise: a request of the peer is no reply. *)
LEMMA JourneyEnvironment ==
    ASSUME TypeOK, ControlInv, ReplyInv,
           \/ \E s \in SeqNo : Expire(s)
           \/ PeerShuts
           \/ \E r \in PeerRequest : PeerAsks(r) \/ PeerAsksClose(r)
    PROVE  ReplyInv'
<1>1. CASE (\E s \in SeqNo : Expire(s)) \/ PeerShuts
  <2>1. StagesKept
    BY <1>1 DEF Expire, PeerShuts, PeerStep, threadVars, tableVars, sendVars, netVars,
                StagesKept, Fewer
  <2> QED
    BY <2>1, StagesKeptSafe
<1>2. ASSUME NEW r \in PeerRequest, PeerAsks(r) \/ PeerAsksClose(r)
      PROVE  ReplyInv'
  <2>1. PICK m \in Message : m.type # "reply" /\ in' = Append(in, m)
    <3>1. /\ Call(r) \in Message /\ Call(r).type # "reply"
          /\ CloseReq(r) \in Message /\ CloseReq(r).type # "reply"
      BY DEF Call, CloseReq, Message, AnySeq
    <3> QED
      BY <1>2, <3>1 DEF PeerAsks, PeerAsksClose, PeerStep
  <2>2. in \in Seq(Message)
    BY DEF TypeOK, NetTypeOK
  <2>3. Fewer(in, in', "reply")
    BY <2>1, <2>2, SeqsAppend DEF Fewer
  <2>4. StagesKept
    BY <1>2, <2>3 DEF PeerAsks, PeerAsksClose, PeerStep, threadVars, tableVars, sendVars,
                      StagesKept, Fewer
  <2> QED
    BY <2>4, StagesKeptSafe
<1> QED
  BY <1>1, <1>2

(* Every other operation of a thread takes no request further. *)
LEMMA StagesAreKept ==
    ASSUME TypeOK, ControlInv, NEW t \in Thread,
           ThreadStep(t) \/ ClientCalls(t) \/ HandlerCalls(t) \/ ClientCloses(t) \/ UnboxFails(t),
           ~ClientCalls(t), ~HandlerCalls(t), ~CloseSet(t), ~SendRequest(t), ~SendReply(t),
           ~PollData(t), ~DispatchReply(t)
    PROVE  StagesKept
<1>1. CASE HandlerReturns(t)
  BY <1>1 DEF HandlerReturns, Goto, tableVars, sendVars, netVars, StagesKept, Fewer, TypeOK,
              ThreadTypeOK
<1>2. CASE WaitDone(t)
  BY <1>2 DEF WaitDone, Goto, tableVars, sendVars, netVars, StagesKept, Fewer, TypeOK,
              ThreadTypeOK
<1>3. CASE ServeAllEnds(t)
  BY <1>3 DEF ServeAllEnds, Goto, Push, tableVars, sendVars, netVars, StagesKept, Fewer,
              TypeOK, ThreadTypeOK
<1>4. CASE ServeEnter(t)
  BY <1>4 DEF ServeEnter, Goto, BecomeReceiver, WaitForReceiver, tableVars, sendVars,
              netVars, StagesKept, Fewer, TypeOK, ThreadTypeOK
<1>5. CASE ServeWoken(t)
  BY <1>5 DEF ServeWoken, Goto, BecomeReceiver, WaitForReceiver, tableVars, sendVars,
              netVars, StagesKept, Fewer, TypeOK, ThreadTypeOK
<1>6. CASE PollEnter(t)
  BY <1>6 DEF PollEnter, Goto, Received, EOF, NoMsg, tableVars, sendVars, netVars,
              StagesKept, Fewer, TypeOK, ThreadTypeOK
<1>7. CASE PollEOF(t)
  BY <1>7 DEF PollEOF, Goto, Received, EOF, tableVars, sendVars, netVars, StagesKept, Fewer,
              TypeOK, ThreadTypeOK
<1>8. CASE PollWoken(t)
  BY <1>8 DEF PollWoken, Goto, Received, NoMsg, tableVars, sendVars, netVars, StagesKept,
              Fewer, TypeOK, ThreadTypeOK
<1>9. CASE Release(t)
  BY <1>9 DEF Release, Goto, tableVars, sendVars, netVars, StagesKept, Fewer, TypeOK,
              ThreadTypeOK
<1>10. CASE DispatchRequest(t)
  BY <1>10 DEF DispatchRequest, Goto, Push, NoMsg, tableVars, sendVars, netVars, StagesKept,
               Fewer, TypeOK, ThreadTypeOK
<1>11. CASE NotifyStream(t)
  BY <1>11 DEF NotifyStream, Goto, tableVars, sendVars, netVars, StagesKept, Fewer, TypeOK,
               ThreadTypeOK
<1>12. CASE NotifyAll(t)
  BY <1>12 DEF NotifyAll, Goto, tableVars, sendVars, netVars, StagesKept, Fewer, TypeOK,
               ThreadTypeOK
<1>13. CASE Raise(t)
  BY <1>13 DEF Raise, Goto, Push, tableVars, sendVars, netVars, StagesKept, Fewer, TypeOK,
               ThreadTypeOK
<1>14. CASE ClientCloses(t)
  BY <1>14 DEF ClientCloses, Goto, Push, tableVars, sendVars, netVars, StagesKept, Fewer,
               TypeOK, ThreadTypeOK
<1>15. CASE CloseOnEOF(t)
  BY <1>15 DEF CloseOnEOF, Goto, Push, NoMsg, tableVars, sendVars, netVars, StagesKept,
               Fewer, TypeOK, ThreadTypeOK
<1>16. CASE CloseTest(t)
  BY <1>16 DEF CloseTest, Goto, CloseEnds, Pop, tableVars, sendVars, netVars, StagesKept,
               Fewer, TypeOK, ThreadTypeOK
<1>17. CASE CleanupChannel(t)
  BY <1>17 DEF CleanupChannel, Goto, tableVars, sendVars, netVars, StagesKept, Fewer,
               TypeOK, ThreadTypeOK
<1>18. CASE CleanupDrain(t)
  BY <1>18 DEF CleanupDrain, Goto, SeqsOf, AtMostOnce, tableVars, sendVars, netVars,
               StagesKept, Fewer, TypeOK, ThreadTypeOK
<1>19. CASE CleanupRoot(t)
  BY <1>19 DEF CleanupRoot, Goto, CleanupFails, Pop, tableVars, sendVars, netVars,
               StagesKept, Fewer, TypeOK, ThreadTypeOK
<1>20. CASE StopSending(t)
  BY <1>20 DEF StopSending, Goto, tableVars, sendVars, netVars, StagesKept, Fewer, TypeOK,
               ThreadTypeOK
<1>21. CASE JoinSender(t)
  BY <1>21 DEF JoinSender, Goto, tableVars, sendVars, netVars, StagesKept, Fewer, TypeOK,
               ThreadTypeOK
<1>22. CASE CleanupClear(t)
  BY <1>22 DEF CleanupClear, Goto, CleanupFails, CloseEnds, Pop, tableVars, sendVars,
               netVars, StagesKept, Fewer, TypeOK, ThreadTypeOK
<1>23. CASE UnboxFails(t)
  BY <1>23 DEF UnboxFails, Goto, NoMsg, sendVars, netVars, StagesKept, Fewer, TypeOK,
               ThreadTypeOK
<1> QED
  BY <1>1, <1>2, <1>3, <1>4, <1>5, <1>6, <1>7, <1>8, <1>9, <1>10, <1>11, <1>12,
     <1>13, <1>14, <1>15, <1>16, <1>17, <1>18, <1>19, <1>20, <1>21, <1>22, <1>23
     DEF ThreadStep

(* The requests, the replies and the results, kept by every step. *)
LEMMA NextReply ==
    ASSUME TypeOK, ControlInv, ReplyInv, [Next]_vars
    PROVE  ReplyInv'
<1>1. ASSUME NEW t \in Thread,
             ThreadStep(t) \/ ClientCalls(t) \/ HandlerCalls(t) \/ ClientCloses(t) \/ UnboxFails(t)
      PROVE  ReplyInv'
  <2>1. CASE ClientCalls(t) \/ HandlerCalls(t) \/ CloseSet(t)
    BY <2>1, JourneyIssue DEF ClientCalls, HandlerCalls, CloseSet
  <2>2. CASE SendRequest(t) \/ SendReply(t) \/ PollData(t) \/ DispatchReply(t)
    BY <2>2, JourneySendRequest, JourneySendReply, JourneyPollData, JourneyDispatchReply
  <2>3. CASE ~(\/ ClientCalls(t) \/ HandlerCalls(t) \/ CloseSet(t)
               \/ SendRequest(t) \/ SendReply(t) \/ PollData(t) \/ DispatchReply(t))
    BY <1>1, <2>3, StagesAreKept, StagesKeptSafe
  <2> QED
    BY <2>1, <2>2, <2>3
<1>2. CASE SenderStep
  BY <1>2, JourneySender
<1>3. CASE \/ \E s \in SeqNo : Expire(s) \/ PeerAnswers(s)
           \/ PeerReceives \/ PeerShuts
           \/ \E r \in PeerRequest : PeerAsks(r) \/ PeerAsksClose(r)
  BY <1>3, JourneyPeerReceives, JourneyPeerAnswers, JourneyEnvironment
<1>4. CASE UNCHANGED vars
  <2>1. StagesKept
    BY <1>4 DEF vars, threadVars, tableVars, sendVars, netVars, StagesKept, Fewer
  <2> QED
    BY <2>1, StagesKeptSafe
<1> QED
  BY <1>1, <1>2, <1>3, <1>4 DEF Next

(* At first no request has been made. *)
LEMMA InitReply == Init => ReplyInv
<1> SUFFICES ASSUME Init
             PROVE  ReplyInv
  OBVIOUS
<1>1. [s \in Nat |-> "new"] \in [Nat -> Stage]
  BY DEF Stage
<1>2. Journey([s \in Nat |-> "new"])
  BY SeqNoType DEF Init, Journey, Sent, SeqsOf, NoMsg, Unset
<1>3. OnceInv /\ FinalInv
  BY DEF Init, OnceInv, FinalInv, AtMostOnce, NoMsg
<1> QED
  BY <1>1, <1>2, <1>3 DEF ReplyInv, JourneyInv

(* Whichever thread dispatches which message, a request gets its own reply or the
   failure of its send, only after it was given to the channel, and nothing in
   flight can answer it a second time. *)
THEOREM AnswersAreOwn == Spec => []OwnReply
<1>1. TypeOK /\ ControlInv /\ ReplyInv /\ [Next]_vars => ReplyInv'
  BY NextReply
<1>2. TypeOK /\ ControlInv /\ ReplyInv => OwnReply
  <2> SUFFICES ASSUME TypeOK, ControlInv, ReplyInv, NEW s \in SeqNo
               PROVE  /\ result[s] \in {Unset, SendFailed, s}
                      /\ result[s] = s => /\ s \in handed
                                          /\ s \notin callbacks \cup peerPending
                                          /\ Reply(s) \notin {in[i] : i \in DOMAIN in}
    BY DEF OwnReply
  <2>1. PICK stage \in [Nat -> Stage] : Journey(stage)
    BY DEF ReplyInv, JourneyInv
  <2>2. result[s] \in {Unset, SendFailed, s} /\ (result[s] = s => s \notin callbacks)
    BY SeqNoType DEF ReplyInv, FinalInv, Unset
  <2>3. ASSUME result[s] = s
        PROVE  s \in handed /\ s \notin peerPending /\ s \notin SeqsOf(in, "reply")
    BY <2>1, <2>3, SeqNoType DEF Journey, Sent
  <2>4. Reply(s) \in {in[i] : i \in DOMAIN in} => s \in SeqsOf(in, "reply")
    BY DEF Reply, SeqsOf
  <2> QED
    BY <2>2, <2>3, <2>4
<1> QED
  BY InitReply, <1>1, <1>2, TypeCorrect, PTL DEF Spec

(* A result that has been set stays as it is: a late reply, a second one, or the
   failure of a send finds no callback and changes nothing. *)
THEOREM ResultsStay == Spec => ResultIsFinal
<1>1. TypeOK /\ ControlInv /\ ReplyInv /\ [Next]_vars => ReplyInv'
  BY NextReply
<1>2. TypeOK /\ ReplyInv /\ [Next]_vars
         => [\A s \in SeqNo : result[s] # Unset => result'[s] = result[s]]_vars
  <2> SUFFICES ASSUME TypeOK, ReplyInv, Next, NEW s \in SeqNo, result[s] # Unset
               PROVE  result'[s] = result[s]
    OBVIOUS
  <2>1. s \notin callbacks
    BY DEF ReplyInv, FinalInv
  <2>2. ASSUME NEW x, NEW v, Resolve(x, v)
        PROVE  result'[s] = result[s]
    BY <2>1, <2>2 DEF Resolve, TypeOK, TableTypeOK
  <2>3. ASSUME NEW t \in Thread,
               ThreadStep(t) \/ ClientCalls(t) \/ HandlerCalls(t) \/ ClientCloses(t) \/ UnboxFails(t)
        PROVE  result'[s] = result[s]
    <3>1. CASE DispatchReply(t)
      BY <2>2, <3>1 DEF DispatchReply
    <3>2. CASE ~DispatchReply(t)
      <4>1. result' = result
        BY <2>3, <3>2
           DEF ThreadStep, ClientCalls, HandlerCalls, ClientCloses, UnboxFails, SendRequest,
               SendReply, HandlerReturns, WaitDone, ServeAllEnds, ServeEnter, ServeWoken, PollEnter,
               PollData, PollEOF, PollWoken, Release, DispatchRequest, NotifyStream, NotifyAll,
               Raise, CloseOnEOF, CloseTest, CloseSet, Issue, CleanupChannel, CleanupDrain,
               CleanupRoot, StopSending, JoinSender, CleanupClear, tableVars
      <4> QED
        BY <4>1
    <3> QED
      BY <3>1, <3>2
  <2>4. CASE SenderStep
    BY <2>2, <2>4 DEF SenderStep, SenderTake, SenderWoken, SenderSends, SenderFails,
                      SenderReports, SenderNotifies, tableVars
  <2>5. CASE \/ \E r \in SeqNo : Expire(r) \/ PeerAnswers(r)
             \/ PeerReceives \/ PeerShuts
             \/ \E r \in PeerRequest : PeerAsks(r) \/ PeerAsksClose(r)
    BY <2>5 DEF Expire, PeerAnswers, PeerReceives, PeerShuts, PeerAsks, PeerAsksClose,
                PeerStep, tableVars
  <2> QED
    BY <2>3, <2>4, <2>5 DEF Next
<1> QED
  BY InitReply, <1>1, <1>2, TypeCorrect, PTL DEF Spec, ResultIsFinal

-----------------------------------------------------------------------------
(* ImplementsTable.  Of the table of requests an operation either takes the next
   number, ends one request, forgets some, or leaves it alone. *)

(* A send fails, is refused, or is stopped only when the socket is gone, and a
   cleanup has taken it away before anything else. *)
GoneInv ==
    /\ sendExc \/ sender = "fail" \/ ~sendLoop => ~sockOpen
    /\ \A t \in Thread : pc[t] \in {"drain", "disconnect", "stop", "join", "clear"} => ~sockOpen

(* A step of a thread that is neither part of a cleanup nor opens the socket. *)
GoneKept ==
    /\ UNCHANGED <<sender, sendExc, sendLoop>>
    /\ sockOpen' => sockOpen
    /\ \A t \in Thread : pc'[t] \in {"drain", "disconnect", "stop", "join", "clear"} => pc'[t] = pc[t]

(* Such a step cannot break what GoneInv says of the other threads. *)
LEMMA GoneKeptSafe ==
    ASSUME GoneInv, GoneKept
    PROVE  GoneInv'
BY DEF GoneInv, GoneKept

(* Every operation of a thread outside of a cleanup is such a step. *)
LEMMA GoneIsKept ==
    ASSUME TypeOK, ControlInv, NEW t \in Thread,
           ThreadStep(t) \/ ClientCalls(t) \/ HandlerCalls(t) \/ ClientCloses(t) \/ UnboxFails(t),
           ~CleanupChannel(t), ~CleanupDrain(t), ~CleanupRoot(t), ~StopSending(t),
           ~JoinSender(t), ~CleanupClear(t)
    PROVE  GoneKept
<1>1. CleanKept
  BY CleanIsKept
<1>2. sendExc' = sendExc
  BY DEF ThreadStep, ClientCalls, HandlerCalls, ClientCloses, UnboxFails, SendRequest,
         SendReply, Enqueue, HandlerReturns, WaitDone, ServeAllEnds, ServeEnter, ServeWoken,
         PollEnter, PollData, PollEOF, PollWoken, Release, DispatchReply, DispatchRequest, NotifyStream, NotifyAll,
         Raise, CloseOnEOF, CloseTest, CloseSet, sendVars
<1> QED
  BY <1>1, <1>2 DEF CleanKept, GoneKept

(* Nothing fails and nothing is cleaned up before the socket is gone. *)
LEMMA NextGone ==
    ASSUME TypeOK, ControlInv, GoneInv, [Next]_vars
    PROVE  GoneInv'
<1>1. ASSUME NEW t \in Thread,
             ThreadStep(t) \/ ClientCalls(t) \/ HandlerCalls(t) \/ ClientCloses(t) \/ UnboxFails(t)
      PROVE  GoneInv'
  <2>1. CASE \/ CleanupChannel(t) \/ CleanupDrain(t) \/ CleanupRoot(t)
             \/ StopSending(t) \/ JoinSender(t) \/ CleanupClear(t)
    <3>1. ~sockOpen'
      BY <2>1 DEF CleanupChannel, CleanupDrain, CleanupRoot, StopSending, JoinSender,
                  CleanupClear, GoneInv, netVars
    <3> QED
      BY <3>1 DEF GoneInv
  <2>2. CASE ~(\/ CleanupChannel(t) \/ CleanupDrain(t) \/ CleanupRoot(t)
               \/ StopSending(t) \/ JoinSender(t) \/ CleanupClear(t))
    BY <1>1, <2>2, GoneIsKept, GoneKeptSafe
  <2> QED
    BY <2>1, <2>2
<1>2. CASE SenderStep
  <2>1. pc' = pc /\ (sockOpen' => sockOpen)
    BY <1>2 DEF SenderStep, SenderTake, SenderWoken, SenderSends, SenderFails, SenderReports,
                SenderNotifies, threadVars, netVars
  <2>2. sendExc' \/ sender' = "fail" \/ ~sendLoop' => ~sockOpen'
    BY <1>2 DEF SenderStep, SenderTake, SenderWoken, SenderSends, SenderFails, SenderReports,
                SenderNotifies, netVars, GoneInv
  <2> QED
    BY <2>1, <2>2 DEF GoneInv
<1>3. CASE \/ \E s \in SeqNo : Expire(s) \/ PeerAnswers(s)
           \/ PeerReceives \/ PeerShuts
           \/ \E r \in PeerRequest : PeerAsks(r) \/ PeerAsksClose(r)
  <2>1. GoneKept
    BY <1>3 DEF Expire, PeerAnswers, PeerReceives, PeerShuts, PeerAsks, PeerAsksClose, PeerStep,
                threadVars, sendVars, netVars, GoneKept
  <2> QED
    BY <2>1, GoneKeptSafe
<1>4. CASE UNCHANGED vars
  BY <1>4 DEF vars, threadVars, sendVars, netVars, GoneInv
<1> QED
  BY <1>1, <1>2, <1>3, <1>4 DEF Next

(* The open requests are those whose callback is registered, the used ones those
   below the counter. *)
LEMMA FateIs ==
    ASSUME TypeOK, FinalInv, NEW s \in SeqNo
    PROVE  /\ Fate(s) = "open" <=> s \in callbacks
           /\ Fate(s) = "unused" <=> s >= seqcounter
<1>1. s \in Nat /\ seqcounter \in Nat
  BY SeqNoType DEF TypeOK, TableTypeOK
<1>2. /\ s \in callbacks => result[s] = Unset /\ ~(s >= seqcounter)
      /\ result[s] # Unset => ~(s >= seqcounter)
      /\ result[s] \in {Unset, SendFailed, s}
  BY <1>1, SeqNoType DEF FinalInv
<1> QED
  BY <1>1, <1>2 DEF Fate, Unset, SendFailed

(* A new request is the first unused one. *)
LEMMA TableMake ==
    ASSUME TypeOK, FinalInv, NEW t \in Thread, Issue(t), UNCHANGED <<handed, sockOpen>>
    PROVE  Table!Next
<1>1. /\ seqcounter \in SeqNo /\ seqcounter' = seqcounter + 1
      /\ callbacks' = callbacks \cup {seqcounter}
      /\ result' = result /\ expired' = expired
  BY DEF Issue
<1>2. SeqNo \subseteq Nat
  BY SeqNoType
<1>3. result[seqcounter] = Unset /\ \A s \in SeqNo : result[s] \in {Unset, SendFailed, s}
  BY <1>1, <1>2 DEF FinalInv
<1>4. \A s \in SeqNo : Fate(s)' = IF s = seqcounter THEN "open" ELSE Fate(s)
  BY <1>1, <1>2, <1>3 DEF Fate, Unset, SendFailed
<1>5. \A r \in SeqNo : r < seqcounter => Fate(r) # "unused"
  BY <1>1, <1>2, FateIs
<1>6. Fate(seqcounter) = "unused"
  BY <1>1, <1>2, FateIs
<1>7. Table!Make(seqcounter)
  BY <1>1, <1>4, <1>5, <1>6 DEF Table!Make, Table!Used
<1> QED
  BY <1>1, <1>7 DEF Table!Next

(* The outcome of a request ends it; without a callback it changes nothing. *)
LEMMA TableResolve ==
    ASSUME TypeOK, FinalInv, NEW x, NEW v, Resolve(x, v),
           UNCHANGED <<seqcounter, expired, handed, sockOpen>>,
           x \in callbacks => \/ v = x /\ x \in handed
                              \/ v = SendFailed /\ ~sockOpen
    PROVE  [Table!Next]_(Table!vars)
<1>1. CASE x \notin callbacks
  <2>1. callbacks' = callbacks /\ result' = result
    BY <1>1 DEF Resolve
  <2>2. \A s \in SeqNo : Fate(s)' = Fate(s)
    BY <2>1 DEF Fate
  <2> QED
    BY <2>2 DEF Table!vars
<1>2. CASE x \in callbacks
  <2>1. x \in SeqNo /\ x \in Nat /\ x < seqcounter /\ seqcounter \in Nat
    BY <1>2, SeqNoType DEF FinalInv, TypeOK, TableTypeOK
  <2>2. Fate(x) = "open" /\ result[x] = Unset
    BY <1>2, <2>1, FateIs DEF FinalInv
  <2>3. \A s \in SeqNo \ {x} : Fate(s)' = Fate(s)
    BY DEF Fate, Resolve, TypeOK, TableTypeOK
  <2>4. x \notin callbacks'
    BY DEF Resolve
  <2>5. x \in Table!Open
    BY <2>1, <2>2 DEF Table!Open
  <2>6. CASE x \in expired
    <3>1. Fate(x)' = "dropped"
      BY <2>1, <2>2, <2>4, <2>6 DEF Fate, Resolve, Unset, SendFailed
    <3>2. Table!End(x, "answered") /\ Table!End(x, "failed")
      BY <2>1, <2>3, <2>5, <2>6, <3>1 DEF Table!End
    <3> QED
      BY <1>2, <2>1, <3>2 DEF Table!Next, Table!Answer, Table!Fail
  <2>7. CASE x \notin expired
    <3>1. result'[x] = v
      BY <1>2, <2>1, <2>7 DEF Resolve, TypeOK, TableTypeOK
    <3>2. CASE v = x /\ x \in handed
      <4>1. Fate(x)' = "answered"
        BY <2>1, <3>1, <3>2 DEF Fate, Unset, SendFailed
      <4>2. Table!Answer(x)
        BY <2>1, <2>3, <2>5, <2>7, <3>2, <4>1 DEF Table!End, Table!Answer
      <4> QED
        BY <2>1, <4>2 DEF Table!Next
    <3>3. CASE v = SendFailed /\ ~sockOpen
      <4>1. Fate(x)' = "failed"
        BY <2>1, <3>1, <3>3 DEF Fate, Unset, SendFailed
      <4>2. Table!Fail(x)
        BY <2>1, <2>3, <2>5, <2>7, <3>3, <4>1 DEF Table!End, Table!Fail
      <4> QED
        BY <2>1, <4>2 DEF Table!Next
    <3> QED
      BY <1>2, <3>2, <3>3
  <2> QED
    BY <2>6, <2>7
<1> QED
  BY <1>1, <1>2

(* Callbacks that are given up once the socket is gone. *)
LEMMA TableDrop ==
    ASSUME TypeOK, FinalInv, ~sockOpen, callbacks' \subseteq callbacks,
           UNCHANGED <<seqcounter, result, expired, handed, sockOpen>>
    PROVE  Table!Next
<1> DEFINE S == callbacks \ callbacks'
<1>1. S \subseteq SeqNo
  BY DEF TypeOK, TableTypeOK
<1>2. S \subseteq Table!Open
  BY <1>1, FateIs DEF Table!Open
<1>3. \A s \in SeqNo : Fate(s)' = IF s \in S THEN "dropped" ELSE Fate(s)
  <2> TAKE s \in SeqNo
  <2>1. s \in Nat /\ result[s] \in {Unset, SendFailed, s}
    BY SeqNoType DEF FinalInv
  <2>2. s \in S => result[s] = Unset /\ s < seqcounter
    BY DEF FinalInv
  <2> QED
    BY <2>1, <2>2 DEF Fate, Unset, SendFailed
<1>4. Table!Drop(S)
  BY <1>2, <1>3 DEF Table!Drop
<1> QED
  BY <1>1, <1>4 DEF Table!Next

(* A step that leaves the requests and what was sent alone. *)
TableKept ==
    UNCHANGED <<seqcounter, callbacks, result, expired, handed>> /\ (sockOpen' => sockOpen)

(* Of the abstract table it is at most the loss of the stream. *)
LEMMA TableKeptSafe ==
    ASSUME TypeOK, TypeOK', TableKept
    PROVE  [Table!Next]_(Table!vars)
<1>1. \A s \in SeqNo : Fate(s)' = Fate(s)
  BY DEF TableKept, Fate
<1>2. sockOpen' \in BOOLEAN /\ expired' = expired /\ handed' = handed
  BY DEF TypeOK, NetTypeOK, TableKept
<1>3. CASE ~sockOpen'
  <2>1. sockOpen' = FALSE \/ sockOpen' = sockOpen
    BY <1>2, <1>3 DEF TableKept
  <2> QED
    BY <1>1, <1>2, <2>1 DEF Table!Next, Table!Disconnect, Table!vars
<1>4. CASE sockOpen'
  BY <1>1, <1>2, <1>4 DEF TableKept, Table!vars
<1> QED
  BY <1>3, <1>4

(* The operations of a thread: three of them make a request, __send may refuse
   one, a reply answers one, a cleanup forgets all. *)
LEMMA TableThread ==
    ASSUME TypeOK, ControlInv, ReplyInv, GoneInv, TypeOK', ReplyInv', NEW t \in Thread,
           ThreadStep(t) \/ ClientCalls(t) \/ HandlerCalls(t) \/ ClientCloses(t) \/ UnboxFails(t)
    PROVE  [Table!Next]_(Table!vars)
<1>1. FinalInv
  BY DEF ReplyInv
<1>2. CASE ClientCalls(t) \/ HandlerCalls(t) \/ CloseSet(t)
  BY <1>1, <1>2, TableMake DEF ClientCalls, HandlerCalls, CloseSet, sendVars, netVars
<1>3. CASE SendRequest(t)
  <2>1. CASE sendLoop
    <3>1. TableKept
      BY <1>3, <2>1 DEF SendRequest, Enqueue, TableKept, tableVars, netVars
    <3> QED
      BY <3>1, TableKeptSafe
  <2>2. CASE ~sendLoop
    <3>1. ~sockOpen
      BY <2>2 DEF GoneInv
    <3>2. /\ callbacks' \subseteq callbacks
          /\ UNCHANGED <<seqcounter, result, expired, handed, sockOpen>>
      BY <1>3, <2>2 DEF SendRequest, sendVars, netVars
    <3> QED
      BY <1>1, <3>1, <3>2, TableDrop
  <2> QED
    BY <2>1, <2>2
<1>4. CASE DispatchReply(t)
  <2>1. PICK stage \in [Nat -> Stage] : Journey(stage)
    BY DEF ReplyInv, JourneyInv
  <2>2. msg[t].type = "reply" /\ msg[t].seq \in Nat
    BY <1>4, SeqsAreNumbers DEF DispatchReply
  <2>3. msg[t].seq \in handed
    BY <2>1, <2>2 DEF Journey, Sent
  <2>4. /\ Resolve(msg[t].seq, msg[t].seq)
        /\ UNCHANGED <<seqcounter, expired, handed, sockOpen>>
    BY <1>4 DEF DispatchReply, sendVars, netVars
  <2> QED
    BY <1>1, <2>3, <2>4, TableResolve
<1>5. CASE CleanupClear(t)
  <2>1. ~sockOpen
    BY <1>5 DEF CleanupClear, GoneInv
  <2>2. /\ callbacks' \subseteq callbacks
        /\ UNCHANGED <<seqcounter, result, expired, handed, sockOpen>>
    BY <1>5 DEF CleanupClear, sendVars, netVars
  <2> QED
    BY <1>1, <2>1, <2>2, TableDrop
<1>6. CASE ~(\/ ClientCalls(t) \/ HandlerCalls(t) \/ CloseSet(t) \/ SendRequest(t)
             \/ DispatchReply(t) \/ CleanupClear(t))
  <2>1. TableKept
    BY <1>6 DEF ThreadStep, ClientCloses, UnboxFails, SendReply, Enqueue, HandlerReturns, WaitDone,
                ServeAllEnds, ServeEnter, ServeWoken, PollEnter, PollData, PollEOF, PollWoken,
                Release, DispatchRequest, NotifyStream, NotifyAll, Raise, CloseOnEOF, CloseTest,
                CleanupChannel, CleanupDrain, CleanupRoot, StopSending, JoinSender, sendVars,
                netVars, tableVars, TableKept
  <2> QED
    BY <2>1, TableKeptSafe
<1> QED
  BY <1>2, <1>3, <1>4, <1>5, <1>6

(* The send thread gives a request to the peer, or reports that it could not. *)
LEMMA TableSender ==
    ASSUME TypeOK, ControlInv, ReplyInv, GoneInv, TypeOK', SenderStep
    PROVE  [Table!Next]_(Table!vars)
<1>1. FinalInv
  BY DEF ReplyInv
<1>2. CASE SenderSends /\ sending.type = "request"
  <2>1. PICK stage \in [Nat -> Stage] : Journey(stage)
    BY DEF ReplyInv, JourneyInv
  <2>2. sending.seq \in Nat /\ seqcounter \in 0 .. MaxSeq /\ MaxSeq \in Nat
    BY <1>2, SeqsAreNumbers, SeqNoType DEF TypeOK, TableTypeOK
  <2>3. sending.seq < seqcounter
    BY <1>2, <2>1, <2>2 DEF Journey
  <2>4. sending.seq \in SeqNo
    BY <2>2, <2>3 DEF SeqNo
  <2>5. Fate(sending.seq) # "unused"
    BY <1>1, <2>2, <2>3, <2>4, FateIs
  <2>6. /\ sockOpen /\ sockOpen' = sockOpen /\ handed' = handed \cup {sending.seq}
        /\ UNCHANGED <<seqcounter, callbacks, result, expired>>
    BY <1>2 DEF SenderSends, tableVars
  <2>7. \A s \in SeqNo : Fate(s)' = Fate(s)
    BY <2>6 DEF Fate
  <2>8. Table!Transmit(sending.seq)
    BY <2>4, <2>5, <2>6, <2>7 DEF Table!Transmit, Table!Used
  <2> QED
    BY <2>4, <2>8 DEF Table!Next
<1>3. CASE SenderReports
  <2>1. /\ Resolve(sending.seq, SendFailed) /\ ~sockOpen
        /\ UNCHANGED <<seqcounter, expired, handed, sockOpen>>
    BY <1>3 DEF SenderReports, GoneInv, netVars
  <2> QED
    BY <1>1, <2>1, TableResolve
<1>4. CASE ~SenderReports /\ ~(SenderSends /\ sending.type = "request")
  <2>1. UNCHANGED tableVars /\ (sockOpen' => sockOpen)
    BY <1>4 DEF SenderStep, SenderTake, SenderWoken, SenderSends, SenderFails, SenderNotifies,
                netVars
  <2>2. handed' = handed
    <3>1. CASE SenderSends
      <4>1. handed' = handed \cup {}
        BY <1>4, <3>1 DEF SenderSends
      <4> QED
        BY <4>1
    <3>2. CASE ~SenderSends
      BY <1>4, <3>2 DEF SenderStep, SenderTake, SenderWoken, SenderFails, SenderNotifies
    <3> QED
      BY <3>1, <3>2
  <2> QED
    BY <2>1, <2>2, TableKeptSafe DEF TableKept, tableVars
<1> QED
  BY <1>2, <1>3, <1>4

(* Every step of the connection is one of the table, or none. *)
LEMMA NextTable ==
    ASSUME TypeOK, ControlInv, ReplyInv, GoneInv, TypeOK', ReplyInv', [Next]_vars
    PROVE  [Table!Next]_(Table!vars)
<1>1. ASSUME NEW t \in Thread,
             ThreadStep(t) \/ ClientCalls(t) \/ HandlerCalls(t) \/ ClientCloses(t) \/ UnboxFails(t)
      PROVE  [Table!Next]_(Table!vars)
  BY <1>1, TableThread
<1>2. CASE SenderStep
  BY <1>2, TableSender
<1>3. ASSUME NEW s \in SeqNo, Expire(s)
      PROVE  [Table!Next]_(Table!vars)
  <2>1. /\ s < seqcounter /\ expired' = expired \cup {s}
        /\ UNCHANGED <<seqcounter, callbacks, result, handed, sockOpen>>
    BY <1>3 DEF Expire, sendVars, netVars
  <2>2. \A r \in SeqNo : Fate(r)' = Fate(r)
    BY <2>1 DEF Fate
  <2>3. s \in Nat /\ seqcounter \in Nat /\ FinalInv
    BY SeqNoType DEF TypeOK, TableTypeOK, ReplyInv
  <2>4. Fate(s) # "unused"
    BY <2>1, <2>3, FateIs
  <2>5. Table!Expire(s)
    BY <2>1, <2>2, <2>4 DEF Table!Expire, Table!Used
  <2> QED
    BY <2>5 DEF Table!Next
<1>4. CASE \/ \E s \in SeqNo : PeerAnswers(s)
           \/ PeerReceives \/ PeerShuts
           \/ \E r \in PeerRequest : PeerAsks(r) \/ PeerAsksClose(r)
           \/ UNCHANGED vars
  <2>1. TableKept
    BY <1>4 DEF PeerAnswers, PeerReceives, PeerShuts, PeerAsks, PeerAsksClose, PeerStep,
                vars, sendVars, netVars, tableVars, TableKept
  <2> QED
    BY <2>1, TableKeptSafe
<1> QED
  BY <1>1, <1>2, <1>3, <1>4 DEF Next

(* The connection implements the table of requests that knows of no threads: a
   request ends at most once, answered only after it was given to the peer, failed
   only on a lost stream, forgotten only after its deadline or with the stream. *)
THEOREM ConnectionImplements == Spec => ImplementsTable
<1>1. Init => GoneInv
  BY DEF Init, GoneInv
<1>2. TypeOK /\ ControlInv /\ ReplyInv /\ [Next]_vars => ReplyInv'
  BY NextReply
<1>3. TypeOK /\ ControlInv /\ GoneInv /\ [Next]_vars => GoneInv'
  BY NextGone
<1>4. Init => Table!Init
  <2> SUFFICES ASSUME Init
               PROVE  Table!Init
    OBVIOUS
  <2>1. \A s \in SeqNo : Fate(s) = "unused"
    BY SeqNoType DEF Init, Fate, Unset, SendFailed
  <2> QED
    BY <2>1 DEF Init, Table!Init
<1>5. TypeOK /\ ControlInv /\ ReplyInv /\ GoneInv /\ TypeOK' /\ ReplyInv' /\ [Next]_vars
         => [Table!Next]_(Table!vars)
  BY NextTable
<1> QED
  BY InitReply, <1>1, <1>2, <1>3, <1>4, <1>5, TypeCorrect, PTL
     DEF Spec, ImplementsTable, Table!Spec
=============================================================================
