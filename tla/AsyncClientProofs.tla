-------------------------- MODULE AsyncClientProofs --------------------------
(***************************************************************************)
(* Safety of the two objects that an asynchronous client works with:       *)
(* AsyncResult, for any number of threads that wait, ask, add callbacks    *)
(* and set the expiry of one result, and BgServing, for any number of      *)
(* users and calls.                                                        *)
(***************************************************************************)
EXTENDS AsyncResult, BgServing, TLAPS

-----------------------------------------------------------------------------
(* AsyncResult *)

(* The attributes and the positions of the threads are well typed. *)
THEOREM TypesAreKept == ResultSpec => []ResultTypeOK
<1>1. ASSUME ResultInit PROVE ResultTypeOK
  <2>1. callbacks \in Seq(Adder) /\ due \subseteq Adder /\ armed \subseteq Waiter
    BY <1>1 DEF ResultInit
  <2>2. isExc = Unset /\ obj = Unset /\ (ttl = "none" \/ ttl = "running")
    BY <1>1 DEF ResultInit
  <2>3. isReady \in BOOLEAN /\ arg \in Outcome
    BY <1>1 DEF ResultInit
  <2>4. idx \in Nat \ {0}
    BY <1>1 DEF ResultInit
  <2>5. at \in [Thread -> {"start", "exc", "obj", "ready", "loop", "del", "raised",
                         "append", "serve", "check", "read", "expired", "poll", "isexc", "done"}]
    BY <1>1 DEF ResultInit
  <2>6. got \in [Waiter \cup Asker ->
                   {"none", "timeout", "pending", "mixed", Unset} \cup Outcome]
    BY <1>1 DEF ResultInit
  <2>7. ran \in [Adder -> Nat]
    BY <1>1 DEF ResultInit
  <2> QED
    BY <2>1, <2>2, <2>3, <2>4, <2>5, <2>6, <2>7 DEF ResultTypeOK
<1>2. ASSUME ResultTypeOK, [ResultNext]_resultVars PROVE ResultTypeOK'
  <2> USE <1>2 DEF ResultTypeOK, Outcome, Move
  <2>1. CASE Expire
    BY <2>1 DEF Expire
  <2>2. CASE Call
    <3>1. CASE CallCheck
      BY <3>1 DEF CallCheck, Thread
    <3>2. CASE CallSetExc
      BY <3>2 DEF CallSetExc, Thread
    <3>3. CASE CallSetObj
      BY <3>3 DEF CallSetObj, Thread
    <3>4. CASE CallSetReady
      <4>1. {callbacks[i] : i \in DOMAIN callbacks} \subseteq Adder
        BY <3>4
      <4> QED
        BY <3>4, <4>1 DEF CallSetReady, Thread
    <3>5. CASE CallNextCallback
      <4>1. idx <= Len(callbacks) => callbacks[idx] \in Adder
        BY <3>5
      <4>2. ran' \in [Adder -> Nat] /\ idx' \in Nat \ {0}
        <5>1. CASE idx <= Len(callbacks)
          <6>1. /\ callbacks[idx] \in Adder /\ idx' = idx + 1
                /\ ran' = [ran EXCEPT ![callbacks[idx]] = ran[callbacks[idx]] + 1]
            BY <3>5, <4>1, <5>1 DEF CallNextCallback
          <6>2. ran' \in [Adder -> Nat]
            BY <6>1
          <6>3. idx' \in Nat \ {0}
            BY <6>1
          <6> QED
            BY <6>2, <6>3
        <5>2. CASE ~(idx <= Len(callbacks))
          BY <3>5, <5>2 DEF CallNextCallback
        <5> QED
          BY <5>1, <5>2
      <4>3. at' = at \/ at' = [at EXCEPT ![Dispatch] = "del"]
        BY <3>5 DEF CallNextCallback
      <4>4. UNCHANGED <<isReady, isExc, obj, callbacks, ttl, armed, arg, got, due>>
        BY <3>5 DEF CallNextCallback
      <4> QED
        BY <4>2, <4>3, <4>4 DEF Thread
    <3>6. CASE CallClear
      BY <3>6 DEF CallClear, Thread
    <3>7. CASE CallbackRaises
      <4>1. callbacks[idx] \in Adder
        BY <3>7 DEF CallbackRaises
      <4>2. /\ ran' = [ran EXCEPT ![callbacks[idx]] = ran[callbacks[idx]] + 1]
            /\ at' = [at EXCEPT ![Dispatch] = "raised"]
            /\ UNCHANGED <<isReady, isExc, obj, callbacks, ttl, armed, arg, idx, got, due>>
        BY <3>7 DEF CallbackRaises
      <4>3. ran' \in [Adder -> Nat]
        BY <4>1, <4>2
      <4>4. at' \in [Thread -> {"start", "exc", "obj", "ready", "loop", "del", "raised",
                         "append", "serve", "check", "read", "expired", "poll", "isexc", "done"}]
        BY <4>2 DEF Thread
      <4> QED
        BY <4>2, <4>3, <4>4
    <3> QED
      BY <2>2, <3>1, <3>2, <3>3, <3>4, <3>5, <3>6, <3>7 DEF Call
  <2>3. CASE \E t \in Setter : SetExpiry(t)
    BY <2>3 DEF SetExpiry, Thread
  <2>4. ASSUME NEW a \in Adder, AddTest(a) \/ AddAppend(a) PROVE ResultTypeOK'
    <3>1. CASE AddTest(a)
      <4>1. a \in Thread /\ ran[a] + 1 \in Nat
        BY <2>4 DEF Thread
      <4> QED
        BY <2>4, <3>1, <4>1 DEF AddTest
    <3>2. CASE AddAppend(a)
      BY <3>2, <2>4 DEF AddAppend, Thread
    <3> QED
      BY <2>4, <3>1, <3>2
  <2>5. ASSUME NEW w \in Waiter, WaiterStep(w) PROVE ResultTypeOK'
    <3>1. CASE WaitTest(w)
      BY <3>1 DEF WaitTest, Thread
    <3>2. CASE ServeReturns(w)
      BY <3>2 DEF ServeReturns, Thread
    <3>3. CASE WaitCheck(w)
      BY <3>3 DEF WaitCheck, Thread
    <3>4. CASE ReadValue(w)
      BY <3>4 DEF ReadValue, Thread
    <3> QED
      BY <2>5, <3>1, <3>2, <3>3, <3>4 DEF WaiterStep
  <2>6. ASSUME NEW k \in Asker, Ask(k) PROVE ResultTypeOK'
    <3>1. CASE AskReady(k)
      BY <3>1 DEF AskReady, Thread
    <3>2. CASE AskExpired(k)
      BY <3>2 DEF AskExpired, Answer, Thread
    <3>3. CASE AskPolled(k)
      BY <3>3 DEF AskPolled, Answer, Thread
    <3>4. CASE AskIsExc(k)
      BY <3>4 DEF AskIsExc, Answer, Thread
    <3> QED
      BY <2>6, <3>1, <3>2, <3>3, <3>4 DEF Ask
  <2>7. CASE UNCHANGED resultVars
    BY <2>7 DEF resultVars
  <2> QED
    BY <1>2, <2>1, <2>2, <2>3, <2>4, <2>5, <2>6, <2>7 DEF ResultNext
<1> QED
  BY <1>1, <1>2, PTL DEF ResultSpec

-----------------------------------------------------------------------------
(* The object is stored before _is_ready is set, and nothing changes it then. *)
StoredInv ==
    /\ isReady => isExc = arg /\ obj = arg /\ at[Dispatch] \in {"loop", "del", "raised", "done"}
    /\ at[Dispatch] \in {"obj", "ready"} => isExc = arg
    /\ at[Dispatch] = "ready" => obj = arg
    /\ \A t \in Waiter \cup Asker : at[t] \in {"read", "isexc"} => isReady
    /\ ValueIsTheReply

(* __call__ stores the reply in the order that StoredInv is about. *)
LEMMA CallStores ==
    ASSUME ResultTypeOK, StoredInv, Call
    PROVE  StoredInv'
<1>1. Dispatch \in Thread /\ Dispatch \notin Waiter \cup Asker /\ Waiter \cup Asker \subseteq Thread
  BY ThreadsDistinct DEF Thread
<1> USE <1>1 DEF ResultTypeOK, StoredInv, ValueIsTheReply, Move
<1>2. CASE CallCheck
  BY <1>2 DEF CallCheck
<1>3. CASE CallSetExc
  BY <1>3 DEF CallSetExc
<1>4. CASE CallSetObj
  BY <1>4 DEF CallSetObj
<1>5. CASE CallSetReady
  BY <1>5 DEF CallSetReady
<1>6. CASE CallNextCallback
  BY <1>6 DEF CallNextCallback
<1>7. CASE CallClear
  BY <1>7 DEF CallClear
<1>8. CASE CallbackRaises
  BY <1>8 DEF CallbackRaises
<1> QED
  BY <1>2, <1>3, <1>4, <1>5, <1>6, <1>7, <1>8 DEF Call

Told(t) == got'[t] = got[t] \/ got'[t] \in {"timeout", "pending", arg}

(* A thread that goes to where the outcome is read must know that it is there. *)
LEMMA OthersKeep ==
    ASSUME ResultTypeOK, StoredInv,
           NEW u \in Thread \ {Dispatch}, NEW l, at' = [at EXCEPT ![u] = l],
           l \notin {"read", "isexc"} \/ isReady,
           \A t \in Waiter \cup Asker : Told(t),
           UNCHANGED <<isReady, isExc, obj, arg>>
    PROVE  StoredInv'
<1>1. Dispatch \in Thread /\ Waiter \cup Asker \subseteq Thread
  BY DEF Thread
<1>2. at'[Dispatch] = at[Dispatch]
  BY <1>1 DEF ResultTypeOK
<1>3. ASSUME NEW t \in Waiter \cup Asker, at'[t] \in {"read", "isexc"} PROVE isReady'
  <2>1. CASE t = u
    BY <1>1, <1>3, <2>1 DEF ResultTypeOK
  <2>2. CASE t # u
    BY <1>1, <1>3, <2>2 DEF ResultTypeOK, StoredInv
  <2> QED
    BY <2>1, <2>2
<1>4. ValueIsTheReply'
  BY DEF StoredInv, ValueIsTheReply, Told
<1>5. /\ isReady' => isExc' = arg' /\ obj' = arg' /\ at'[Dispatch] \in {"loop", "del", "raised", "done"}
      /\ at'[Dispatch] \in {"obj", "ready"} => isExc' = arg'
      /\ at'[Dispatch] = "ready" => obj' = arg'
  BY <1>2 DEF StoredInv
<1> QED
  BY <1>3, <1>4, <1>5 DEF StoredInv

(* Whoever reads the outcome has seen _is_ready before. *)
LEMMA ReadersAreTold ==
    ASSUME ResultTypeOK, StoredInv,
           \/ \E w \in Waiter : WaiterStep(w)
           \/ \E k \in Asker : Ask(k)
    PROVE  StoredInv'
<1>1. Waiter \cup Asker \subseteq Thread \ {Dispatch}
  BY ThreadsDistinct DEF Thread
<1> USE <1>1 DEF Move, Told
<1>2. ASSUME NEW w \in Waiter, WaiterStep(w) PROVE StoredInv'
  <2>1. CASE WaitTest(w)
    BY <2>1, OthersKeep DEF WaitTest
  <2>2. CASE ServeReturns(w)
    BY <2>2, OthersKeep DEF ServeReturns
  <2>3. CASE WaitCheck(w)
    <3>1. \A t \in Waiter \cup Asker : Told(t)
      BY <2>3 DEF WaitCheck, ResultTypeOK
    <3> QED
      BY <2>3, <3>1, OthersKeep DEF WaitCheck
  <2>4. CASE ReadValue(w)
    <3>1. isExc = arg /\ obj = arg
      BY <2>4 DEF ReadValue, StoredInv
    <3>2. \A t \in Waiter \cup Asker : Told(t)
      BY <2>4, <3>1 DEF ReadValue, ResultTypeOK
    <3> QED
      BY <2>4, <3>2, OthersKeep DEF ReadValue
  <2> QED
    BY <1>2, <2>1, <2>2, <2>3, <2>4 DEF WaiterStep
<1>3. ASSUME NEW k \in Asker, Ask(k) PROVE StoredInv'
  <2>1. CASE AskReady(k)
    BY <2>1, OthersKeep DEF AskReady
  <2>2. CASE AskExpired(k)
    <3>1. \A t \in Waiter \cup Asker : Told(t)
      BY <2>2 DEF AskExpired, Answer, ResultTypeOK
    <3> QED
      BY <2>2, <3>1, OthersKeep DEF AskExpired, Answer
  <2>3. CASE AskPolled(k)
    <3>1. \A t \in Waiter \cup Asker : Told(t)
      BY <2>3 DEF AskPolled, Answer, ResultTypeOK
    <3> QED
      BY <2>3, <3>1, OthersKeep DEF AskPolled, Answer
  <2>4. CASE AskIsExc(k)
    <3>1. isExc = arg
      BY <2>4 DEF AskIsExc, StoredInv
    <3>2. \A t \in Waiter \cup Asker : Told(t)
      BY <2>4, <3>1 DEF AskIsExc, Answer, ResultTypeOK
    <3> QED
      BY <2>4, <3>2, OthersKeep DEF AskIsExc, Answer
  <2> QED
    BY <1>3, <2>1, <2>2, <2>3, <2>4 DEF Ask
<1> QED
  BY <1>2, <1>3

LEMMA StoredKept == ResultTypeOK /\ StoredInv /\ [ResultNext]_resultVars => StoredInv'
<1> SUFFICES ASSUME ResultTypeOK, StoredInv, [ResultNext]_resultVars PROVE StoredInv'
  OBVIOUS
<1>1. Adder \cup Setter \subseteq Thread \ {Dispatch}
  BY ThreadsDistinct DEF Thread
<1> USE <1>1 DEF Move, Told
<1>2. CASE Expire
  BY <1>2 DEF Expire, StoredInv, ValueIsTheReply
<1>3. ASSUME NEW t \in Setter, SetExpiry(t) PROVE StoredInv'
  BY <1>3, OthersKeep DEF SetExpiry
<1>4. ASSUME NEW a \in Adder, AddTest(a) \/ AddAppend(a) PROVE StoredInv'
  BY <1>4, OthersKeep DEF AddTest, AddAppend
<1>5. CASE UNCHANGED resultVars
  BY <1>5 DEF resultVars, StoredInv, ValueIsTheReply
<1> QED
  BY <1>2, <1>3, <1>4, <1>5, CallStores, ReadersAreTold DEF ResultNext

(* Whoever reads .value or .error while the reply is being stored without a lock
   is told its outcome, a timeout, or that it is pending. *)
THEOREM ReadersSeeTheReply == ResultSpec => []ValueIsTheReply
<1>1. ResultInit => StoredInv
  BY DEF ResultInit, StoredInv, ValueIsTheReply, Thread
<1>2. StoredInv => ValueIsTheReply
  BY DEF StoredInv
<1> QED
  BY <1>1, <1>2, StoredKept, TypesAreKept, PTL DEF ResultSpec

-----------------------------------------------------------------------------
(* A thread is on the list once, after its append; what the loop has not come to
   has not run; what was on the list when the result became ready has run, or the
   loop will come to it, until a callback raises. *)
ListInv ==
    /\ \A a \in Adder : at[a] \in {"start", "append"} =>
          ran[a] = 0 /\ \A i \in DOMAIN callbacks : callbacks[i] # a
    /\ \A i, j \in DOMAIN callbacks : callbacks[i] = callbacks[j] => i = j

RunInv ==
    /\ \A a \in Adder : ran[a] <= 1
    /\ at[Dispatch] \notin {"raised", "done"} =>
          \A i \in DOMAIN callbacks : i >= idx => ran[callbacks[i]] = 0
    /\ \A a \in due : \/ ran[a] = 1 \/ at[Dispatch] = "raised"
                      \/ /\ at[Dispatch] = "loop"
                         /\ \E i \in DOMAIN callbacks : i >= idx /\ callbacks[i] = a

StartInv == at[Dispatch] \in {"start", "exc", "obj", "ready"} => idx = 1 /\ due = {}
LoopInv  == at[Dispatch] = "loop" => idx <= Len(callbacks) + 1

CallbackInv == ListInv /\ RunInv /\ StartInv /\ LoopInv

(* The steps of __call__. *)
LEMMA CallRuns ==
    ASSUME ResultTypeOK, CallbackInv, Call
    PROVE  CallbackInv'
<1>1. Dispatch \in Thread /\ Dispatch \notin Adder /\ Adder \subseteq Thread
  BY ThreadsDistinct DEF Thread
<1> USE <1>1 DEF ResultTypeOK, CallbackInv, Move
<1>2. CASE CallCheck \/ CallSetExc \/ CallSetObj
  <2>1. /\ \A a \in Adder : at'[a] = at[a]
        /\ at[Dispatch] \in {"start", "exc", "obj"} /\ at'[Dispatch] # "loop"
    BY <1>2 DEF CallCheck, CallSetExc, CallSetObj
  <2>2. UNCHANGED <<callbacks, idx, ran, due>>
    BY <1>2 DEF CallCheck, CallSetExc, CallSetObj
  <2> QED
    BY <2>1, <2>2 DEF ListInv, RunInv, StartInv, LoopInv
<1>3. CASE CallSetReady
  <2>1. /\ \A a \in Adder : at'[a] = at[a]
        /\ at[Dispatch] = "ready" /\ at'[Dispatch] = "loop"
        /\ UNCHANGED <<callbacks, idx, ran>> /\ idx = 1
        /\ due' = {callbacks[i] : i \in DOMAIN callbacks}
    BY <1>3 DEF CallSetReady, StartInv
  <2>2. \A i \in DOMAIN callbacks : i >= idx
    BY <2>1
  <2>3. \A a \in due' : \E i \in DOMAIN callbacks : i >= idx /\ callbacks[i] = a
    BY <2>1, <2>2
  <2>4. RunInv'
    BY <2>1, <2>3 DEF RunInv
  <2>5. ListInv'
    BY <2>1 DEF ListInv
  <2> QED
    BY <2>1, <2>4, <2>5 DEF StartInv, LoopInv
<1>4. CASE CallNextCallback /\ idx <= Len(callbacks)
  <2> DEFINE cb == callbacks[idx]
  <2>1. idx \in DOMAIN callbacks /\ cb \in Adder
    BY <1>4
  <2>2. /\ ran' = [ran EXCEPT ![cb] = @ + 1] /\ idx' = idx + 1
        /\ at[Dispatch] = "loop"
        /\ UNCHANGED <<at, callbacks, due>>
    BY <1>4 DEF CallNextCallback
  <2>3. ran[cb] = 0
    BY <2>1, <2>2 DEF RunInv
  <2> HIDE DEF cb
  <2>4. ran'[cb] = 1 /\ \A a \in Adder \ {cb} : ran'[a] = ran[a]
    BY <2>1, <2>2, <2>3
  <2>5. \A i \in DOMAIN callbacks : i # idx => callbacks[i] \in Adder \ {cb}
    BY <2>1 DEF ListInv, cb
  <2>6. ListInv'
    <3>1. \A a \in Adder : at[a] \in {"start", "append"} => a # cb
      BY <2>1 DEF ListInv, cb
    <3> QED
      BY <2>2, <2>4, <3>1 DEF ListInv
  <2>7. \A a \in Adder : ran'[a] <= 1
    BY <2>1, <2>4 DEF RunInv
  <2>8. \A i \in DOMAIN callbacks : i >= idx' => ran'[callbacks[i]] = 0
    BY <2>1, <2>2, <2>4, <2>5 DEF RunInv
  <2>9. ASSUME NEW a \in due
        PROVE  ran'[a] = 1 \/ \E i \in DOMAIN callbacks : i >= idx' /\ callbacks[i] = a
    <3>1. CASE ran[a] = 1
      BY <2>3, <2>4, <3>1
    <3>2. ASSUME NEW i \in DOMAIN callbacks, i >= idx, callbacks[i] = a
          PROVE  ran'[a] = 1 \/ i >= idx'
      BY <2>1, <2>2, <2>4, <3>2 DEF cb
    <3> QED
      BY <2>2, <3>1, <3>2 DEF RunInv
  <2>10. RunInv'
    BY <2>2, <2>7, <2>8, <2>9 DEF RunInv
  <2> QED
    BY <2>1, <2>2, <2>6, <2>10 DEF StartInv, LoopInv
<1>5. CASE CallNextCallback /\ ~(idx <= Len(callbacks))
  <2>1. /\ \A a \in Adder : at'[a] = at[a]
        /\ at[Dispatch] = "loop" /\ at'[Dispatch] = "del"
        /\ UNCHANGED <<ran, idx, callbacks, due>>
    BY <1>5 DEF CallNextCallback
  <2>2. \A i \in DOMAIN callbacks : ~(i >= idx)
    BY <1>5
  <2> QED
    BY <2>1, <2>2 DEF ListInv, RunInv, StartInv, LoopInv
<1>6. CASE CallClear
  <2>1. /\ \A a \in Adder : at'[a] = at[a]
        /\ at[Dispatch] = "del" /\ at'[Dispatch] = "done"
        /\ callbacks' = <<>> /\ UNCHANGED <<ran, idx, due>>
    BY <1>6 DEF CallClear
  <2> QED
    BY <2>1 DEF ListInv, RunInv, StartInv, LoopInv
<1>7. CASE CallbackRaises
  <2> DEFINE cb == callbacks[idx]
  <2>1. cb \in Adder
    BY <1>7 DEF CallbackRaises
  <2>2. /\ ran' = [ran EXCEPT ![cb] = @ + 1]
        /\ at[Dispatch] = "loop" /\ at'[Dispatch] = "raised"
        /\ \A a \in Adder : at'[a] = at[a]
        /\ UNCHANGED <<callbacks, idx, due>>
    BY <1>1, <1>7 DEF CallbackRaises
  <2>3. ran[cb] = 0
    BY <1>7, <2>2 DEF RunInv, CallbackRaises
  <2>4. \A a \in Adder : at[a] \in {"start", "append"} => a # cb
    BY <1>7 DEF ListInv, CallbackRaises
  <2> HIDE DEF cb
  <2>5. ran'[cb] = 1 /\ \A a \in Adder \ {cb} : ran'[a] = ran[a]
    BY <2>1, <2>2, <2>3
  <2>6. ListInv'
    BY <2>2, <2>4, <2>5 DEF ListInv
  <2>7. RunInv'
    BY <2>1, <2>2, <2>5 DEF RunInv
  <2> QED
    BY <2>2, <2>6, <2>7 DEF StartInv, LoopInv
<1> QED
  BY <1>2, <1>3, <1>4, <1>5, <1>6, <1>7 DEF Call

(* The steps of add_callback. *)
LEMMA AddRuns ==
    ASSUME ResultTypeOK, CallbackInv, NEW a \in Adder, AddTest(a) \/ AddAppend(a)
    PROVE  CallbackInv'
<1>1. a \in Thread /\ Adder \subseteq Thread /\ a # Dispatch /\ Dispatch \in Thread
  BY ThreadsDistinct DEF Thread
<1> USE <1>1 DEF ResultTypeOK, CallbackInv, Move
<1>2. CASE AddTest(a) /\ isReady
  <2>1. /\ ran' = [ran EXCEPT ![a] = @ + 1] /\ at' = [at EXCEPT ![a] = "done"]
        /\ UNCHANGED <<callbacks, idx, due>> /\ at[a] = "start"
    BY <1>2 DEF AddTest
  <2>2. ran[a] = 0 /\ \A i \in DOMAIN callbacks : callbacks[i] # a
    BY <2>1 DEF ListInv
  <2>3. /\ ran'[a] = 1 /\ \A b \in Adder \ {a} : ran'[b] = ran[b]
        /\ at'[a] = "done" /\ \A t \in Thread \ {a} : at'[t] = at[t]
    BY <2>1, <2>2
  <2>4. \A i \in DOMAIN callbacks : callbacks[i] \in Adder \ {a}
    BY <2>2
  <2>5. ListInv'
    BY <2>1, <2>3, <2>4 DEF ListInv
  <2>6. RunInv'
    BY <2>1, <2>3, <2>4 DEF RunInv
  <2> QED
    BY <2>1, <2>3, <2>5, <2>6 DEF StartInv, LoopInv
<1>3. CASE AddTest(a) /\ ~isReady
  <2>1. /\ at' = [at EXCEPT ![a] = "append"] /\ at[a] = "start"
        /\ UNCHANGED <<callbacks, idx, due, ran>>
    BY <1>3 DEF AddTest
  <2> QED
    BY <2>1 DEF ListInv, RunInv, StartInv, LoopInv
<1>4. CASE AddAppend(a)
  <2>1. /\ callbacks' = Append(callbacks, a) /\ at' = [at EXCEPT ![a] = "done"]
        /\ at[a] = "append" /\ UNCHANGED <<idx, due, ran>>
    BY <1>4 DEF AddAppend
  <2>2. ran[a] = 0 /\ \A i \in DOMAIN callbacks : callbacks[i] # a
    BY <2>1 DEF ListInv
  <2>3. /\ Len(callbacks') = Len(callbacks) + 1 /\ DOMAIN callbacks' = 1 .. Len(callbacks) + 1
        /\ DOMAIN callbacks = 1 .. Len(callbacks)
        /\ callbacks'[Len(callbacks) + 1] = a
        /\ \A i \in DOMAIN callbacks : callbacks'[i] = callbacks[i]
    BY <2>1
  <2>4. at'[a] = "done" /\ \A t \in Thread \ {a} : at'[t] = at[t]
    BY <2>1
  <2>5. \A i \in DOMAIN callbacks' : i \in DOMAIN callbacks \/ i = Len(callbacks) + 1
    BY <2>3
  <2>6. ListInv'
    <3>1. ASSUME NEW b \in Adder, at'[b] \in {"start", "append"}
          PROVE  ran'[b] = 0 /\ \A i \in DOMAIN callbacks' : callbacks'[i] # b
      <4>1. b # a /\ at[b] \in {"start", "append"}
        BY <2>4, <3>1
      <4> QED
        BY <2>1, <2>3, <2>5, <4>1 DEF ListInv
    <3>2. \A i, j \in DOMAIN callbacks' : callbacks'[i] = callbacks'[j] => i = j
      BY <2>2, <2>3, <2>5 DEF ListInv
    <3> QED
      BY <3>1, <3>2 DEF ListInv
  <2>7. RunInv'
    <3>1. \A i \in DOMAIN callbacks' :
             i >= idx /\ at'[Dispatch] \notin {"raised", "done"} => ran'[callbacks'[i]] = 0
      BY <2>1, <2>2, <2>3, <2>4, <2>5 DEF RunInv
    <3>2. DOMAIN callbacks \subseteq DOMAIN callbacks'
      BY <2>3
    <3> QED
      BY <2>1, <2>3, <2>4, <3>1, <3>2 DEF RunInv
  <2> QED
    BY <2>1, <2>3, <2>4, <2>6, <2>7 DEF StartInv, LoopInv
<1> QED
  BY <1>2, <1>3, <1>4

LEMMA CallbackKept == ResultTypeOK /\ CallbackInv /\ [ResultNext]_resultVars => CallbackInv'
<1> SUFFICES ASSUME ResultTypeOK, CallbackInv, [ResultNext]_resultVars PROVE CallbackInv'
  OBVIOUS
<1>1. Adder \subseteq Thread /\ Dispatch \in Thread
  BY DEF Thread
<1>2. ASSUME UNCHANGED <<callbacks, idx, ran, due>>,
             \A t \in Adder \cup {Dispatch} : at'[t] = at[t]
      PROVE  CallbackInv'
  BY <1>2 DEF CallbackInv, ListInv, RunInv, StartInv, LoopInv
<1>3. CASE Expire \/ UNCHANGED resultVars
  BY <1>2, <1>3 DEF Expire, resultVars
<1>4. ASSUME NEW u \in Waiter \cup Asker \cup Setter, NEW l, at' = [at EXCEPT ![u] = l]
      PROVE  \A t \in Adder \cup {Dispatch} : at'[t] = at[t]
  BY <1>1, <1>4, ThreadsDistinct DEF ResultTypeOK
<1>5. ASSUME NEW t \in Setter, SetExpiry(t) PROVE CallbackInv'
  BY <1>2, <1>4, <1>5 DEF SetExpiry, Move
<1>6. ASSUME NEW w \in Waiter, WaiterStep(w) PROVE CallbackInv'
  <2>1. UNCHANGED <<callbacks, idx, ran, due>> /\ \E l : at' = [at EXCEPT ![w] = l]
    BY <1>6 DEF WaiterStep, WaitTest, ServeReturns, WaitCheck, ReadValue, Move
  <2> QED
    BY <1>2, <1>4, <2>1
<1>7. ASSUME NEW k \in Asker, Ask(k) PROVE CallbackInv'
  <2>1. UNCHANGED <<callbacks, idx, ran, due>> /\ \E l : at' = [at EXCEPT ![k] = l]
    BY <1>7 DEF Ask, AskReady, AskExpired, AskPolled, AskIsExc, Answer, Move
  <2> QED
    BY <1>2, <1>4, <2>1
<1> QED
  BY <1>3, <1>5, <1>6, <1>7, CallRuns, AddRuns DEF ResultNext

(* However add_callback and the reply interleave, no callback is invoked twice, and
   those on the list when the result became ready have run when __call__ returns. *)
THEOREM EachCallbackOnce == ResultSpec => []CallbacksRunOnce
<1>1. ResultInit => CallbackInv
  BY DEF ResultInit, CallbackInv, ListInv, RunInv, StartInv, LoopInv
<1>2. CallbackInv => CallbacksRunOnce
  BY DEF CallbackInv, RunInv, CallbacksRunOnce
<1> QED
  BY <1>1, <1>2, CallbackKept, TypesAreKept, PTL DEF ResultSpec

-----------------------------------------------------------------------------
(* BgServing *)

(* While the thread serves, __running says so: a pause() that is waiting for
   the end of serving is not let go by anything else. *)
RunningWhileServing == bg \notin {"wait", "end"} => running

BgInv == TypeOK /\ RunningWhileServing /\ PausedIsQuiet /\ ServeIsWoken

(* The steps of the serving thread keep the invariant. *)
LEMMA BgStepInv ==
    ASSUME BgInv,
           \/ BgStep \/ ServeRequest \/ ServeRaises
           \/ HandlerPauses \/ HandlerResumes \/ HandlerStops
    PROVE  BgInv'
<1>1. CASE BgLoop
  <2>1. FlagTypeOK'
    BY <1>1 DEF BgLoop, End, NotifyAll, NotifyAndWait, BgInv, TypeOK, FlagTypeOK
  <2>2. PositionTypeOK'
    BY <1>1 DEF BgLoop, End, NotifyAll, NotifyAndWait, BgInv, TypeOK, PositionTypeOK
  <2>3. RunningWhileServing'
    BY <1>1 DEF BgLoop, End, NotifyAll, NotifyAndWait, BgInv, RunningWhileServing
  <2>4. PausedIsQuiet'
    BY <1>1 DEF BgLoop, End, NotifyAll, NotifyAndWait, BgInv, TypeOK, PositionTypeOK,
                RunningWhileServing, PausedIsQuiet
  <2>5. ServeIsWoken'
    BY <1>1 DEF BgLoop, End, NotifyAll, NotifyAndWait, BgInv, TypeOK, PositionTypeOK,
                RunningWhileServing, ServeIsWoken
  <2> QED
    BY <2>1, <2>2, <2>3, <2>4, <2>5 DEF BgInv, TypeOK
<1>2. CASE BgWoken
  <2>1. FlagTypeOK'
    BY <1>2 DEF BgWoken, End, NotifyAll, Wait, BgInv, TypeOK, FlagTypeOK
  <2>2. PositionTypeOK'
    BY <1>2 DEF BgWoken, End, NotifyAll, Wait, BgInv, TypeOK, PositionTypeOK
  <2>3. RunningWhileServing'
    BY <1>2 DEF BgWoken, End, NotifyAll, Wait, BgInv, RunningWhileServing
  <2>4. PausedIsQuiet'
    BY <1>2 DEF BgWoken, End, NotifyAll, Wait, BgInv, TypeOK, PositionTypeOK,
                RunningWhileServing, PausedIsQuiet
  <2>5. ServeIsWoken'
    BY <1>2 DEF BgWoken, End, NotifyAll, Wait, BgInv, TypeOK, PositionTypeOK,
                RunningWhileServing, ServeIsWoken
  <2> QED
    BY <2>1, <2>2, <2>3, <2>4, <2>5 DEF BgInv, TypeOK
<1>3. CASE ServeEnter
  <2>1. FlagTypeOK'
    BY <1>3 DEF ServeEnter, BgInv, TypeOK, FlagTypeOK
  <2>2. PositionTypeOK'
    BY <1>3 DEF ServeEnter, BgInv, TypeOK, PositionTypeOK
  <2>3. RunningWhileServing'
    BY <1>3 DEF ServeEnter, BgInv, RunningWhileServing
  <2>4. PausedIsQuiet'
    BY <1>3 DEF ServeEnter, BgInv, TypeOK, PositionTypeOK, RunningWhileServing,
                PausedIsQuiet
  <2>5. ServeIsWoken'
    BY <1>3 DEF ServeEnter, BgInv, TypeOK, PositionTypeOK, RunningWhileServing,
                ServeIsWoken
  <2> QED
    BY <2>1, <2>2, <2>3, <2>4, <2>5 DEF BgInv, TypeOK
<1>4. CASE ServeNotified \/ HandlerReturns \/ ServeRequest
  <2>1. FlagTypeOK'
    BY <1>4 DEF ServeNotified, HandlerReturns, ServeRequest, BgInv, TypeOK, FlagTypeOK
  <2>2. PositionTypeOK'
    BY <1>4 DEF ServeNotified, HandlerReturns, ServeRequest, BgInv, TypeOK, PositionTypeOK
  <2>3. RunningWhileServing'
    BY <1>4 DEF ServeNotified, HandlerReturns, ServeRequest, BgInv, RunningWhileServing
  <2>4. PausedIsQuiet'
    BY <1>4 DEF ServeNotified, HandlerReturns, ServeRequest, BgInv, TypeOK,
                PositionTypeOK, RunningWhileServing, PausedIsQuiet
  <2>5. ServeIsWoken'
    BY <1>4 DEF ServeNotified, HandlerReturns, ServeRequest, BgInv, TypeOK,
                PositionTypeOK, RunningWhileServing, ServeIsWoken
  <2> QED
    BY <2>1, <2>2, <2>3, <2>4, <2>5 DEF BgInv, TypeOK
<1>5. CASE ServeRaises
  <2>1. FlagTypeOK'
    BY <1>5 DEF ServeRaises, End, NotifyAll, BgInv, TypeOK, FlagTypeOK
  <2>2. PositionTypeOK'
    BY <1>5 DEF ServeRaises, End, NotifyAll, BgInv, TypeOK, PositionTypeOK
  <2>3. RunningWhileServing'
    BY <1>5 DEF ServeRaises, End, NotifyAll, BgInv, RunningWhileServing
  <2>4. PausedIsQuiet'
    BY <1>5 DEF ServeRaises, End, NotifyAll, BgInv, TypeOK, PositionTypeOK,
                RunningWhileServing, PausedIsQuiet
  <2>5. ServeIsWoken'
    BY <1>5 DEF ServeRaises, End, NotifyAll, BgInv, TypeOK, PositionTypeOK,
                RunningWhileServing, ServeIsWoken
  <2> QED
    BY <2>1, <2>2, <2>3, <2>4, <2>5 DEF BgInv, TypeOK
<1>6. CASE HandlerPauses \/ HandlerResumes \/ HandlerStops
  <2>1. FlagTypeOK'
    BY <1>6 DEF HandlerPauses, HandlerResumes, HandlerStops, BgInv, TypeOK, FlagTypeOK
  <2>2. PositionTypeOK'
    BY <1>6 DEF HandlerPauses, HandlerResumes, HandlerStops, BgInv, TypeOK, PositionTypeOK
  <2>3. RunningWhileServing'
    BY <1>6 DEF HandlerPauses, HandlerResumes, HandlerStops, BgInv, RunningWhileServing
  <2>4. PausedIsQuiet'
    BY <1>6 DEF HandlerPauses, HandlerResumes, HandlerStops, BgInv, TypeOK,
                PositionTypeOK, RunningWhileServing, PausedIsQuiet
  <2>5. ServeIsWoken'
    BY <1>6 DEF HandlerPauses, HandlerResumes, HandlerStops, BgInv, TypeOK,
                PositionTypeOK, RunningWhileServing, ServeIsWoken
  <2> QED
    BY <2>1, <2>2, <2>3, <2>4, <2>5 DEF BgInv, TypeOK
<1> QED
  BY <1>1, <1>2, <1>3, <1>4, <1>5, <1>6 DEF BgStep

(* The calls of the users and their waits keep the invariant. *)
LEMMA UserStepInv ==
    ASSUME BgInv, NEW u \in User, UserStep(u) \/ Pause(u) \/ Resume(u) \/ Stop(u)
    PROVE  BgInv'
<1>1. CASE PauseWoken(u)
  <2>1. FlagTypeOK'
    BY <1>1 DEF PauseWoken, Goto, Wait, BgInv, TypeOK, FlagTypeOK
  <2>2. PositionTypeOK'
    BY <1>1 DEF PauseWoken, Goto, Wait, BgInv, TypeOK, PositionTypeOK
  <2>3. RunningWhileServing'
    BY <1>1 DEF PauseWoken, Goto, Wait, BgInv, RunningWhileServing
  <2>4. PausedIsQuiet'
    BY <1>1 DEF PauseWoken, Goto, Wait, BgInv, TypeOK, PositionTypeOK,
                RunningWhileServing, PausedIsQuiet
  <2>5. ServeIsWoken'
    BY <1>1 DEF PauseWoken, Goto, Wait, BgInv, TypeOK, PositionTypeOK,
                RunningWhileServing, ServeIsWoken
  <2> QED
    BY <2>1, <2>2, <2>3, <2>4, <2>5 DEF BgInv, TypeOK
<1>2. CASE ResumeProceeds(u)
  <2>1. FlagTypeOK'
    BY <1>2 DEF ResumeProceeds, DeepenAndWait, Goto, Wait, NotifyAndWait, BgInv, TypeOK,
                FlagTypeOK
  <2>2. PositionTypeOK'
    BY <1>2 DEF ResumeProceeds, DeepenAndWait, Goto, Wait, NotifyAndWait, BgInv, TypeOK,
                PositionTypeOK
  <2>3. RunningWhileServing'
    BY <1>2 DEF ResumeProceeds, DeepenAndWait, Goto, Wait, NotifyAndWait, BgInv,
                RunningWhileServing
  <2>4. PausedIsQuiet'
    BY <1>2 DEF ResumeProceeds, DeepenAndWait, Goto, Wait, NotifyAndWait, BgInv, TypeOK,
                PositionTypeOK, RunningWhileServing, PausedIsQuiet
  <2>5. ServeIsWoken'
    BY <1>2 DEF ResumeProceeds, DeepenAndWait, Goto, Wait, NotifyAndWait, BgInv, TypeOK,
                PositionTypeOK, RunningWhileServing, ServeIsWoken
  <2> QED
    BY <2>1, <2>2, <2>3, <2>4, <2>5 DEF BgInv, TypeOK
<1>3. CASE ResumeWoken(u)
  <2>1. FlagTypeOK'
    BY <1>3 DEF ResumeWoken, Goto, Wait, BgInv, TypeOK, FlagTypeOK
  <2>2. PositionTypeOK'
    BY <1>3 DEF ResumeWoken, Goto, Wait, BgInv, TypeOK, PositionTypeOK
  <2>3. RunningWhileServing'
    BY <1>3 DEF ResumeWoken, Goto, Wait, BgInv, RunningWhileServing
  <2>4. PausedIsQuiet'
    BY <1>3 DEF ResumeWoken, Goto, Wait, BgInv, TypeOK, PositionTypeOK,
                RunningWhileServing, PausedIsQuiet
  <2>5. ServeIsWoken'
    BY <1>3 DEF ResumeWoken, Goto, Wait, BgInv, TypeOK, PositionTypeOK,
                RunningWhileServing, ServeIsWoken
  <2> QED
    BY <2>1, <2>2, <2>3, <2>4, <2>5 DEF BgInv, TypeOK
<1>4. CASE StopJoined(u)
  <2>1. FlagTypeOK'
    BY <1>4 DEF StopJoined, Goto, BgInv, TypeOK, FlagTypeOK
  <2>2. PositionTypeOK'
    BY <1>4 DEF StopJoined, Goto, BgInv, TypeOK, PositionTypeOK
  <2>3. RunningWhileServing'
    BY <1>4 DEF StopJoined, Goto, BgInv, RunningWhileServing
  <2>4. PausedIsQuiet'
    BY <1>4 DEF StopJoined, Goto, BgInv, TypeOK, PositionTypeOK, RunningWhileServing,
                PausedIsQuiet
  <2>5. ServeIsWoken'
    BY <1>4 DEF StopJoined, Goto, BgInv, TypeOK, PositionTypeOK, RunningWhileServing,
                ServeIsWoken
  <2> QED
    BY <2>1, <2>2, <2>3, <2>4, <2>5 DEF BgInv, TypeOK
<1>5. CASE Pause(u)
  <2>1. FlagTypeOK'
    BY <1>5 DEF Pause, CallOf, Goto, NotifyAndWait, NotifyAll, BgInv, TypeOK, FlagTypeOK
  <2>2. PositionTypeOK'
    BY <1>5 DEF Pause, CallOf, Goto, NotifyAndWait, NotifyAll, BgInv, TypeOK,
                PositionTypeOK
  <2>3. RunningWhileServing'
    BY <1>5 DEF Pause, CallOf, Goto, NotifyAndWait, NotifyAll, BgInv, RunningWhileServing
  <2>4. PausedIsQuiet'
    BY <1>5 DEF Pause, CallOf, Goto, NotifyAndWait, NotifyAll, BgInv, TypeOK,
                PositionTypeOK, RunningWhileServing, PausedIsQuiet
  <2>5. ServeIsWoken'
    BY <1>5 DEF Pause, CallOf, Goto, NotifyAndWait, NotifyAll, BgInv, TypeOK,
                PositionTypeOK, RunningWhileServing, ServeIsWoken
  <2> QED
    BY <2>1, <2>2, <2>3, <2>4, <2>5 DEF BgInv, TypeOK
<1>6. CASE Resume(u)
  <2>1. FlagTypeOK'
    BY <1>6 DEF Resume, CallOf, DeepenAndWait, Goto, Wait, NotifyAndWait, BgInv, TypeOK,
                FlagTypeOK
  <2>2. PositionTypeOK'
    BY <1>6 DEF Resume, CallOf, DeepenAndWait, Goto, Wait, NotifyAndWait, BgInv, TypeOK,
                PositionTypeOK
  <2>3. RunningWhileServing'
    BY <1>6 DEF Resume, CallOf, DeepenAndWait, Goto, Wait, NotifyAndWait, BgInv,
                RunningWhileServing
  <2>4. PausedIsQuiet'
    BY <1>6 DEF Resume, CallOf, DeepenAndWait, Goto, Wait, NotifyAndWait, BgInv, TypeOK,
                PositionTypeOK, RunningWhileServing, PausedIsQuiet
  <2>5. ServeIsWoken'
    BY <1>6 DEF Resume, CallOf, DeepenAndWait, Goto, Wait, NotifyAndWait, BgInv, TypeOK,
                PositionTypeOK, RunningWhileServing, ServeIsWoken
  <2> QED
    BY <2>1, <2>2, <2>3, <2>4, <2>5 DEF BgInv, TypeOK
<1>7. CASE Stop(u)
  <2>1. FlagTypeOK'
    BY <1>7 DEF Stop, CallOf, Goto, NotifyAll, BgInv, TypeOK, FlagTypeOK
  <2>2. PositionTypeOK'
    BY <1>7 DEF Stop, CallOf, Goto, NotifyAll, BgInv, TypeOK, PositionTypeOK
  <2>3. RunningWhileServing'
    BY <1>7 DEF Stop, CallOf, Goto, NotifyAll, BgInv, RunningWhileServing
  <2>4. PausedIsQuiet'
    BY <1>7 DEF Stop, CallOf, Goto, NotifyAll, BgInv, TypeOK, PositionTypeOK,
                RunningWhileServing, PausedIsQuiet
  <2>5. ServeIsWoken'
    BY <1>7 DEF Stop, CallOf, Goto, NotifyAll, BgInv, TypeOK, PositionTypeOK,
                RunningWhileServing, ServeIsWoken
  <2> QED
    BY <2>1, <2>2, <2>3, <2>4, <2>5 DEF BgInv, TypeOK
<1> QED
  BY <1>1, <1>2, <1>3, <1>4, <1>5, <1>6, <1>7 DEF UserStep

(* The invariant holds at the start and is kept. *)
LEMMA BgKept ==
    /\ Init => BgInv
    /\ BgInv /\ [Next]_vars => BgInv'
<1>1. Init => BgInv
  <2>1. Init => FlagTypeOK
    BY DEF Init, FlagTypeOK
  <2>2. Init => PositionTypeOK
    BY DEF Init, PositionTypeOK
  <2>3. Init => RunningWhileServing /\ PausedIsQuiet /\ ServeIsWoken
    BY DEF Init, RunningWhileServing, PausedIsQuiet, ServeIsWoken
  <2> QED
    BY <2>1, <2>2, <2>3 DEF BgInv, TypeOK
<1>2. ASSUME BgInv, [Next]_vars
      PROVE  BgInv'
  <2>1. CASE \/ BgStep \/ ServeRequest \/ ServeRaises
             \/ HandlerPauses \/ HandlerResumes \/ HandlerStops
    BY <1>2, <2>1, BgStepInv
  <2>2. CASE \E u \in User : UserStep(u) \/ Pause(u) \/ Resume(u) \/ Stop(u)
    BY <1>2, <2>2, UserStepInv
  <2>3. CASE UNCHANGED vars
    BY <1>2, <2>3 DEF BgInv, TypeOK, FlagTypeOK, PositionTypeOK, RunningWhileServing,
                      PausedIsQuiet, ServeIsWoken, vars
  <2> QED
    BY <1>2, <2>1, <2>2, <2>3 DEF Next
<1> QED
  BY <1>1, <1>2

(* For any number of users and any order of their calls: after pause() nobody
   serves in the background until somebody resumes. *)
THEOREM PauseHolds == Spec => []PausedIsQuiet
<1>1. BgInv => PausedIsQuiet
  BY DEF BgInv
<1> QED
  BY <1>1, BgKept, PTL DEF Spec

(* Every pause and every stop wakes the thread that is sleeping in serve(). *)
THEOREM PauseWakes == Spec => []ServeIsWoken
<1>1. BgInv => ServeIsWoken
  BY DEF BgInv
<1> QED
  BY <1>1, BgKept, PTL DEF Spec
=============================================================================
