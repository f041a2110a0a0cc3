---------------------------- MODULE AsyncResult ----------------------------
(***************************************************************************)
(* One AsyncResult object (rpyc/core/async_.py) shared by threads: the     *)
(* thread that dispatches the reply and calls the object (__call__), the   *)
(* threads that wait for the value, that ask whether it is an error and    *)
(* that register a callback, and the thread that sets the expiry, as timed *)
(* does.  The object has no lock: every attribute access is a step.        *)
(***************************************************************************)
EXTENDS Integers, Sequences, FiniteSets

CONSTANTS Waiter,   \* threads that read AsyncResult.value
          Asker,    \* threads that read AsyncResult.error
          Adder,    \* threads that call add_callback; each registers itself
          Setter,   \* threads that call set_expiry
          Dispatch  \* the thread that runs __call__ when the reply arrives

ASSUME ThreadsDistinct ==
    /\ Waiter \cap (Asker \cup Adder \cup Setter) = {}
    /\ Asker \cap (Adder \cup Setter) = {} /\ Adder \cap Setter = {}
    /\ Dispatch \notin Waiter \cup Asker \cup Adder \cup Setter

Thread == Waiter \cup Asker \cup Adder \cup Setter \cup {Dispatch}

(* what the waiters of a result can be left with; Unset is the None of __init__ *)
Unset   == "unset"
Outcome == {"value", "exception"}

VARIABLES isReady,    \* _is_ready
          isExc,      \* _is_exc
          obj,        \* _obj, abstracted to the outcome it belongs to
          callbacks,  \* _callbacks
          ttl,        \* _ttl: "none", or a deadline that is "running" or "expired"
          armed,      \* the waiters whose serve() has been given a deadline
          arg,        \* the outcome __call__ is given
          idx,        \* position of the for loop over _callbacks
          at,
          got,        \* what each waiter got out of .value
          ran,        \* how often each callback was invoked
          due         \* history: the callbacks registered when _is_ready was set

resultVars == <<isReady, isExc, obj, callbacks, ttl, armed, arg, idx, at, got, ran, due>>

ResultInit ==
    /\ isReady = FALSE
    /\ isExc = Unset
    /\ obj = Unset
    /\ callbacks = <<>>
    /\ ttl \in {"none", "running"} /\ armed = {}
    /\ arg \in Outcome
    /\ idx = 1
    /\ at = [t \in Thread |-> "start"]
    /\ got = [w \in Waiter \cup Asker |-> "none"]
    /\ ran = [a \in Adder |-> 0]
    /\ due = {}

Move(t, from, to) == at[t] = from /\ at' = [at EXCEPT ![t] = to]

(* self.expired *)
Expired == ~isReady /\ ttl = "expired"

(* the deadline of _ttl passes *)
Expire ==
    /\ ttl = "running"
    /\ ttl' = "expired"
    /\ UNCHANGED <<isReady, isExc, obj, callbacks, armed, arg, idx, at, got, ran, due>>

(* set_expiry, of timed for one: a new deadline, or None *)
SetExpiry(t) ==
    /\ t \in Setter /\ Move(t, "start", "done")
    /\ ttl' \in {"none", "running"}
    /\ UNCHANGED <<isReady, isExc, obj, callbacks, armed, arg, idx, got, ran, due>>

-----------------------------------------------------------------------------
(* __call__, attribute by attribute *)

CallCheck ==
    /\ at[Dispatch] = "start"
    /\ at' = [at EXCEPT ![Dispatch] = IF Expired THEN "done" ELSE "exc"]
    /\ UNCHANGED <<isReady, isExc, obj, callbacks, ttl, armed, arg, idx, got, ran, due>>

(* mutant: _is_ready is published before _obj is stored *)
CallSetExcAndReady ==
    /\ Move(Dispatch, "exc", "obj")
    /\ isExc' = arg /\ isReady' = TRUE
    /\ UNCHANGED <<obj, callbacks, ttl, armed, arg, idx, got, ran, due>>

CallSetExc ==
    /\ Move(Dispatch, "exc", "obj")
    /\ isExc' = arg
    /\ UNCHANGED <<isReady, obj, callbacks, ttl, armed, arg, idx, got, ran, due>>

CallSetObj ==
    /\ Move(Dispatch, "obj", "ready")
    /\ obj' = arg
    /\ UNCHANGED <<isReady, isExc, callbacks, ttl, armed, arg, idx, got, ran, due>>

CallSetReady ==
    /\ Move(Dispatch, "ready", "loop")
    /\ isReady' = TRUE
    /\ due' = {callbacks[i] : i \in DOMAIN callbacks}
    /\ UNCHANGED <<isExc, obj, callbacks, ttl, armed, arg, idx, got, ran>>

(* mutant: each callback is popped from the list the loop is iterating over *)
CallPopCallback ==
    /\ at[Dispatch] = "loop"
    /\ IF idx <= Len(callbacks)
         THEN /\ ran' = [ran EXCEPT ![callbacks[idx]] = @ + 1]
              /\ callbacks' = Tail(callbacks)
              /\ idx' = idx + 1
              /\ UNCHANGED at
         ELSE /\ at' = [at EXCEPT ![Dispatch] = "del"]
              /\ UNCHANGED <<ran, idx, callbacks>>
    /\ UNCHANGED <<isReady, isExc, obj, ttl, armed, arg, got, due>>

(* for cb in self._callbacks: the iterator looks at the list as it now is *)
CallNextCallback ==
    /\ at[Dispatch] = "loop"
    /\ IF idx <= Len(callbacks)
         THEN /\ ran' = [ran EXCEPT ![callbacks[idx]] = @ + 1]
              /\ idx' = idx + 1
              /\ UNCHANGED at
         ELSE /\ at' = [at EXCEPT ![Dispatch] = "del"]
              /\ UNCHANGED <<ran, idx>>
    /\ UNCHANGED <<isReady, isExc, obj, callbacks, ttl, armed, arg, got, due>>

(* cb(self) raises: the loop, __call__ and __dispatch are left with the exception.
   The list is not cleared, and the notify() behind __call__ is not reached. *)
CallbackRaises ==
    /\ idx <= Len(callbacks) /\ Move(Dispatch, "loop", "raised")
    /\ ran' = [ran EXCEPT ![callbacks[idx]] = @ + 1]
    /\ UNCHANGED <<isReady, isExc, obj, callbacks, ttl, armed, arg, idx, got, due>>

CallClear ==
    /\ Move(Dispatch, "del", "done")
    /\ callbacks' = <<>>
    /\ UNCHANGED <<isReady, isExc, obj, ttl, armed, arg, idx, got, ran, due>>

-----------------------------------------------------------------------------
(* add_callback: the test of _is_ready, then the append *)

AddTest(a) ==
    /\ at[a] = "start"
    /\ IF isReady
         THEN /\ ran' = [ran EXCEPT ![a] = @ + 1]
              /\ at' = [at EXCEPT ![a] = "done"]
         ELSE /\ at' = [at EXCEPT ![a] = "append"]
              /\ UNCHANGED ran
    /\ UNCHANGED <<isReady, isExc, obj, callbacks, ttl, armed, arg, idx, got, due>>

AddAppend(a) ==
    /\ Move(a, "append", "done")
    /\ callbacks' = Append(callbacks, a)
    /\ UNCHANGED <<isReady, isExc, obj, ttl, armed, arg, idx, got, ran, due>>

-----------------------------------------------------------------------------
(* value: wait() until ready or expired, raise the timeout or read the result *)

(* mutant: the deadline is not looked at *)
WaitReadyOnly(w) ==
    /\ at[w] = "start"
    /\ at' = [at EXCEPT ![w] = IF isReady THEN "check" ELSE "serve"]
    /\ armed' = IF ~isReady /\ ttl # "none" THEN armed \cup {w} ELSE armed
    /\ UNCHANGED <<isReady, isExc, obj, callbacks, ttl, arg, idx, got, ran, due>>

(* while not self._predicate(): self._conn.serve(self._ttl); it copies the deadline *)
WaitTest(w) ==
    /\ w \in Waiter /\ at[w] = "start"
    /\ IF isReady \/ ttl = "expired"
         THEN Move(w, "start", "check") /\ UNCHANGED armed
         ELSE /\ Move(w, "start", "serve")
              /\ armed' = IF ttl # "none" THEN armed \cup {w} ELSE armed
    /\ UNCHANGED <<isReady, isExc, obj, callbacks, ttl, arg, idx, got, ran, due>>

(* serve() returns: its deadline has passed, or the dispatch of the reply notifies
   it, which one that a callback's exception has ended does not *)
ServeReturns(w) ==
    /\ w \in armed \/ at[Dispatch] = "done"
    /\ Move(w, "serve", "start")
    /\ armed' = armed \ {w}
    /\ UNCHANGED <<isReady, isExc, obj, callbacks, ttl, arg, idx, got, ran, due>>

WaitCheck(w) ==
    /\ at[w] = "check"
    /\ IF isReady
         THEN at' = [at EXCEPT ![w] = "read"] /\ UNCHANGED got
         ELSE /\ at' = [at EXCEPT ![w] = "done"]
              /\ got' = [got EXCEPT ![w] = "timeout"]
    /\ UNCHANGED <<isReady, isExc, obj, callbacks, ttl, armed, arg, idx, ran, due>>

(* if self._is_exc: raise self._obj, else: return self._obj *)
ReadValue(w) ==
    /\ Move(w, "read", "done")
    /\ got' = [got EXCEPT ![w] =
                 IF (isExc = "exception") = (obj = "exception") THEN obj ELSE "mixed"]
    /\ UNCHANGED <<isReady, isExc, obj, callbacks, ttl, armed, arg, idx, ran, due>>

-----------------------------------------------------------------------------
(* error: self.ready and self._is_exc *)

Answer(k, a) ==
    /\ at' = [at EXCEPT ![k] = "done"]
    /\ got' = [got EXCEPT ![k] = a]

AskReady(k) ==
    /\ k \in Asker /\ at[k] = "start"
    /\ IF isReady THEN Move(k, "start", "isexc") ELSE Move(k, "start", "expired")
    /\ UNCHANGED <<isReady, isExc, obj, callbacks, ttl, armed, arg, idx, got, ran, due>>

AskExpired(k) ==
    /\ at[k] = "expired"
    /\ IF Expired THEN Answer(k, "pending") ELSE Move(k, "expired", "poll") /\ UNCHANGED got
    /\ UNCHANGED <<isReady, isExc, obj, callbacks, ttl, armed, arg, idx, ran, due>>

(* poll_all serves what is there, the reply perhaps; then _is_ready once more *)
AskPolled(k) ==
    /\ at[k] = "poll"
    /\ IF isReady THEN Move(k, "poll", "isexc") /\ UNCHANGED got ELSE Answer(k, "pending")
    /\ UNCHANGED <<isReady, isExc, obj, callbacks, ttl, armed, arg, idx, ran, due>>

AskIsExc(k) ==
    /\ at[k] = "isexc"
    /\ Answer(k, isExc)
    /\ UNCHANGED <<isReady, isExc, obj, callbacks, ttl, armed, arg, idx, ran, due>>

-----------------------------------------------------------------------------
Call ==
    \/ CallCheck \/ CallSetExc \/ CallSetObj
    \/ CallSetReady \/ CallNextCallback \/ CallbackRaises \/ CallClear

Ask(k) == AskReady(k) \/ AskExpired(k) \/ AskPolled(k) \/ AskIsExc(k)

WaiterStep(w) == WaitTest(w) \/ ServeReturns(w) \/ WaitCheck(w) \/ ReadValue(w)

ResultNext ==
    \/ Expire
    \/ Call
    \/ \E t \in Setter : SetExpiry(t)
    \/ \E a \in Adder : AddTest(a) \/ AddAppend(a)
    \/ \E w \in Waiter : WaiterStep(w)
    \/ \E k \in Asker : Ask(k)

ResultSpec == ResultInit /\ [][ResultNext]_resultVars

-----------------------------------------------------------------------------
(* Types of the object's attributes and of the threads' positions. *)
ResultTypeOK ==
    /\ isReady \in BOOLEAN
    /\ isExc \in Outcome \cup {Unset}
    /\ obj \in Outcome \cup {Unset}
    /\ callbacks \in Seq(Adder)
    /\ ttl \in {"none", "running", "expired"} /\ armed \subseteq Waiter
    /\ arg \in Outcome
    /\ idx \in Nat \ {0}
    /\ at \in [Thread -> {"start", "exc", "obj", "ready", "loop", "del", "raised",
                          "append", "serve", "check", "read", "expired", "poll", "isexc", "done"}]
    /\ got \in [Waiter \cup Asker ->
                   {"none", "timeout", "pending", "mixed", Unset} \cup Outcome]
    /\ ran \in [Adder -> Nat]
    /\ due \subseteq Adder

(* A thread that reads .value or .error while the reply is being stored, without
   any lock, is told the outcome of that reply, a timeout or that it is pending:
   never the None of an unfinished object, never an exception object returned
   as a value, never that an exception is no error. *)
ValueIsTheReply ==
    \A t \in Waiter \cup Asker : got[t] \in {"none", "timeout", "pending", arg}

(* However add_callback and the reply interleave, no callback is invoked twice,
   and every one on the list when the result became ready has run by the time
   __call__ returns, although other threads append during the loop.  A callback
   that raises makes __call__ end without returning, before those after it. *)
CallbacksRunOnce ==
    /\ \A a \in Adder : ran[a] <= 1
    /\ at[Dispatch] = "done" => \A a \in due : ran[a] = 1

(* the reply came too late and was dropped, and then the deadline was moved *)
Dropped == at[Dispatch] = "done" /\ ~isReady /\ ttl # "expired"

(* a callback raised, so nobody wakes a waiter that is inside serve() without a
   deadline, although its result is ready: the code forgets it *)
NotNotified(w) == at[Dispatch] = "raised" /\ at[w] = "serve" /\ w \notin armed

(* A waiter comes back once the reply has been dispatched, also when it was
   dropped because the deadline had passed, and once a deadline has passed that
   the waiter knew when it began to wait; unless set_expiry moves it away, or a
   callback raises while the waiter is inside a serve() without a deadline. *)
WaitersReturn ==
    \A w \in Waiter :
        /\ at[Dispatch] # "start" ~> at[w] = "done" \/ Dropped \/ NotNotified(w)
        /\ ttl = "expired" /\ (at[w] = "start" \/ w \in armed)
              ~> at[w] = "done" \/ ttl # "expired"
=============================================================================
