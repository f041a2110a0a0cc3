------------------------------- MODULE Netref -------------------------------
(***************************************************************************)
(* The distributed reference counting of one object: RefCountingColl       *)
(* (rpyc/lib/colls.py) at its owner, __box, __unbox, the proxy cache and   *)
(* __handle_del (rpyc/core/protocol.py), and __del__ of the netrefs        *)
(* (rpyc/core/netref.py) at the consumer.                                  *)
(*                                                                         *)
(* Consumer threads unbox references, use and drop netrefs.  The thread    *)
(* that drops the last reference runs __del__, which CPython calls with    *)
(* the netref still reachable through the weak reference of the cache.     *)
(* Owner threads each take the next message and then dispatch it.          *)
(*                                                                         *)
(* A netref that is not in the cache is made by a factory, which asks the  *)
(* owner for its type and serves other messages until the answer is there. *)
(***************************************************************************)
EXTENDS Integers, Sequences, FiniteSets

CONSTANTS Owner,    \* threads that dispatch at the owner's side
          Consumer, \* threads at the other side
          Proxy,    \* netrefs
          None,     \* no netref
          MaxBox,   \* bound: references the owner sends
          MaxUse    \* bound: requests that name the object

ASSUME NetrefAssumption ==
    /\ IsFiniteSet(Owner) /\ IsFiniteSet(Proxy) /\ None \notin Proxy
    /\ MaxBox \in Nat /\ MaxUse \in Nat

NoMsg  == [kind |-> "none", count |-> 0]
Use    == [kind |-> "use", count |-> 0]
Del(n) == [kind |-> "del", count |-> n]

VARIABLES
    slot,    \* RefCountingColl: slot[1] of the object, -1 when it has none
    boxed,   \* references sent
    refs,    \* REMOTE_REFs on their way to the consumer
    toOwner, \* messages on their way to the owner
    inHand,  \* the message each owner thread is about to dispatch
    missed,  \* an owner thread met a KeyError
    used,    \* requests sent
    cache,   \* the netref __proxy_cache has a weak reference to
    count,   \* ____refcount__
    state,   \* "live", "reported" after __del__, or "dead"
    pc,      \* where each consumer thread is
    reg,     \* the netref a thread is unboxing or finalizing
    read,    \* the ____refcount__ a thread has read
    var,     \* the netrefs the application of a thread holds
    waiting, \* factories of each thread whose request is under way
    lost     \* references whose factory failed

ownerVars    == <<slot, boxed, refs, toOwner, inHand, missed, used>>
factoryVars  == <<waiting, lost>>
consumerVars == <<cache, count, state, pc, reg, read, var, factoryVars>>
vars == <<ownerVars, consumerVars>>

Init ==
    /\ slot = -1 /\ boxed = 0 /\ refs = 0 /\ toOwner = <<>>
    /\ inHand = [o \in Owner |-> NoMsg] /\ missed = FALSE /\ used = 0
    /\ cache = None
    /\ count = [p \in Proxy |-> 0]
    /\ state = [p \in Proxy |-> "dead"]
    /\ pc = [t \in Consumer |-> "idle"]
    /\ reg = [t \in Consumer |-> None]
    /\ read = [t \in Consumer |-> 0]
    /\ var = [t \in Consumer |-> {}]
    /\ waiting = [t \in Consumer |-> 0] /\ lost = 0

-----------------------------------------------------------------------------
(* the owner *)

(* RefCountingColl.add: a new slot counts 0 further references *)
Added == slot + 1

(* mutant: the slot is deleted one reference early *)
DecrefEarly(n) == IF slot <= n THEN -1 ELSE slot - n

(* RefCountingColl.decref *)
Decref(n) == IF slot < n THEN -1 ELSE slot - n

(* __box by reference; the message is sent *)
Box ==
    /\ boxed < MaxBox
    /\ slot' = Added
    /\ boxed' = boxed + 1 /\ refs' = refs + 1
    /\ UNCHANGED <<toOwner, inHand, missed, used, consumerVars>>

OwnerReceives(o) ==
    /\ inHand[o] = NoMsg /\ toOwner # <<>>
    /\ inHand' = [inHand EXCEPT ![o] = Head(toOwner)]
    /\ toOwner' = Tail(toOwner)
    /\ UNCHANGED <<slot, boxed, refs, missed, used, consumerVars>>

(* __unbox of a LOCAL_REF: KeyError when the object is gone *)
OwnerUses(o) ==
    /\ inHand[o].kind = "use"
    /\ missed' = (missed \/ slot = -1)
    /\ inHand' = [inHand EXCEPT ![o] = NoMsg]
    /\ UNCHANGED <<slot, boxed, refs, toOwner, used, consumerVars>>

(* __handle_del; a KeyError is sent back as any other *)
OwnerDecref(o) ==
    /\ inHand[o].kind = "del"
    /\ slot' = Decref(inHand[o].count)
    /\ missed' = (missed \/ slot = -1)
    /\ inHand' = [inHand EXCEPT ![o] = NoMsg]
    /\ UNCHANGED <<boxed, refs, toOwner, used, consumerVars>>

-----------------------------------------------------------------------------
(* the consumer: __unbox *)

Goto(t, l) == pc' = [pc EXCEPT ![t] = l]

TakeRef(t) ==
    /\ pc[t] = "idle" /\ refs > 0
    /\ refs' = refs - 1
    /\ Goto(t, "lookup")
    /\ UNCHANGED <<slot, boxed, toOwner, inHand, missed, used,
                   cache, count, state, reg, read, var, factoryVars>>

(* __proxy_cache.get: a weak reference gives no netref once it has been cleared *)
Cached == cache # None /\ state[cache] # "dead"

Lookup(t) ==
    /\ pc[t] = "lookup"
    /\ IF Cached
         THEN reg' = [reg EXCEPT ![t] = cache] /\ Goto(t, "load") /\ UNCHANGED waiting
         ELSE waiting' = [waiting EXCEPT ![t] = @ + 1] /\ Goto(t, "idle") /\ UNCHANGED reg
    /\ UNCHANGED <<ownerVars, cache, count, state, read, var, lost>>

(* ____refcount__ += 1 *)
LoadCount(t) ==
    /\ pc[t] = "load"
    /\ read' = [read EXCEPT ![t] = count[reg[t]]]
    /\ Goto(t, "store")
    /\ UNCHANGED <<ownerVars, cache, count, state, reg, var, factoryVars>>

Unboxed(t) ==
    /\ var' = [var EXCEPT ![t] = @ \cup {reg[t]}]
    /\ reg' = [reg EXCEPT ![t] = None]
    /\ read' = [read EXCEPT ![t] = 0]
    /\ Goto(t, "idle")

(* mutant: a cached netref does not count the reference it stands for *)
StoreNothing(t) ==
    /\ pc[t] = "store"
    /\ Unboxed(t)
    /\ UNCHANGED <<ownerVars, cache, count, state, factoryVars>>

StoreCount(t) ==
    /\ pc[t] = "store"
    /\ count' = [count EXCEPT ![reg[t]] = read[t] + 1]
    /\ Unboxed(t)
    /\ UNCHANGED <<ownerVars, cache, state, factoryVars>>

(* __netref_factory has the type of the object, and makes the netref *)
Create(t) ==
    /\ pc[t] = "idle" /\ waiting[t] > 0
    /\ waiting' = [waiting EXCEPT ![t] = @ - 1]
    /\ \E p \in Proxy :
         /\ state[p] = "dead" /\ p # cache /\ p \notin {reg[u] : u \in Consumer}
         /\ state' = [state EXCEPT ![p] = "live"]
         /\ count' = [count EXCEPT ![p] = 1]
         /\ reg' = [reg EXCEPT ![t] = p]
    /\ Goto(t, "cache")
    /\ UNCHANGED <<ownerVars, cache, read, var, lost>>

(* its request fails or times out: nobody gives the reference back *)
CreateFails(t) ==
    /\ pc[t] = "idle" /\ waiting[t] > 0
    /\ waiting' = [waiting EXCEPT ![t] = @ - 1]
    /\ lost' = lost + 1
    /\ UNCHANGED <<ownerVars, cache, count, state, pc, reg, read, var>>

CacheProxy(t) ==
    /\ pc[t] = "cache"
    /\ cache' = reg[t]
    /\ Unboxed(t)
    /\ UNCHANGED <<ownerVars, count, state, factoryVars>>

-----------------------------------------------------------------------------
(* the consumer: the application, and __del__ *)

(* a request that names the object, sent without waiting for its answer *)
SendUse(t) ==
    /\ pc[t] = "idle" /\ var[t] # {} /\ used < MaxUse
    /\ toOwner' = Append(toOwner, Use)
    /\ used' = used + 1
    /\ UNCHANGED <<slot, boxed, refs, inHand, missed, consumerVars>>

Referrers(p) == {u \in Consumer : p \in var[u] \/ reg[u] = p}

(* the last reference to a netref finalizes it, once *)
Drop(t) ==
    /\ pc[t] = "idle"
    /\ \E p \in var[t] :
         /\ var' = [var EXCEPT ![t] = @ \ {p}]
         /\ IF Referrers(p) = {t}
              THEN /\ reg' = [reg EXCEPT ![t] = p]
                   /\ Goto(t, IF state[p] = "live" THEN "del" ELSE "clear")
              ELSE UNCHANGED <<reg, pc>>
    /\ UNCHANGED <<ownerVars, cache, count, state, read, factoryVars>>

(* __del__ evaluates self.____refcount__ *)
DelReads(t) ==
    /\ pc[t] = "del"
    /\ read' = [read EXCEPT ![t] = count[reg[t]]]
    /\ Goto(t, "report")
    /\ UNCHANGED <<ownerVars, cache, count, state, reg, var, factoryVars>>

(* mutant: one reference is given back *)
DelSendsOne(t) ==
    /\ pc[t] = "report"
    /\ toOwner' = Append(toOwner, Del(1))
    /\ state' = [state EXCEPT ![reg[t]] = "reported"]
    /\ read' = [read EXCEPT ![t] = 0]
    /\ Goto(t, "clear")
    /\ UNCHANGED <<slot, boxed, refs, inHand, missed, used, cache, count, reg, var,
                   factoryVars>>

(* and sends HANDLE_DEL *)
DelSends(t) ==
    /\ pc[t] = "report"
    /\ toOwner' = Append(toOwner, Del(read[t]))
    /\ state' = [state EXCEPT ![reg[t]] = "reported"]
    /\ read' = [read EXCEPT ![t] = 0]
    /\ Goto(t, "clear")
    /\ UNCHANGED <<slot, boxed, refs, inHand, missed, used, cache, count, reg, var,
                   factoryVars>>

(* CPython: the netref has been resurrected, or its weak references are cleared *)
ClearRefs(t) ==
    /\ pc[t] = "clear"
    /\ IF Referrers(reg[t]) = {t} /\ reg[t] \notin var[t]
         THEN state' = [state EXCEPT ![reg[t]] = "dead"] /\ Goto(t, "remove")
         ELSE UNCHANGED state /\ Goto(t, "idle")
    /\ reg' = [reg EXCEPT ![t] = None]
    /\ UNCHANGED <<ownerVars, cache, count, read, var, factoryVars>>

(* WeakValueDict's remover pops the key, whatever it holds by now *)
RemoveCached(t) ==
    /\ pc[t] = "remove"
    /\ cache' = None
    /\ Goto(t, "idle")
    /\ UNCHANGED <<ownerVars, count, state, reg, read, var, factoryVars>>

-----------------------------------------------------------------------------
Next ==
    \/ Box
    \/ \E o \in Owner : OwnerReceives(o) \/ OwnerUses(o) \/ OwnerDecref(o)
    \/ \E t \in Consumer :
         \/ TakeRef(t) \/ Lookup(t) \/ LoadCount(t) \/ StoreCount(t)
         \/ Create(t) \/ CreateFails(t) \/ CacheProxy(t)
         \/ SendUse(t) \/ Drop(t) \/ DelReads(t) \/ DelSends(t)
         \/ ClearRefs(t) \/ RemoveCached(t)

Spec == Init /\ [][Next]_vars

-----------------------------------------------------------------------------
Messages == {NoMsg, Use} \cup {Del(n) : n \in 0 .. MaxBox}

(* Types of the owner's table, the messages and the consumer's threads. *)
TypeOK ==
    /\ slot \in -1 .. MaxBox - 1 /\ boxed \in 0 .. MaxBox /\ refs \in 0 .. MaxBox
    /\ toOwner \in Seq(Messages) /\ inHand \in [Owner -> Messages]
    /\ missed \in BOOLEAN /\ used \in 0 .. MaxUse
    /\ cache \in Proxy \cup {None} /\ count \in [Proxy -> 0 .. MaxBox]
    /\ state \in [Proxy -> {"live", "reported", "dead"}]
    /\ pc \in [Consumer -> {"idle", "lookup", "load", "store", "cache",
                            "del", "report", "clear", "remove"}]
    /\ reg \in [Consumer -> Proxy \cup {None}] /\ read \in [Consumer -> 0 .. MaxBox]
    /\ var \in [Consumer -> SUBSET Proxy]
    /\ waiting \in [Consumer -> 0 .. MaxBox] /\ lost \in 0 .. MaxBox

(* While the consumer holds a netref, or one is on its way to it, the owner
   keeps the object; a request that was sent while a netref was held finds its
   object, and so does every HANDLE_DEL: a netref never dangles. *)
NeverDangles ==
    /\ refs > 0 \/ (\E t \in Consumer : var[t] # {}) => slot # -1
    /\ ~missed

AtRest ==
    /\ refs = 0 /\ toOwner = <<>> /\ \A o \in Owner : inHand[o] = NoMsg
    /\ \A t \in Consumer : pc[t] = "idle" /\ var[t] = {} /\ waiting[t] = 0

(* Once every netref has been dropped and every message dispatched, the owner
   counts the references whose factory failed and no other: when none did, it has
   let go of the object, whatever was counted, batched and resent. *)
NothingLeaks == AtRest => slot + 1 = lost

(* the sum of the values of f *)
Total(f) == Cardinality(UNION {{x} \X (1 .. f[x]) : x \in DOMAIN f})

(* The references the consumer's side accounts for. *)
Unboxing == {t \in Consumer : pc[t] \in {"lookup", "load", "store"}}
Counted  == [p \in Proxy |-> IF state[p] = "live" THEN count[p] ELSE 0]
Outstanding ==
    refs + Cardinality(Unboxing) + Total(Counted)
    + Total([i \in DOMAIN toOwner |-> toOwner[i].count])
    + Total([o \in Owner |-> inHand[o].count])
    + Total(waiting) + lost

Abstract == INSTANCE RemoteReference WITH kept <- slot # -1, out <- Outstanding

(* The counting implements the documented promise: the object is kept exactly
   while references to it are out, and what is given back was granted. *)
Refinement == Abstract!Spec
=============================================================================
