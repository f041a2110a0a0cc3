----------------------------- MODULE NetrefProofs -----------------------------
(***************************************************************************)
(* The counting of references is right where one thread of the consumer    *)
(* unboxes and drops netrefs, for any number of owner threads, references, *)
(* requests and netrefs.  (With two threads it is not: NeverDangles.)      *)
(*                                                                         *)
(* What is counted travels in brine: the end of the module shows, for      *)
(* every length of every field, that what brine writes of a simple value   *)
(* and of the size of a tuple is what it reads.                            *)
(***************************************************************************)
EXTENDS Netref, BrineFormat, FiniteSetTheorems, FunctionTheorems, SequenceTheorems, TLAPS

AnyMessage == {NoMsg, Use} \cup {Del(n) : n \in Nat}

(* a message gives back a number of references, none unless it is HANDLE_DEL *)
LEMMA MessageCount ==
    ASSUME NEW m \in AnyMessage
    PROVE  m.count \in Nat /\ (m.kind # "del" => m.count = 0)
BY DEF AnyMessage, NoMsg, Use, Del

CountTypes ==
    /\ slot \in Int /\ slot >= -1 /\ boxed \in Nat /\ refs \in Nat
    /\ toOwner \in Seq(AnyMessage) /\ inHand \in [Owner -> AnyMessage]
    /\ cache \in Proxy \cup {None} /\ count \in [Proxy -> Nat]
    /\ state \in [Proxy -> {"live", "reported", "dead"}]
    /\ pc \in [Consumer -> {"idle", "lookup", "load", "store", "cache",
                            "del", "report", "clear", "remove"}]
    /\ reg \in [Consumer -> Proxy \cup {None}] /\ read \in [Consumer -> Nat]
    /\ var \in [Consumer -> SUBSET Proxy]
    /\ waiting \in [Consumer -> Nat] /\ lost \in Nat

(* Where a thread is says which netref it has in hand; every netref in use is held
   by the application or in hand, and every live one stands for a reference. *)
ThreadInv(t) ==
    /\ pc[t] \in {"idle", "lookup", "remove"} <=> reg[t] = None
    /\ pc[t] \in {"load", "store", "cache", "del", "report"} => state[reg[t]] = "live"
    /\ pc[t] \in {"cache", "del", "report", "clear"} => reg[t] \notin var[t]
    /\ pc[t] \in {"store", "report"} => read[t] = count[reg[t]]
    /\ pc[t] = "clear" => state[reg[t]] = "reported"
    /\ \A p \in var[t] : state[p] = "live"
    /\ \A p \in Proxy : state[p] = "live" => p \in var[t] \/ p = reg[t]
    /\ \A p \in Proxy : state[p] = "reported" => pc[t] = "clear" /\ reg[t] = p
    /\ \A p \in Proxy : state[p] = "live" => count[p] > 0

(* The owner counts the references that are accounted for. *)
CountsAgree == slot + 1 = Outstanding

NetrefInv == CountTypes /\ (\A t \in Consumer : ThreadInv(t)) /\ CountsAgree

-----------------------------------------------------------------------------
(* Sums *)

Units(f)   == UNION {{x} \X (1 .. f[x]) : x \in DOMAIN f}
Numbers(S) == [S -> Nat]

(* the pairs that Total counts *)
LEMMA UnitsOf ==
    ASSUME NEW S, NEW f \in Numbers(S)
    PROVE  \A u : u \in Units(f) <=> \E x \in S : \E i \in 1 .. f[x] : u = <<x, i>>
BY DEF Units, Numbers

(* there are finitely many *)
LEMMA UnitsFinite ==
    ASSUME NEW S, IsFiniteSet(S), NEW f \in Numbers(S)
    PROVE  IsFiniteSet(Units(f)) /\ Total(f) \in Nat
<1> DEFINE part == [x \in S |-> {x} \X (1 .. f[x])]
           Parts == {part[x] : x \in S}
<1>1. part \in Surjection(S, Parts)
  BY Fun_IsSurj
<1>2. IsFiniteSet(Parts)
  BY <1>1, FS_Surjection
<1>3. \A P \in Parts : IsFiniteSet(P)
  <2> SUFFICES ASSUME NEW x \in S PROVE IsFiniteSet({x} \X (1 .. f[x]))
    OBVIOUS
  <2>1. IsFiniteSet({x})
    BY FS_Singleton
  <2>2. f[x] \in Int
    BY DEF Numbers
  <2>3. IsFiniteSet(1 .. f[x])
    BY <2>2, FS_Interval
  <2> QED
    BY <2>1, <2>3, FS_Product
<1>4. Units(f) = UNION Parts
  BY DEF Units, Numbers
<1>5. IsFiniteSet(Units(f))
  BY <1>2, <1>3, <1>4, FS_UNION
<1> QED
  BY <1>5, FS_CardinalityType DEF Total, Units

(* one element more *)
LEMMA TotalAdds ==
    ASSUME NEW S, IsFiniteSet(S), NEW f \in Numbers(S), NEW x, x \notin S,
           NEW g \in Numbers(S \cup {x}), \A y \in S : g[y] = f[y]
    PROVE  Total(g) = Total(f) + g[x]
<1> DEFINE New == {x} \X (1 .. g[x])
<1>1. Units(g) = Units(f) \cup New
  <2>1. \A u : u \in Units(g) <=> u \in Units(f) \/ u \in New
    <3>1. \A u : u \in New <=> \E i \in 1 .. g[x] : u = <<x, i>>
      OBVIOUS
    <3> QED
      BY <3>1, UnitsOf
  <2> QED
    BY <2>1
<1>2. Units(f) \cap New = {}
  BY UnitsOf
<1>3. g[x] \in Nat
  BY DEF Numbers
<1>4. IsFiniteSet(New) /\ Cardinality(New) = g[x]
  <2>1. IsFiniteSet({x}) /\ Cardinality({x}) = 1
    BY FS_Singleton
  <2>2. IsFiniteSet(1 .. g[x]) /\ Cardinality(1 .. g[x]) = g[x]
    BY <1>3, FS_Interval
  <2>3. IsFiniteSet(New) /\ Cardinality(New) = Cardinality({x}) * Cardinality(1 .. g[x])
    BY <2>1, <2>2, FS_Product
  <2> QED
    BY <1>3, <2>1, <2>2, <2>3
<1>5. Cardinality(Units(f) \cup New) = Cardinality(Units(f)) + g[x]
  <2> HIDE DEF New
  <2>1. IsFiniteSet(Units(f))
    BY UnitsFinite
  <2>2. Cardinality(Units(f) \cup New)
          = Cardinality(Units(f)) + Cardinality(New) - Cardinality(Units(f) \cap New)
    BY <1>4, <2>1, FS_Union
  <2>3. Cardinality(Units(f) \cap New) = 0 /\ Cardinality(Units(f)) \in Nat
    BY <1>2, <2>1, FS_EmptySet, FS_CardinalityType
  <2> QED
    BY <1>3, <1>4, <2>2, <2>3
<1> QED
  BY <1>1, <1>5 DEF Total, Units

(* the same numbers at other places *)
LEMMA TotalMoves ==
    ASSUME NEW S, NEW f \in Numbers(S), IsFiniteSet(S), NEW T, NEW g \in Numbers(T),
           NEW b \in Bijection(S, T), \A x \in S : g[b[x]] = f[x]
    PROVE  Total(g) = Total(f)
<1> DEFINE h == [u \in Units(f) |-> <<b[u[1]], u[2]>>]
<1>1. /\ b \in [S -> T] /\ \A x, y \in S : b[x] = b[y] => x = y
      /\ \A y \in T : \E x \in S : b[x] = y
  BY Fun_BijectionProperties
<1>2. h \in [Units(f) -> Units(g)]
  BY <1>1, UnitsOf
<1>3. \A u, v \in Units(f) : h[u] = h[v] => u = v
  BY <1>1, UnitsOf
<1>4. \A w \in Units(g) : \E u \in Units(f) : h[u] = w
  <2> SUFFICES ASSUME NEW w \in Units(g) PROVE \E u \in Units(f) : h[u] = w
    OBVIOUS
  <2>1. PICK y \in T : \E i \in 1 .. g[y] : w = <<y, i>>
    BY UnitsOf
  <2>2. PICK i \in 1 .. g[y] : w = <<y, i>>
    BY <2>1
  <2>3. PICK x \in S : b[x] = y
    BY <1>1
  <2>4. <<x, i>> \in Units(f) /\ h[<<x, i>>] = w
    BY <2>2, <2>3, UnitsOf
  <2> QED
    BY <2>4
<1>5. ExistsBijection(Units(f), Units(g))
  BY <1>2, <1>3, <1>4, Fun_IsBij DEF ExistsBijection
<1>6. Cardinality(Units(g)) = Cardinality(Units(f))
  BY <1>5, UnitsFinite, FS_Bijection
<1> QED
  BY <1>6 DEF Total, Units

(* one element less *)
LEMMA TotalWithout ==
    ASSUME NEW S, IsFiniteSet(S), NEW f \in Numbers(S), NEW x \in S,
           NEW g \in Numbers(S \ {x}), \A y \in S \ {x} : g[y] = f[y]
    PROVE  Total(f) = Total(g) + f[x]
<1> DEFINE R == S \ {x}
<1>1. R \cup {x} = S /\ x \notin R
  OBVIOUS
<1>2. IsFiniteSet(R)
  BY FS_RemoveElement
<1>3. f \in Numbers(R \cup {x}) /\ g \in Numbers(R) /\ \A y \in R : f[y] = g[y]
  BY <1>1
<1> HIDE DEF R
<1> QED
  BY <1>1, <1>2, <1>3, TotalAdds

(* one number is changed *)
LEMMA TotalChanges ==
    ASSUME NEW S, IsFiniteSet(S), NEW f \in Numbers(S), NEW g \in Numbers(S), NEW x \in S,
           \A y \in S \ {x} : g[y] = f[y]
    PROVE  Total(g) = Total(f) - f[x] + g[x]
<1> DEFINE h == [y \in S \ {x} |-> f[y]]
<1>1. h \in Numbers(S \ {x})
  BY DEF Numbers
<1>2. \A y \in S \ {x} : h[y] = f[y] /\ h[y] = g[y]
  OBVIOUS
<1>3. IsFiniteSet(S \ {x})
  BY FS_RemoveElement
<1>4. f[x] \in Nat /\ g[x] \in Nat
  BY DEF Numbers
<1> HIDE DEF h
<1>5. Total(f) = Total(h) + f[x] /\ Total(g) = Total(h) + g[x]
  BY <1>1, <1>2, TotalWithout
<1>6. Total(h) \in Nat
  BY <1>1, <1>3, UnitsFinite
<1> QED
  BY <1>4, <1>5, <1>6

(* nothing to count *)
LEMMA TotalOfZeros ==
    ASSUME NEW S, NEW f \in Numbers(S)
    PROVE  (\A x \in S : f[x] = 0) => Total(f) = 0
<1> HAVE \A x \in S : f[x] = 0
<1>1. Units(f) = {}
  BY UnitsOf
<1> QED
  BY <1>1, FS_EmptySet DEF Total, Units

(* something to count *)
LEMMA TotalAtLeast ==
    ASSUME NEW S, IsFiniteSet(S), NEW f \in Numbers(S), NEW x \in S
    PROVE  f[x] <= Total(f)
<1> DEFINE g == [y \in S |-> IF y = x THEN 0 ELSE f[y]]
<1>1. g \in Numbers(S) /\ g[x] = 0 /\ \A y \in S \ {x} : g[y] = f[y]
  BY DEF Numbers
<1>2. f[x] \in Nat
  BY DEF Numbers
<1> HIDE DEF g
<1>3. Total(g) = Total(f) - f[x] + g[x] /\ Total(g) \in Nat /\ Total(f) \in Nat
  BY <1>1, TotalChanges, UnitsFinite
<1> QED
  BY <1>1, <1>2, <1>3

-----------------------------------------------------------------------------
(* the references that are given back by the messages of a queue *)

Back(q) == [i \in DOMAIN q |-> q[i].count]

(* a number for each place of the queue *)
LEMMA BackType ==
    ASSUME NEW q \in Seq(AnyMessage)
    PROVE  /\ Back(q) \in Numbers(1 .. Len(q)) /\ IsFiniteSet(1 .. Len(q))
           /\ \A i \in 1 .. Len(q) : Back(q)[i] = q[i].count
           /\ Total(Back(q)) \in Nat
<1>1. \A i \in 1 .. Len(q) : q[i] \in AnyMessage /\ q[i].count \in Nat
  <2>1. \A i \in 1 .. Len(q) : q[i] \in AnyMessage
    OBVIOUS
  <2> QED
    BY <2>1, MessageCount
<1>2. DOMAIN q = 1 .. Len(q) /\ Len(q) \in Int
  OBVIOUS
<1>3. Back(q) \in Numbers(1 .. Len(q)) /\ \A i \in 1 .. Len(q) : Back(q)[i] = q[i].count
  BY <1>1, <1>2 DEF Back, Numbers
<1>4. IsFiniteSet(1 .. Len(q))
  BY <1>2, FS_Interval
<1> QED
  BY <1>3, <1>4, UnitsFinite

(* a message is sent *)
LEMMA BackAppends ==
    ASSUME NEW q \in Seq(AnyMessage), NEW m \in AnyMessage
    PROVE  Total(Back(Append(q, m))) = Total(Back(q)) + m.count
<1> DEFINE r == Append(q, m)
           n == Len(q) + 1
           S == 1 .. Len(q)
<1>1. /\ r \in Seq(AnyMessage) /\ Len(r) = n /\ r[n] = m /\ n \in 1 .. Len(r)
      /\ \A i \in S : r[i] = q[i] /\ i \in 1 .. Len(r)
  OBVIOUS
<1>2. 1 .. Len(r) = S \cup {n} /\ n \notin S
  BY <1>1
<1> HIDE DEF r, n, S
<1>3. /\ Back(q) \in Numbers(S) /\ IsFiniteSet(S)
      /\ \A i \in S : Back(q)[i] = q[i].count
  BY BackType DEF S
<1>4. /\ Back(r) \in Numbers(S \cup {n})
      /\ \A i \in S : Back(r)[i] = r[i].count
      /\ Back(r)[n] = r[n].count
  BY <1>1, <1>2, BackType
<1>5. \A i \in S : Back(r)[i] = Back(q)[i]
  BY <1>1, <1>3, <1>4
<1>6. Total(Back(r)) = Total(Back(q)) + Back(r)[n]
  BY <1>2, <1>3, <1>4, <1>5, TotalAdds
<1> QED
  BY <1>1, <1>4, <1>6 DEF r

(* a message is taken *)
LEMMA BackTails ==
    ASSUME NEW q \in Seq(AnyMessage), q # <<>>
    PROVE  Total(Back(q)) = Head(q).count + Total(Back(Tail(q)))
<1> DEFINE r == Tail(q)
           S == 1 .. Len(q)
           R == S \ {1}
           T == 1 .. Len(r)
           h == [i \in R |-> Back(q)[i]]
           b == [i \in R |-> i - 1]
<1>1. /\ r \in Seq(AnyMessage) /\ Len(r) = Len(q) - 1 /\ 1 \in S /\ q[1] = Head(q)
      /\ \A j \in T : r[j] = q[j + 1]
  OBVIOUS
<1>2. b \in Bijection(R, T)
  <2>1. b \in [R -> T] /\ \A i, j \in R : b[i] = b[j] => i = j
    BY <1>1
  <2>2. \A j \in T : j + 1 \in R /\ b[j + 1] = j
    BY <1>1
  <2> HIDE DEF b, R, T
  <2> QED
    BY <2>1, <2>2, Fun_IsBij
<1>3. \A i \in R : b[i] \in T /\ r[b[i]] = q[i] /\ i \in S
  BY <1>1
<1> HIDE DEF r, b, S, T
<1>4. /\ Back(q) \in Numbers(S) /\ IsFiniteSet(S)
      /\ \A i \in S : Back(q)[i] = q[i].count
  BY BackType DEF S
<1>5. Back(r) \in Numbers(T) /\ \A j \in T : Back(r)[j] = r[j].count
  BY <1>1, BackType DEF T
<1>6. h \in Numbers(R) /\ \A i \in R : h[i] = Back(q)[i]
  BY <1>4 DEF Numbers
<1>7. \A i \in R : Back(r)[b[i]] = h[i]
  BY <1>3, <1>4, <1>5
<1>8. IsFiniteSet(R)
  BY <1>4, FS_RemoveElement
<1>9. Total(Back(r)) = Total(h) /\ Total(h) \in Nat
  <2> HIDE DEF h, R
  <2> QED
    BY <1>2, <1>5, <1>6, <1>7, <1>8, TotalMoves, UnitsFinite
<1>10. Total(Back(q)) = Total(h) + Back(q)[1]
  <2> HIDE DEF h
  <2> QED
    BY <1>1, <1>4, <1>6, TotalWithout
<1>11. Back(q)[1] = Head(q).count /\ Head(q).count \in Nat
  <2>1. Head(q) \in AnyMessage
    OBVIOUS
  <2> QED
    BY <1>1, <1>4, <2>1, MessageCount
<1> QED
  BY <1>9, <1>10, <1>11 DEF r

-----------------------------------------------------------------------------
(* what Outstanding adds up *)

Hand == [o \in Owner |-> inHand[o].count]

(* the parts of the sum are numbers *)
LEMMA PartTypes ==
    ASSUME CountTypes
    PROVE  /\ Counted \in Numbers(Proxy) /\ Hand \in Numbers(Owner)
           /\ Total(Counted) \in Nat /\ Total(Hand) \in Nat /\ Total(Back(toOwner)) \in Nat
           /\ waiting \in Numbers(Consumer)
<1>1. Counted \in Numbers(Proxy)
  BY DEF CountTypes, Counted, Numbers
<1>2. Hand \in Numbers(Owner)
  BY MessageCount DEF CountTypes, Hand, Numbers
<1>3. Total(Back(toOwner)) \in Nat
  BY BackType DEF CountTypes
<1>4. waiting \in Numbers(Consumer)
  BY DEF CountTypes, Numbers
<1> QED
  BY <1>1, <1>2, <1>3, <1>4, UnitsFinite, NetrefAssumption

(* what one thread at position l unboxes *)
OneUnboxing(l) == IF l \in {"lookup", "load", "store"} THEN 1 ELSE 0

(* with one thread, the references that are being unboxed are one or none *)
LEMMA OneUnboxes ==
    ASSUME NEW c, NEW l
    PROVE  Cardinality({t \in {c} : l[t] \in {"lookup", "load", "store"}})
             = OneUnboxing(l[c])
<1> DEFINE S == {t \in {c} : l[t] \in {"lookup", "load", "store"}}
<1>1. CASE l[c] \in {"lookup", "load", "store"}
  <2>1. S = {c}
    BY <1>1
  <2> QED
    BY <1>1, <2>1, FS_Singleton DEF OneUnboxing
<1>2. CASE l[c] \notin {"lookup", "load", "store"}
  <2>1. S = {}
    BY <1>2
  <2> QED
    BY <1>2, <2>1, FS_EmptySet DEF OneUnboxing
<1> QED
  BY <1>1, <1>2

-----------------------------------------------------------------------------
(* one step at a time, with one thread of the consumer *)

(* types *)
LEMMA TypesKept ==
    ASSUME NEW c, Consumer = {c}, CountTypes, ThreadInv(c), [Next]_vars
    PROVE  CountTypes'
<1> USE DEF CountTypes, factoryVars
<1>0. CASE Box
  BY <1>0 DEF Box, Added, consumerVars
<1>1. ASSUME NEW o \in Owner, OwnerReceives(o) PROVE CountTypes'
  <2>1. Head(toOwner) \in AnyMessage /\ Tail(toOwner) \in Seq(AnyMessage)
    BY <1>1 DEF OwnerReceives
  <2> QED
    BY <1>1, <2>1 DEF OwnerReceives, consumerVars
<1>2. ASSUME NEW o \in Owner, OwnerUses(o) PROVE CountTypes'
  BY <1>2 DEF OwnerUses, consumerVars, AnyMessage
<1>3. ASSUME NEW o \in Owner, OwnerDecref(o) PROVE CountTypes'
  <2>1. inHand[o].count \in Nat
    BY MessageCount
  <2>2. slot' \in Int /\ slot' >= -1
    BY <1>3, <2>1 DEF OwnerDecref, Decref
  <2> QED
    BY <1>3, <2>2 DEF OwnerDecref, consumerVars, AnyMessage
<1>4. CASE TakeRef(c)
  BY <1>4 DEF TakeRef, Goto, consumerVars
<1>5. CASE Lookup(c)
  BY <1>5 DEF Lookup, Goto, Cached, ownerVars
<1>6. CASE LoadCount(c)
  BY <1>6 DEF LoadCount, Goto, ownerVars, ThreadInv
<1>7. CASE StoreCount(c)
  BY <1>7 DEF StoreCount, Unboxed, Goto, ownerVars, ThreadInv
<1>8. CASE Create(c)
  BY <1>8 DEF Create, Goto, ownerVars
<1>9. CASE CacheProxy(c)
  BY <1>9 DEF CacheProxy, Unboxed, Goto, ownerVars, ThreadInv
<1>10. CASE SendUse(c)
  BY <1>10 DEF SendUse, consumerVars, AnyMessage
<1>11. CASE Drop(c)
  BY <1>11 DEF Drop, Goto, ownerVars
<1>12. CASE DelReads(c)
  BY <1>12 DEF DelReads, Goto, ownerVars, ThreadInv
<1>13. CASE DelSends(c)
  <2>1. Del(read[c]) \in AnyMessage
    BY DEF AnyMessage
  <2>2. toOwner' \in Seq(AnyMessage)
    BY <1>13, <2>1 DEF DelSends
  <2> QED
    BY <1>13, <2>2 DEF DelSends, Goto
<1>14. CASE ClearRefs(c)
  BY <1>14 DEF ClearRefs, Goto, ownerVars
<1>15. CASE RemoveCached(c)
  BY <1>15 DEF RemoveCached, Goto, ownerVars
<1>16. CASE UNCHANGED vars
  BY <1>16 DEF vars, ownerVars, consumerVars
<1>17. CASE CreateFails(c)
  BY <1>17 DEF CreateFails, ownerVars
<1> QED
  BY <1>0, <1>1, <1>2, <1>3, <1>4, <1>5, <1>6, <1>7, <1>8, <1>9, <1>10, <1>11, <1>12, <1>13,
     <1>14, <1>15, <1>16, <1>17 DEF Next

(* a thread and the netref it has in hand *)
LEMMA ThreadsKept ==
    ASSUME NEW c, Consumer = {c}, CountTypes, ThreadInv(c), [Next]_vars
    PROVE  ThreadInv(c)'
<1> USE NetrefAssumption DEF CountTypes, ThreadInv, Cached
<1>0. CASE Box
  BY <1>0 DEF Box, consumerVars
<1>1. ASSUME NEW o \in Owner, OwnerReceives(o) PROVE ThreadInv(c)'
  BY <1>1 DEF OwnerReceives, consumerVars
<1>2. ASSUME NEW o \in Owner, OwnerUses(o) PROVE ThreadInv(c)'
  BY <1>2 DEF OwnerUses, consumerVars
<1>3. ASSUME NEW o \in Owner, OwnerDecref(o) PROVE ThreadInv(c)'
  BY <1>3 DEF OwnerDecref, consumerVars
<1>4. CASE TakeRef(c)
  BY <1>4 DEF TakeRef, Goto, consumerVars
<1>5. CASE Lookup(c)
  BY <1>5 DEF Lookup, Goto
<1>6. CASE LoadCount(c)
  BY <1>6 DEF LoadCount, Goto
<1>7. CASE StoreCount(c)
  BY <1>7 DEF StoreCount, Unboxed, Goto
<1>8. CASE Create(c)
  BY <1>8 DEF Create, Goto
<1>9. CASE CacheProxy(c)
  BY <1>9 DEF CacheProxy, Unboxed, Goto
<1>10. CASE SendUse(c)
  BY <1>10 DEF SendUse, consumerVars
<1>11. CASE Drop(c)
  BY <1>11 DEF Drop, Goto, Referrers
<1>12. CASE DelReads(c)
  BY <1>12 DEF DelReads, Goto
<1>13. CASE DelSends(c)
  <2>1. /\ reg[c] \in Proxy /\ reg[c] \notin var[c] /\ pc'[c] = "clear"
        /\ reg' = reg /\ var' = var /\ count' = count
        /\ state' = [state EXCEPT ![reg[c]] = "reported"]
    BY <1>13 DEF DelSends, Goto
  <2>2. \A p \in Proxy : state[p] # "reported" /\ (state[p] = "live" => p \in var[c] \/ p = reg[c])
    BY <1>13, <2>1 DEF DelSends
  <2>3. state'[reg[c]] = "reported" /\ \A p \in Proxy \ {reg[c]} : state'[p] = state[p]
    BY <2>1
  <2>4. \A p \in Proxy : /\ state'[p] = "live" => p \in var[c] /\ count[p] > 0
                         /\ state'[p] = "reported" => p = reg[c]
    BY <2>2, <2>3
  <2>5. \A p \in var[c] : p \in Proxy /\ state'[p] = "live"
    BY <2>1, <2>3
  <2> HIDE DEF CountTypes
  <2> QED
    BY <2>1, <2>3, <2>4, <2>5
<1>14. CASE ClearRefs(c)
  <2>1. /\ Referrers(reg[c]) = {c} /\ reg[c] \in Proxy /\ reg[c] \notin var[c]
        /\ \A p \in Proxy : state[p] = "live" => p \in var[c]
        /\ \A p \in Proxy : state[p] = "reported" => p = reg[c]
    BY <1>14 DEF ClearRefs, Referrers
  <2>2. /\ state' = [state EXCEPT ![reg[c]] = "dead"] /\ pc'[c] = "remove" /\ reg'[c] = None
        /\ var' = var /\ count' = count
    BY <1>14, <2>1 DEF ClearRefs, Goto
  <2>3. \A p \in Proxy : state'[p] # "reported" /\ (state'[p] = "live" => state[p] = "live")
    BY <2>1, <2>2
  <2>4. \A p \in var[c] : p \in Proxy /\ state'[p] = "live"
    BY <2>1, <2>2
  <2> QED
    BY <2>1, <2>2, <2>3, <2>4
<1>15. CASE RemoveCached(c)
  BY <1>15 DEF RemoveCached, Goto
<1>16. CASE UNCHANGED vars
  BY <1>16 DEF vars, consumerVars
<1>17. CASE CreateFails(c)
  BY <1>17 DEF CreateFails
<1> QED
  BY <1>0, <1>1, <1>2, <1>3, <1>4, <1>5, <1>6, <1>7, <1>8, <1>9, <1>10, <1>11, <1>12, <1>13,
     <1>14, <1>15, <1>16, <1>17 DEF Next

(* the references that are out, as seven numbers *)
LEMMA OutstandingIs ==
    Outstanding = refs + Cardinality(Unboxing) + Total(Counted)
                  + Total(Back(toOwner)) + Total(Hand) + Total(waiting) + lost
BY DEF Outstanding, Back, Hand

(* a netref whose count changes, or that dies, changes the sum by as much *)
LEMMA CountedChanges ==
    ASSUME CountTypes, CountTypes', NEW x \in Proxy,
           \A p \in Proxy \ {x} : Counted'[p] = Counted[p]
    PROVE  Total(Counted)' = Total(Counted) - Counted[x] + Counted'[x]
<1>1. Counted \in Numbers(Proxy) /\ Counted' \in Numbers(Proxy)
  BY DEF CountTypes, Counted, Numbers
<1>2. Total(Counted') = Total(Counted) - Counted[x] + Counted'[x]
  BY <1>1, TotalChanges, NetrefAssumption
<1> QED
  BY <1>2 DEF Total

(* a message that is received takes its references along *)
LEMMA SumShifts ==
    ASSUME NEW r \in Nat, NEW u \in Nat, NEW p \in Nat, NEW q \in Nat, NEW h \in Nat,
           NEW n \in Nat, NEW f \in Nat
    PROVE  r + u + p + (n + q) + h + f = r + u + p + q + (h + n) + f
OBVIOUS

(* a netref that reports what it counts puts it into the queue *)
LEMMA SumMoves ==
    ASSUME NEW r \in Nat, NEW p \in Nat, NEW q \in Nat, NEW h \in Nat, NEW f \in Nat,
           NEW n \in Nat
    PROVE  r + 0 + p + q + h + f = r + 0 + (p - n) + (q + n) + h + f
OBVIOUS

(* a sum of which one part is not zero is not *)
LEMMA SumPositive ==
    ASSUME NEW r \in Nat, NEW u \in Nat, NEW p \in Nat, NEW q \in Nat, NEW h \in Nat,
           NEW w \in Nat, NEW m \in Nat,
           r > 0 \/ u > 0 \/ p > 0 \/ q > 0 \/ h > 0 \/ w > 0 \/ m > 0
    PROVE  r + u + p + q + h + w + m > 0
OBVIOUS

(* every step adds to the slot what it adds to the references that are out *)
LEMMA CountsKept ==
    ASSUME NEW c, Consumer = {c}, CountTypes, CountTypes', ThreadInv(c), CountsAgree,
           [Next]_vars
    PROVE  CountsAgree'
<1> DEFINE U == Cardinality(Unboxing)
           C == Total(Counted)
           Q == Total(Back(toOwner))
           H == Total(Hand)
           F == Total(waiting) + lost
<1>a. U = OneUnboxing(pc[c]) /\ U' = OneUnboxing(pc'[c])
  BY OneUnboxes DEF Unboxing
<1>c. slot \in Int /\ refs \in Nat /\ C \in Nat /\ Q \in Nat /\ H \in Nat /\ F \in Nat
  <2>1. Total(waiting) \in Nat /\ lost \in Nat
    BY PartTypes, UnitsFinite, FS_Singleton DEF CountTypes
  <2>2. F \in Nat
    BY <2>1
  <2> QED
    BY <2>2, PartTypes DEF CountTypes
<1>b. U \in Nat
  BY <1>a DEF OneUnboxing
<1>d. slot + 1 = refs + U + C + Q + H + F
  <2>1. Total(waiting) \in Nat /\ lost \in Nat
    BY PartTypes, UnitsFinite, FS_Singleton DEF CountTypes
  <2>2. slot + 1 = refs + U + C + Q + H + Total(waiting) + lost
    BY OutstandingIs DEF CountsAgree
  <2> HIDE DEF U, C, Q, H
  <2> QED
    BY <2>1, <2>2, <1>b, <1>c DEF F
<1>w. waiting \in Numbers({c}) /\ waiting' \in Numbers({c})
  BY DEF CountTypes, Numbers
<1>x. Total(waiting)' = Total(waiting) - waiting[c] + waiting'[c] /\ Total(waiting) \in Nat
  <2>1. Total(waiting') = Total(waiting) - waiting[c] + waiting'[c]
    BY <1>w, TotalChanges, FS_Singleton
  <2>2. Total(waiting) \in Nat
    BY <1>w, UnitsFinite, FS_Singleton
  <2> QED
    BY <2>1, <2>2 DEF Total
<1>y. F' = F - (waiting[c] + lost) + (waiting'[c] + lost')
  <2>1. waiting[c] \in Nat /\ waiting'[c] \in Nat /\ lost \in Nat /\ lost' \in Nat
    BY DEF CountTypes
  <2> QED
    BY <1>x, <2>1
<1>z. waiting[c] \in Nat /\ lost \in Nat
  BY DEF CountTypes
<1>e. SUFFICES slot' + 1 = refs' + U' + C' + Q' + H' + F'
  <2>1. Total(waiting)' \in Int /\ lost' \in Int
    <3>1. waiting'[c] \in Nat /\ lost' \in Nat
      BY DEF CountTypes
    <3> QED
      BY <3>1, <1>x, <1>z
  <2>2. Outstanding' = refs' + U' + C' + Q' + H' + Total(waiting)' + lost'
    BY DEF Outstanding, Back, Hand
  <2>3. /\ refs' \in Nat /\ U' \in Nat /\ C' \in Nat /\ Q' \in Nat /\ H' \in Nat
        /\ F' = Total(waiting)' + lost'
    <3>1. U' \in Nat
      BY <1>a DEF OneUnboxing
    <3>2. Counted' \in Numbers(Proxy) /\ Hand' \in Numbers(Owner)
      BY MessageCount DEF CountTypes, Counted, Hand, Numbers
    <3>3. Total(Counted') \in Nat /\ Total(Hand') \in Nat /\ Total(Back(toOwner')) \in Nat
      BY <3>2, UnitsFinite, NetrefAssumption, BackType DEF CountTypes
    <3> QED
      BY <3>1, <3>3 DEF CountTypes
  <2> HIDE DEF U, C, Q, H, F
  <2>4. slot' + 1 = refs' + U' + C' + Q' + H' + F' => slot' + 1 = Outstanding'
    BY <2>1, <2>2, <2>3
  <2> QED
    BY <2>4 DEF CountsAgree
<1>n. UNCHANGED factoryVars => F' = F
  BY DEF factoryVars
<1>f. UNCHANGED <<count, state>> => C' = C
  BY DEF Counted
<1>g. UNCHANGED toOwner => Q' = Q
  OBVIOUS
<1>h. UNCHANGED inHand => H' = H
  BY DEF Hand
<1> HIDE DEF U, C, Q, H, F
<1>i. UNCHANGED consumerVars => U' = U /\ C' = C /\ F' = F
  BY <1>a, <1>f, <1>n DEF consumerVars
<1>0. CASE Box
  BY <1>0, <1>a, <1>c, <1>d, <1>g, <1>h, <1>i DEF Box, Added, OneUnboxing
<1>j. toOwner \in Seq(AnyMessage) /\ inHand \in [Owner -> AnyMessage]
  BY DEF CountTypes
<1>k. ASSUME NEW o \in Owner, \A x \in Owner \ {o} : inHand'[x] = inHand[x]
      PROVE  H' = H - inHand[o].count + inHand'[o].count /\ inHand[o].count <= H
  <2>1. Hand \in Numbers(Owner) /\ Hand' \in Numbers(Owner)
    BY MessageCount DEF CountTypes, Hand, Numbers
  <2>2. \A x \in Owner \ {o} : Hand'[x] = Hand[x]
    BY <1>k DEF Hand
  <2>3. Total(Hand') = Total(Hand) - Hand[o] + Hand'[o] /\ Hand[o] <= Total(Hand)
    BY <2>1, <2>2, TotalChanges, TotalAtLeast, NetrefAssumption
  <2> QED
    BY <2>3 DEF H, Hand
<1>1. ASSUME NEW o \in Owner, OwnerReceives(o)
      PROVE  slot' + 1 = refs' + U' + C' + Q' + H' + F'
  <2>1. Q = Head(toOwner).count + Q' /\ Head(toOwner).count \in Nat
    <3>1. toOwner # <<>> /\ toOwner' = Tail(toOwner) /\ Head(toOwner) \in AnyMessage
      BY <1>1, <1>j DEF OwnerReceives
    <3> QED
      BY <3>1, <1>j, BackTails, MessageCount DEF Q
  <2>2. /\ inHand[o].count = 0 /\ inHand'[o].count = Head(toOwner).count
        /\ \A x \in Owner \ {o} : inHand'[x] = inHand[x]
    BY <1>1, <1>j DEF OwnerReceives, NoMsg
  <2>3. H' = H + Head(toOwner).count
    BY <2>1, <2>2, <1>c, <1>k
  <2>4. Q' \in Nat
    BY <2>1, <1>c, BackType DEF CountTypes, Q
  <2>5. U \in Nat
    BY <1>a DEF OneUnboxing
  <2> QED
    <3> DEFINE n == Head(toOwner).count
    <3>1. refs + U + C + (n + Q') + H + F = refs + U + C + Q' + (H + n) + F
      BY <2>1, <2>4, <2>5, <1>c, SumShifts
    <3>2. slot' = slot /\ refs' = refs /\ U' = U /\ C' = C /\ F' = F
      BY <1>1, <1>i DEF OwnerReceives
    <3>3. slot' + 1 = refs' + U' + C' + (n + Q') + H + F'
      BY <2>1, <3>2, <1>d
    <3> QED
      BY <2>3, <3>1, <3>2, <3>3
<1>2. ASSUME NEW o \in Owner, OwnerUses(o)
      PROVE  slot' + 1 = refs' + U' + C' + Q' + H' + F'
  <2>1. inHand[o].count = 0
    BY <1>2, <1>j, MessageCount DEF OwnerUses
  <2>2. inHand'[o].count = 0 /\ \A x \in Owner \ {o} : inHand'[x] = inHand[x]
    BY <1>2, <1>j DEF OwnerUses, NoMsg
  <2>3. H' = H
    BY <2>1, <2>2, <1>c, <1>k
  <2> QED
    BY <1>2, <2>3, <1>d, <1>g, <1>i DEF OwnerUses
<1>3. ASSUME NEW o \in Owner, OwnerDecref(o)
      PROVE  slot' + 1 = refs' + U' + C' + Q' + H' + F'
  <2>1. inHand[o].count \in Nat
    BY <1>j, MessageCount
  <2>2. inHand'[o].count = 0 /\ \A x \in Owner \ {o} : inHand'[x] = inHand[x]
    BY <1>3, <1>j DEF OwnerDecref, NoMsg
  <2>3. H' = H - inHand[o].count /\ inHand[o].count <= H
    BY <2>1, <2>2, <1>c, <1>k
  <2>4. U \in Nat
    BY <1>a DEF OneUnboxing
  <2>5. slot' = slot - inHand[o].count
    BY <1>3, <2>1, <2>3, <2>4, <1>c, <1>d DEF OwnerDecref, Decref
  <2> QED
    BY <1>3, <2>1, <2>3, <2>4, <2>5, <1>c, <1>d, <1>g, <1>i DEF OwnerDecref
<1>4. CASE TakeRef(c)
  BY <1>4, <1>a, <1>c, <1>d, <1>f, <1>g, <1>h, <1>n DEF TakeRef, Goto, OneUnboxing, CountTypes
<1>5. CASE Lookup(c)
  <2>1. U = 1 /\ C' = C /\ Q' = Q /\ H' = H /\ slot' = slot /\ refs' = refs
    BY <1>5, <1>a, <1>f, <1>g, <1>h DEF Lookup, OneUnboxing, ownerVars
  <2>2. CASE Cached
    <3>1. U' = 1 /\ F' = F
      BY <1>5, <2>2, <1>a, <1>n DEF Lookup, Goto, OneUnboxing, CountTypes, factoryVars
    <3> QED
      BY <2>1, <3>1, <1>d
  <2>3. CASE ~Cached
    <3>1. U' = 0 /\ waiting'[c] = waiting[c] + 1 /\ lost' = lost
      BY <1>5, <2>3, <1>a DEF Lookup, Goto, OneUnboxing, CountTypes
    <3>2. F' = F + 1
      BY <3>1, <1>c, <1>y, <1>z
    <3> QED
      BY <2>1, <3>1, <3>2, <1>c, <1>d
  <2> QED
    BY <2>2, <2>3
<1>6. CASE LoadCount(c)
  BY <1>6, <1>a, <1>c, <1>d, <1>f, <1>g, <1>h, <1>n
     DEF LoadCount, Goto, OneUnboxing, CountTypes, ownerVars
<1>7. CASE StoreCount(c)
  <2>1. reg[c] \in Proxy /\ state[reg[c]] = "live" /\ count'[reg[c]] = count[reg[c]] + 1
    BY <1>7, NetrefAssumption DEF StoreCount, Unboxed, CountTypes, ThreadInv
  <2>2. /\ \A p \in Proxy \ {reg[c]} : Counted'[p] = Counted[p]
        /\ Counted'[reg[c]] = Counted[reg[c]] + 1 /\ Counted[reg[c]] \in Nat
    BY <1>7, <2>1 DEF StoreCount, CountTypes, Counted
  <2>3. C' = C + 1
    BY <2>1, <2>2, <1>c, CountedChanges DEF C
  <2> QED
    BY <1>7, <2>3, <1>a, <1>c, <1>d, <1>g, <1>h, <1>n
       DEF StoreCount, Unboxed, Goto, OneUnboxing, CountTypes, ownerVars
<1>8. CASE Create(c)
  <2>1. PICK p \in Proxy : /\ state[p] = "dead" /\ state' = [state EXCEPT ![p] = "live"]
                           /\ count' = [count EXCEPT ![p] = 1]
    BY <1>8 DEF Create
  <2>2. /\ \A q \in Proxy \ {p} : Counted'[q] = Counted[q]
        /\ Counted'[p] = 1 /\ Counted[p] = 0
    BY <2>1 DEF CountTypes, Counted
  <2>3. C' = C + 1
    BY <2>2, <1>c, CountedChanges DEF C
  <2>4. waiting'[c] = waiting[c] - 1 /\ lost' = lost
    BY <1>8 DEF Create, CountTypes
  <2>5. F' = F - 1
    BY <2>4, <1>c, <1>y, <1>z
  <2>6. U' = U /\ Q' = Q /\ H' = H /\ slot' = slot /\ refs' = refs
    BY <1>8, <1>a, <1>g, <1>h DEF Create, Goto, OneUnboxing, CountTypes, ownerVars
  <2> QED
    BY <2>3, <2>5, <2>6, <1>b, <1>c, <1>d
<1>9. CASE CacheProxy(c)
  BY <1>9, <1>a, <1>c, <1>d, <1>f, <1>g, <1>h, <1>n
     DEF CacheProxy, Unboxed, Goto, OneUnboxing, CountTypes, ownerVars
<1>10. CASE SendUse(c)
  <2>1. Q' = Q
    <3>1. Use \in AnyMessage /\ Use.count = 0
      BY DEF AnyMessage, Use
    <3>2. toOwner' = Append(toOwner, Use)
      BY <1>10 DEF SendUse
    <3> QED
      BY <3>1, <3>2, <1>c, <1>j, BackAppends DEF Q
  <2> QED
    BY <1>10, <2>1, <1>c, <1>d, <1>h, <1>i DEF SendUse
<1>11. CASE Drop(c)
  BY <1>11, <1>a, <1>c, <1>d, <1>f, <1>g, <1>h, <1>n
     DEF Drop, Goto, OneUnboxing, CountTypes, ownerVars
<1>12. CASE DelReads(c)
  BY <1>12, <1>a, <1>c, <1>d, <1>f, <1>g, <1>h, <1>n
     DEF DelReads, Goto, OneUnboxing, CountTypes, ownerVars
<1>13. CASE DelSends(c)
  <2>1. /\ reg[c] \in Proxy /\ state[reg[c]] = "live" /\ read[c] = count[reg[c]]
        /\ state'[reg[c]] = "reported" /\ read[c] \in Nat
    BY <1>13, NetrefAssumption DEF DelSends, CountTypes, ThreadInv
  <2>2. /\ \A p \in Proxy \ {reg[c]} : Counted'[p] = Counted[p]
        /\ Counted'[reg[c]] = 0 /\ Counted[reg[c]] = read[c]
    BY <1>13, <2>1 DEF DelSends, CountTypes, Counted
  <2>3. C' = C - read[c]
    BY <2>1, <2>2, <1>c, CountedChanges DEF C
  <2>4. Q' = Q + read[c]
    <3>1. Del(read[c]) \in AnyMessage /\ Del(read[c]).count = read[c]
      BY <2>1 DEF AnyMessage, Del
    <3>2. toOwner' = Append(toOwner, Del(read[c]))
      BY <1>13 DEF DelSends
    <3> QED
      BY <3>1, <3>2, <1>j, BackAppends DEF Q
  <2>5. U = 0 /\ U' = 0 /\ slot' = slot /\ refs' = refs /\ H' = H /\ F' = F
    BY <1>13, <1>a, <1>h, <1>n DEF DelSends, Goto, OneUnboxing, CountTypes
  <2>6. refs + 0 + C + Q + H + F = refs + 0 + (C - read[c]) + (Q + read[c]) + H + F
    BY <2>1, <1>c, SumMoves
  <2> QED
    BY <2>3, <2>4, <2>5, <2>6, <1>d
<1>14. CASE ClearRefs(c)
  <2>1. C' = C
    <3>1. Counted' = Counted
      BY <1>14, NetrefAssumption DEF ClearRefs, Counted, CountTypes, ThreadInv
    <3> QED
      BY <3>1 DEF C
  <2> QED
    BY <1>14, <2>1, <1>a, <1>c, <1>d, <1>g, <1>h, <1>n
       DEF ClearRefs, Goto, OneUnboxing, CountTypes, ownerVars
<1>15. CASE RemoveCached(c)
  BY <1>15, <1>a, <1>c, <1>d, <1>f, <1>g, <1>h, <1>n
     DEF RemoveCached, Goto, OneUnboxing, CountTypes, ownerVars
<1>16. CASE UNCHANGED vars
  BY <1>16, <1>a, <1>c, <1>d, <1>g, <1>h, <1>i DEF vars, ownerVars
<1>17. CASE CreateFails(c)
  <2>1. waiting'[c] + lost' = waiting[c] + lost
    BY <1>17, <1>z DEF CreateFails, CountTypes
  <2>2. F' = F
    BY <2>1, <1>c, <1>y, <1>z
  <2> QED
    BY <1>17, <2>2, <1>a, <1>d, <1>f, <1>g, <1>h DEF CreateFails, ownerVars
<1> QED
  BY <1>0, <1>1, <1>2, <1>3, <1>4, <1>5, <1>6, <1>7, <1>8, <1>9, <1>10, <1>11, <1>12, <1>13,
     <1>14, <1>15, <1>16, <1>17 DEF Next

(* The counting is in agreement, and stays so. *)
THEOREM CountingInvariant ==
    ASSUME NEW c, Consumer = {c}
    PROVE  Spec => []NetrefInv
<1>1. Init => NetrefInv
  <2> SUFFICES ASSUME Init PROVE NetrefInv
    OBVIOUS
  <2>1. CountTypes
    BY DEF Init, CountTypes, AnyMessage
  <2>2. \A t \in Consumer : ThreadInv(t)
    BY DEF Init, ThreadInv, Cached
  <2>3. CountsAgree
    <3>1. Counted \in Numbers(Proxy) /\ \A p \in Proxy : Counted[p] = 0
      BY DEF Init, Counted, Numbers
    <3>2. Hand \in Numbers(Owner) /\ \A o \in Owner : Hand[o] = 0
      BY DEF Init, Hand, Numbers, NoMsg
    <3>3. Back(toOwner) \in Numbers({}) /\ \A x \in {} : Back(toOwner)[x] = 0
      BY DEF Init, Back, Numbers
    <3>4. Total(Counted) = 0 /\ Total(Hand) = 0 /\ Total(Back(toOwner)) = 0
      BY <3>1, <3>2, <3>3, TotalOfZeros
    <3>5. Cardinality(Unboxing) = 0
      BY OneUnboxes DEF Unboxing, Init, OneUnboxing
    <3>6. Total(waiting) = 0
      BY TotalOfZeros DEF Init, Numbers
    <3> QED
      BY <3>4, <3>5, <3>6, OutstandingIs DEF Init, CountsAgree
  <2> QED
    BY <2>1, <2>2, <2>3 DEF NetrefInv
<1>2. NetrefInv /\ [Next]_vars => NetrefInv'
  BY TypesKept, ThreadsKept, CountsKept DEF NetrefInv
<1> QED
  BY <1>1, <1>2, PTL DEF Spec

(* NothingLeaks: when every netref has been dropped and every message has been
   dispatched, RefCountingColl counts the references whose factory failed and no
   other, and has let go of the object if none did, however many owner threads
   dispatched the HANDLE_DELs in whatever order. *)
THEOREM OwnerLetsGo ==
    ASSUME NEW c, Consumer = {c}
    PROVE  Spec => []NothingLeaks
<1>1. NetrefInv => NothingLeaks
  <2> SUFFICES ASSUME NetrefInv, AtRest PROVE slot + 1 = lost
    BY DEF NothingLeaks
  <2>1. CountTypes /\ ThreadInv(c) /\ CountsAgree
    BY DEF NetrefInv
  <2>2. \A p \in Proxy : state[p] # "live"
    BY <2>1, NetrefAssumption DEF CountTypes, ThreadInv, AtRest
  <2>3. Total(Counted) = 0
    BY <2>1, <2>2, PartTypes, TotalOfZeros DEF Counted
  <2>4. Total(Hand) = 0
    BY <2>1, PartTypes, TotalOfZeros DEF Hand, AtRest, NoMsg
  <2>5. Total(Back(toOwner)) = 0
    <3>1. Back(toOwner) \in Numbers({}) /\ \A x \in {} : Back(toOwner)[x] = 0
      BY DEF AtRest, Back, Numbers
    <3> QED
      BY <3>1, TotalOfZeros
  <2>6. Cardinality(Unboxing) = 0
    BY OneUnboxes DEF Unboxing, AtRest, OneUnboxing
  <2>7. Total(waiting) = 0
    BY <2>1, PartTypes, TotalOfZeros DEF AtRest
  <2> QED
    BY <2>1, <2>3, <2>4, <2>5, <2>6, <2>7, OutstandingIs DEF AtRest, CountsAgree, CountTypes
<1> QED
  BY <1>1, CountingInvariant, PTL

(* the slot is less than it was *)
LEMMA SlotFalls ==
    ASSUME NEW a \in Int, NEW b \in Int, a >= -1, b >= -1, b < a
    PROVE  \E n \in 1 .. a + 1 : b + 1 = (a + 1) - n /\ ((b # -1) = (b + 1 # 0))
<1> WITNESS a - b \in 1 .. a + 1
<1> QED
  OBVIOUS

(* Refinement: RefCountingColl's slot is the number of references that are out,
   less one; boxing grants one and a HANDLE_DEL gives back as many as it says,
   never more than are out, and no other step changes what the owner keeps. *)
THEOREM CountingImplements ==
    ASSUME NEW c, Consumer = {c}
    PROVE  Spec => Refinement
<1>1. Init /\ CountsAgree => Abstract!Init
  BY DEF Init, CountsAgree, Abstract!Init
<1>2. NetrefInv /\ NetrefInv' /\ [Next]_vars => [Abstract!Next]_<<slot # -1, Outstanding>>
  <2> SUFFICES ASSUME NetrefInv, NetrefInv', [Next]_vars
               PROVE  [Abstract!Next]_<<slot # -1, Outstanding>>
    OBVIOUS
  <2>1. /\ slot \in Int /\ slot >= -1 /\ slot' \in Int /\ slot' >= -1
        /\ Outstanding = slot + 1 /\ Outstanding' = slot' + 1
    BY DEF NetrefInv, CountTypes, CountsAgree
  <2>2. slot' = slot \/ slot' = slot + 1 \/ slot' < slot
    <3>1. CASE UNCHANGED slot
      BY <3>1
    <3>2. CASE Box
      BY <3>2 DEF Box, Added
    <3>3. ASSUME NEW o \in Owner, OwnerDecref(o) PROVE slot' = slot \/ slot' < slot
      <4>1. inHand[o].count \in Nat
        BY MessageCount DEF NetrefInv, CountTypes
      <4> QED
        BY <3>3, <4>1, <2>1 DEF OwnerDecref, Decref
    <3> QED
      BY <3>1, <3>2, <3>3
         DEF Next, OwnerReceives, OwnerUses, TakeRef, Lookup, LoadCount, StoreCount, Create,
             CreateFails, CacheProxy, SendUse, Drop, DelReads, DelSends, ClearRefs, RemoveCached,
             vars, ownerVars
  <2>3. CASE slot' = slot
    BY <2>1, <2>3
  <2>4. CASE slot' = slot + 1
    BY <2>1, <2>4 DEF Abstract!Next, Abstract!Grant
  <2>5. CASE slot' < slot
    <3>1. \E n \in 1 .. slot + 1 :
              slot' + 1 = (slot + 1) - n /\ ((slot' # -1) = (slot' + 1 # 0))
      BY <2>1, <2>5, SlotFalls, Zenon
    <3>2. \E n \in 1 .. Outstanding :
              Outstanding' = Outstanding - n /\ ((slot' # -1) = (Outstanding' # 0))
      BY <2>1, <3>1, Zenon
    <3> QED
      BY <3>2 DEF Abstract!Next, Abstract!GiveBack
  <2> QED
    BY <2>2, <2>3, <2>4, <2>5
<1>3. NetrefInv => CountsAgree
  BY DEF NetrefInv
<1> QED
  BY <1>1, <1>2, <1>3, CountingInvariant, PTL DEF Spec, Refinement, Abstract!Spec

-----------------------------------------------------------------------------
(* What is held is kept, and what is named is found *)

(* The consumer still has to give back a reference, or never will. *)
Holding == \/ refs > 0 \/ Unboxing # {} \/ lost > 0
           \/ \E t \in Consumer : waiting[t] > 0
           \/ \E p \in Proxy : state[p] = "live"

(* A request that names the object is followed by the HANDLE_DEL of the netref
   it was made through, or that netref is not dropped yet. *)
RequestsBacked ==
    /\ \A o \in Owner : inHand[o].kind = "use" =>
         Holding \/ \E j \in 1 .. Len(toOwner) : toOwner[j].count > 0
    /\ \A i \in 1 .. Len(toOwner) : toOwner[i].kind = "use" =>
         Holding \/ \E j \in i + 1 .. Len(toOwner) : toOwner[j].count > 0
    /\ \A o \in Owner : inHand[o].kind = "del" => inHand[o].count > 0
    /\ \A i \in 1 .. Len(toOwner) : toOwner[i].kind = "del" => toOwner[i].count > 0
    /\ ~missed

(* a reference that is still to be given back, or on its way, is counted *)
LEMMA HoldingCounts ==
    ASSUME NEW c, Consumer = {c}, NetrefInv,
           \/ Holding
           \/ \E j \in 1 .. Len(toOwner) : toOwner[j].count > 0
           \/ \E o \in Owner : inHand[o].count > 0
    PROVE  slot # -1
<1>1. CountTypes /\ ThreadInv(c) /\ CountsAgree
  BY DEF NetrefInv
<1>2. /\ refs \in Nat /\ Cardinality(Unboxing) \in Nat /\ Total(Counted) \in Nat
      /\ Total(Back(toOwner)) \in Nat /\ Total(Hand) \in Nat
      /\ Total(waiting) \in Nat /\ waiting[c] \in Nat /\ lost \in Nat
  <2>1. refs \in Nat /\ waiting[c] \in Nat /\ lost \in Nat
    BY <1>1 DEF CountTypes
  <2>3. Total(waiting) \in Nat
    BY <1>1, PartTypes, UnitsFinite, FS_Singleton
  <2>2. Cardinality(Unboxing) = OneUnboxing(pc[c]) /\ OneUnboxing(pc[c]) \in Nat
    <3>1. Cardinality(Unboxing) = OneUnboxing(pc[c])
      BY OneUnboxes DEF Unboxing
    <3> QED
      BY <3>1 DEF OneUnboxing
  <2> QED
    BY <1>1, <2>1, <2>2, <2>3, PartTypes
<1>3. slot + 1 = refs + Cardinality(Unboxing) + Total(Counted)
                 + Total(Back(toOwner)) + Total(Hand) + Total(waiting) + lost
  BY <1>1, OutstandingIs DEF CountsAgree
<1>4. ASSUME \/ refs > 0 \/ Cardinality(Unboxing) > 0 \/ Total(Counted) > 0
             \/ Total(Back(toOwner)) > 0 \/ Total(Hand) > 0 \/ Total(waiting) > 0 \/ lost > 0
      PROVE  slot # -1
  <2>1. refs + Cardinality(Unboxing) + Total(Counted)
          + Total(Back(toOwner)) + Total(Hand) + Total(waiting) + lost > 0
    BY <1>2, <1>4, SumPositive
  <2> QED
    BY <1>3, <2>1
<1>5. CASE refs > 0
  BY <1>4, <1>5
<1>6. CASE Unboxing # {}
  <2>1. Cardinality(Unboxing) > 0
    BY <1>6, OneUnboxes DEF Unboxing, OneUnboxing
  <2> QED
    BY <1>4, <2>1
<1>7. ASSUME NEW p \in Proxy, state[p] = "live" PROVE slot # -1
  <2>1. Counted[p] \in Nat /\ Counted[p] > 0
    BY <1>1, <1>7 DEF Counted, CountTypes, ThreadInv
  <2>2. Counted[p] <= Total(Counted)
    BY <1>1, PartTypes, TotalAtLeast, NetrefAssumption
  <2> QED
    BY <1>2, <1>4, <2>1, <2>2
<1>8. ASSUME NEW j \in 1 .. Len(toOwner), toOwner[j].count > 0 PROVE slot # -1
  <2>1. toOwner[j].count \in Nat /\ Back(toOwner)[j] = toOwner[j].count
    BY <1>1, BackType, MessageCount DEF CountTypes
  <2>2. Back(toOwner)[j] <= Total(Back(toOwner))
    BY <1>1, BackType, TotalAtLeast DEF CountTypes
  <2> QED
    BY <1>2, <1>4, <1>8, <2>1, <2>2
<1>9. ASSUME NEW o \in Owner, inHand[o].count > 0 PROVE slot # -1
  <2>1. inHand[o].count \in Nat /\ Hand[o] = inHand[o].count
    BY <1>1, MessageCount DEF CountTypes, Hand
  <2>2. Hand[o] <= Total(Hand)
    BY <1>1, PartTypes, TotalAtLeast, NetrefAssumption
  <2> QED
    BY <1>2, <1>4, <1>9, <2>1, <2>2
<1>10. CASE waiting[c] > 0
  <2>1. waiting[c] <= Total(waiting)
    BY <1>1, PartTypes, TotalAtLeast, FS_Singleton
  <2> QED
    BY <1>2, <1>4, <1>10, <2>1
<1>11. CASE lost > 0
  BY <1>4, <1>11
<1> QED
  BY <1>5, <1>6, <1>7, <1>8, <1>9, <1>10, <1>11 DEF Holding

(* While the consumer holds a netref, or one is on its way to it, the owner keeps
   the object, however many owner threads dispatch. *)
THEOREM HeldIsKept ==
    ASSUME NEW c, Consumer = {c}
    PROVE  Spec => [](refs > 0 \/ (\E t \in Consumer : var[t] # {}) => slot # -1)
<1>1. NetrefInv => (refs > 0 \/ (\E t \in Consumer : var[t] # {}) => slot # -1)
  <2> SUFFICES ASSUME NetrefInv, refs > 0 \/ var[c] # {} PROVE slot # -1
    OBVIOUS
  <2>1. Holding
    BY DEF Holding, NetrefInv, CountTypes, ThreadInv
  <2> QED
    BY <2>1, HoldingCounts
<1> QED
  BY <1>1, CountingInvariant, PTL

(* what is held is given back by DelSends, and no other step *)
LEMMA HoldingEnds ==
    ASSUME NEW c, Consumer = {c}, NetrefInv, [Next]_vars, Holding, ~DelSends(c)
    PROVE  Holding'
<1>1. CountTypes /\ ThreadInv(c) /\ (Unboxing # {} <=> c \in Unboxing)
  BY DEF NetrefInv, Unboxing
<1>2. CASE UNCHANGED <<refs, pc, state, factoryVars>>
  BY <1>2 DEF Holding, Unboxing, factoryVars
<1>3. CASE Box
  BY <1>1, <1>3 DEF Box, Holding, CountTypes
<1>4. CASE TakeRef(c) \/ Lookup(c) \/ LoadCount(c)
  <2>1. c \in Unboxing' \/ waiting'[c] > 0
    BY <1>1, <1>4 DEF TakeRef, Lookup, LoadCount, Goto, Unboxing, CountTypes
  <2> QED
    BY <2>1 DEF Holding
<1>5. CASE StoreCount(c)
  <2>1. reg[c] \in Proxy /\ state'[reg[c]] = "live"
    BY <1>1, <1>5, NetrefAssumption DEF StoreCount, CountTypes, ThreadInv
  <2> QED
    BY <2>1 DEF Holding
<1>6. CASE Create(c)
  <2>1. \E p \in Proxy : state'[p] = "live"
    BY <1>1, <1>6 DEF Create, CountTypes
  <2> QED
    BY <2>1 DEF Holding
<1>7. CASE CacheProxy(c)
  <2>1. reg[c] \in Proxy /\ state'[reg[c]] = "live"
    BY <1>1, <1>7, NetrefAssumption DEF CacheProxy, CountTypes, ThreadInv
  <2> QED
    BY <2>1 DEF Holding
<1>8. CASE Drop(c) \/ DelReads(c) \/ RemoveCached(c)
  <2>1. c \notin Unboxing /\ state' = state /\ refs' = refs /\ UNCHANGED <<waiting, lost>>
    BY <1>1, <1>8 DEF Drop, DelReads, RemoveCached, Unboxing, ownerVars, factoryVars
  <2> QED
    BY <1>1, <2>1 DEF Holding
<1>9. CASE ClearRefs(c)
  <2>1. /\ c \notin Unboxing /\ refs' = refs /\ UNCHANGED <<waiting, lost>>
        /\ \A p \in Proxy : state[p] = "live" => state'[p] = "live"
    BY <1>1, <1>9, NetrefAssumption
       DEF ClearRefs, Unboxing, ownerVars, factoryVars, CountTypes, ThreadInv
  <2> QED
    BY <1>1, <2>1 DEF Holding
<1>10. CASE SendUse(c) \/ \E o \in Owner : OwnerReceives(o) \/ OwnerUses(o) \/ OwnerDecref(o)
  BY <1>2, <1>10 DEF SendUse, OwnerReceives, OwnerUses, OwnerDecref, consumerVars
<1>11. CASE CreateFails(c)
  <2>1. lost' > 0
    BY <1>1, <1>11 DEF CreateFails, CountTypes
  <2> QED
    BY <2>1 DEF Holding
<1> QED
  BY <1>2, <1>3, <1>4, <1>5, <1>6, <1>7, <1>8, <1>9, <1>10, <1>11
     DEF Next, vars, ownerVars, consumerVars

(* with one thread at each side, the messages are dispatched in order *)
LEMMA RequestsKept ==
    ASSUME NEW c, NEW o, Consumer = {c}, Owner = {o}, NetrefInv, RequestsBacked, [Next]_vars
    PROVE  RequestsBacked'
<1>1. CountTypes /\ ThreadInv(c) /\ toOwner \in Seq(AnyMessage) /\ inHand \in [Owner -> AnyMessage]
  BY DEF NetrefInv, CountTypes
<1>2. inHand[o].kind \in {"use", "del"} => slot # -1
  BY HoldingCounts DEF RequestsBacked
<1>3. CASE Holding' /\ UNCHANGED <<toOwner, inHand, missed>>
  BY <1>3 DEF RequestsBacked
<1>4. CASE UNCHANGED <<toOwner, inHand, missed>> /\ (Holding => Holding')
  BY <1>4 DEF RequestsBacked
<1>5. CASE OwnerReceives(o)
  <2>1. Holding' = Holding
    BY <1>5 DEF OwnerReceives, Holding, Unboxing, consumerVars, factoryVars
  <2>2. /\ toOwner # <<>> /\ inHand' = [inHand EXCEPT ![o] = toOwner[1]]
        /\ missed' = missed /\ Len(toOwner') = Len(toOwner) - 1
        /\ \A i \in 1 .. Len(toOwner') : toOwner'[i] = toOwner[i + 1]
    BY <1>1, <1>5 DEF OwnerReceives
  <2>3. 1 \in 1 .. Len(toOwner) /\ \A i \in 1 .. Len(toOwner') : i + 1 \in 1 .. Len(toOwner)
    BY <1>1, <2>2
  <2>4. ASSUME NEW i \in 1 .. Len(toOwner), toOwner[i].kind = "use", ~Holding
        PROVE  \E j \in i .. Len(toOwner') : toOwner'[j].count > 0
    <3>1. PICK k \in i + 1 .. Len(toOwner) : toOwner[k].count > 0
      BY <2>4 DEF RequestsBacked
    <3>2. k - 1 \in i .. Len(toOwner') /\ toOwner'[k - 1] = toOwner[k]
      BY <1>1, <2>2
    <3> QED
      BY <3>1, <3>2
  <2>5. inHand'[o] = toOwner[1]
    BY <1>1, <2>2
  <2>6. inHand'[o].kind = "use" =>
          Holding' \/ \E j \in 1 .. Len(toOwner') : toOwner'[j].count > 0
    BY <2>1, <2>3, <2>4, <2>5
  <2>7. \A i \in 1 .. Len(toOwner') : toOwner'[i].kind = "use" =>
          Holding' \/ \E j \in i + 1 .. Len(toOwner') : toOwner'[j].count > 0
    BY <2>1, <2>2, <2>3, <2>4
  <2>8. /\ inHand'[o].kind = "del" => inHand'[o].count > 0
        /\ \A i \in 1 .. Len(toOwner') : toOwner'[i].kind = "del" => toOwner'[i].count > 0
        /\ ~missed'
    BY <2>2, <2>3, <2>5 DEF RequestsBacked
  <2> QED
    BY <2>6, <2>7, <2>8 DEF RequestsBacked
<1>6. CASE OwnerUses(o) \/ OwnerDecref(o)
  <2>1. /\ inHand'[o] = NoMsg /\ toOwner' = toOwner /\ ~missed'
        /\ Holding' = Holding
    BY <1>1, <1>2, <1>6
       DEF OwnerUses, OwnerDecref, RequestsBacked, Holding, Unboxing, consumerVars, factoryVars
  <2> QED
    BY <2>1 DEF RequestsBacked, NoMsg
<1>7. ASSUME NEW m \in AnyMessage, toOwner' = Append(toOwner, m), UNCHANGED <<inHand, missed>>,
             (m.kind = "use" /\ Holding') \/ (m.kind = "del" /\ m.count > 0)
      PROVE  RequestsBacked'
  <2>1. /\ Len(toOwner') = Len(toOwner) + 1 /\ toOwner'[Len(toOwner')] = m
        /\ \A i \in 1 .. Len(toOwner) : toOwner'[i] = toOwner[i]
        /\ \A i \in 1 .. Len(toOwner') : i \in 1 .. Len(toOwner) \/ i = Len(toOwner')
    BY <1>1, <1>7
  <2>2. ASSUME NEW i \in 1 .. Len(toOwner), ~Holding'
        PROVE  \E j \in i + 1 .. Len(toOwner') : toOwner'[j].count > 0
    <3>1. Len(toOwner') \in i + 1 .. Len(toOwner') /\ m.count > 0
      BY <1>1, <1>7, <2>1, <2>2
    <3> QED
      BY <2>1, <3>1
  <2>3. ASSUME ~Holding' PROVE \E j \in 1 .. Len(toOwner') : toOwner'[j].count > 0
    <3>1. Len(toOwner') \in 1 .. Len(toOwner') /\ m.count > 0
      BY <1>1, <1>7, <2>1, <2>3
    <3> QED
      BY <2>1, <3>1
  <2>4. \A i \in 1 .. Len(toOwner') : toOwner'[i].kind = "use" =>
          Holding' \/ \E j \in i + 1 .. Len(toOwner') : toOwner'[j].count > 0
    BY <1>7, <2>1, <2>2
  <2>5. \A i \in 1 .. Len(toOwner') : toOwner'[i].kind = "del" => toOwner'[i].count > 0
    BY <1>7, <2>1 DEF RequestsBacked
  <2> QED
    BY <1>7, <2>3, <2>4, <2>5 DEF RequestsBacked
<1>8. CASE SendUse(c)
  <2>1. Holding'
    BY <1>1, <1>8 DEF SendUse, Holding, CountTypes, ThreadInv, consumerVars
  <2>2. Use \in AnyMessage /\ Use.kind = "use"
    BY DEF AnyMessage, Use
  <2> QED
    BY <1>7, <1>8, <2>1, <2>2 DEF SendUse
<1>9. CASE DelSends(c)
  <2>1. read[c] \in Nat /\ read[c] > 0
    BY <1>1, <1>9, NetrefAssumption DEF DelSends, CountTypes, ThreadInv
  <2>2. Del(read[c]) \in AnyMessage /\ Del(read[c]).kind = "del" /\ Del(read[c]).count > 0
    BY <2>1 DEF AnyMessage, Del
  <2> QED
    BY <1>7, <1>9, <2>2 DEF DelSends
<1>10. CASE ~DelSends(c) /\ UNCHANGED <<toOwner, inHand, missed>>
  BY <1>4, <1>10, HoldingEnds
<1> QED
  BY <1>5, <1>6, <1>8, <1>9, <1>10
     DEF Next, Box, TakeRef, Lookup, LoadCount, StoreCount, Create, CreateFails, CacheProxy,
         Drop, DelReads,         ClearRefs, RemoveCached, vars, ownerVars

(* NeverDangles: with one thread at each side every request finds its object, and
   so does every HANDLE_DEL. *)
THEOREM NeverDanglesInOrder ==
    ASSUME NEW c, NEW o, Consumer = {c}, Owner = {o}
    PROVE  Spec => []NeverDangles
<1>1. Init => RequestsBacked
  BY DEF Init, RequestsBacked, NoMsg
<1>2. NetrefInv /\ RequestsBacked /\ [Next]_vars => RequestsBacked'
  BY RequestsKept
<1>3. RequestsBacked => ~missed
  BY DEF RequestsBacked
<1> QED
  BY <1>1, <1>2, <1>3, CountingInvariant, HeldIsKept, PTL DEF Spec, NeverDangles

-----------------------------------------------------------------------------
(* brine: what is written is read *)

(* The four bytes of a length hold no more. *)
MaxLength == 4294967295

(* What was written, and what comes behind it. *)
Written(stream, chunks, rest) == stream = chunks \o rest

(* The first chunk of a stream, and what comes behind it. *)
Starts(stream, chunk, rest) == stream # <<>> /\ Head(stream) = chunk /\ Tail(stream) = rest

(* A chunk is read as it was written. *)
LEMMA OneChunk ==
    ASSUME NEW C, NEW rest \in Seq(C), NEW a, NEW stream, Written(stream, <<a>>, rest)
    PROVE  Starts(stream, a, rest) /\ stream \in Seq(C \cup {a})
<1> DEFINE s == <<a>> \o rest
<1>1. rest \in Seq(C \cup {a}) /\ <<a>> \in Seq(C \cup {a})
  OBVIOUS
<1>2. /\ s \in Seq(C \cup {a}) /\ Len(s) = Len(rest) + 1
      /\ \A i \in 1 .. Len(s) : s[i] = IF i = 1 THEN a ELSE rest[i - 1]
  BY <1>1
<1>3. s # <<>> /\ Head(s) = a
  BY <1>2
<1>4. Tail(s) = rest
  <2>1. Tail(s) \in Seq(C \cup {a}) /\ Len(Tail(s)) = Len(rest)
    BY <1>2
  <2>2. \A i \in 1 .. Len(rest) : Tail(s)[i] = rest[i]
    BY <1>2
  <2> QED
    BY <1>1, <2>1, <2>2
<1>5. stream = s
  BY DEF Written
<1> HIDE DEF s
<1> QED
  BY <1>2, <1>3, <1>4, <1>5 DEF Starts

(* Two chunks are one before the other. *)
LEMMA TwoChunks ==
    ASSUME NEW C, NEW rest \in Seq(C), NEW a, NEW b, NEW stream, Written(stream, <<a, b>>, rest)
    PROVE  \E more : /\ Starts(stream, a, more) /\ Starts(more, b, rest)
                     /\ more \in Seq(C \cup {b})
<1> DEFINE D == C \cup {a, b}
<1>1. rest \in Seq(D) /\ <<a>> \in Seq(D) /\ <<b>> \in Seq(D) /\ <<a, b>> \in Seq(D)
  OBVIOUS
<1> DEFINE left  == <<a, b>> \o rest
           more  == <<b>> \o rest
           right == <<a>> \o more
<1>2. /\ left \in Seq(D) /\ Len(left) = Len(rest) + 2
      /\ \A i \in 1 .. Len(left) : left[i] = IF i = 1 THEN a ELSE IF i = 2 THEN b ELSE rest[i - 2]
  BY <1>1
<1>3. /\ more \in Seq(D) /\ Len(more) = Len(rest) + 1
      /\ \A i \in 1 .. Len(more) : more[i] = IF i = 1 THEN b ELSE rest[i - 1]
  BY <1>1
<1>4. /\ right \in Seq(D) /\ Len(right) = Len(rest) + 2
      /\ \A i \in 1 .. Len(right) : right[i] = IF i = 1 THEN a ELSE more[i - 1]
  <2> HIDE DEF more
  <2> QED
    BY <1>1, <1>3
<1>5. ASSUME NEW i \in 1 .. Len(left) PROVE left[i] = right[i]
  <2>1. /\ i \in 1 .. Len(right) /\ i \in Nat /\ Len(rest) \in Nat
        /\ i # 1 => i - 1 \in 1 .. Len(more)
        /\ (i - 1) - 1 = i - 2 /\ (i - 1 = 1 <=> i = 2)
    <3> HIDE DEF left, more, right
    <3> QED
      BY <1>1, <1>2, <1>3, <1>4
  <2> HIDE DEF left, more, right
  <2>2. CASE i = 1
    BY <2>1, <2>2, <1>2, <1>4
  <2>3. CASE i # 1
    <3>1. right[i] = more[i - 1]
      BY <2>1, <2>3, <1>4
    <3>2. more[i - 1] = IF i = 2 THEN b ELSE rest[i - 2]
      BY <2>1, <2>3, <1>3
    <3>3. left[i] = IF i = 2 THEN b ELSE rest[i - 2]
      BY <2>1, <2>3, <1>2
    <3> QED
      BY <3>1, <3>2, <3>3
  <2> QED
    BY <2>2, <2>3
<1>6. left = right
  <2> HIDE DEF left, more, right
  <2> QED
    BY <1>2, <1>4, <1>5
<1>7. Starts(more, b, rest) /\ more \in Seq(C \cup {b})
  <2>1. Written(more, <<b>>, rest)
    BY DEF Written
  <2> HIDE DEF more
  <2> QED
    BY <2>1, OneChunk
<1>8. Starts(stream, a, more)
  <2>1. Written(stream, <<a>>, more)
    <3>1. stream = left
      BY DEF Written
    <3> HIDE DEF left
    <3> QED
      BY <3>1, <1>6 DEF Written
  <2> HIDE DEF more
  <2> QED
    BY <2>1, <1>7, OneChunk
<1> HIDE DEF more
<1> QED
  BY <1>7, <1>8

(* A number is read as itself, with what follows it left. *)
LEMMA NumberReturns ==
    ASSUME NEW stream, NEW size, NEW n, NEW rest, Starts(stream, Number(size, n), rest)
    PROVE  IsNumber(size, stream) /\ NextNumber(stream) = n /\ After(stream) = rest
BY DEF Starts, IsNumber, NextNumber, After, Number

(* The tags are numbers. *)
LEMMA Tags ==
    /\ TAG.NONE = 0 /\ TAG.EMPTY_STR = 1 /\ TAG.EMPTY_TUPLE = 2 /\ TAG.TRUE = 3
    /\ TAG.FALSE = 4 /\ TAG.NOT_IMPLEMENTED = 5 /\ TAG.ELLIPSIS = 6 /\ TAG.UNICODE = 8
    /\ TAG.STR_L1 = 14 /\ TAG.STR_L4 = 15 /\ TAG.TUP_L1 = 20 /\ TAG.TUP_L4 = 21
    /\ TAG.INT_L1 = 22 /\ TAG.INT_L4 = 23 /\ TAG.FLOAT = 24 /\ TAG.SLICE = 25
    /\ TAG.FSET = 26 /\ TAG.COMPLEX = 27
BY SMT DEF TAG

(* The size of a tuple is read from its header, with the items left. *)
ReadsHeader(stream, n, rest) ==
    /\ IsNumber(1, stream) /\ NextNumber(stream) \in TupleTag
    /\ LoadHeader(NextNumber(stream), After(stream)) = Loaded(n, rest)

(* ... by the loader of its tag. *)
LEMMA ReadsHeaderOf ==
    ASSUME NEW stream, NEW t, NEW more, NEW n, NEW rest, Starts(stream, Byte(t), more),
           t \in TupleTag, LoadHeader(t, more) = Loaded(n, rest)
    PROVE  ReadsHeader(stream, n, rest)
BY NumberReturns DEF Byte, ReadsHeader

(* A header with a length: the length is read. *)
LEMMA SizedHeader ==
    ASSUME NEW more, NEW size, NEW n, NEW rest, Starts(more, Number(size, n), rest), NEW t,
           (t = 20 /\ size = 1) \/ (t = 21 /\ size = 4)
    PROVE  LoadHeader(t, more) = Loaded(n, rest) /\ t \in TupleTag
<1>1. IsNumber(size, more) /\ NextNumber(more) = n /\ After(more) = rest
  BY NumberReturns
<1> QED
  BY SMT, <1>1, Tags DEF LoadHeader, TupleTag, TAG_TUP

(* The header of a tuple of whatever size, 4294967295 items at most, tells that
   size again and leaves what follows it, the items. *)
THEOREM HeaderReturns ==
    ASSUME NEW C, NEW rest \in Seq(C), NEW n \in Nat, n <= MaxLength,
           NEW stream, Written(stream, DumpHeader(n), rest)
    PROVE  ReadsHeader(stream, n, rest)
<1>1. CASE n = 0
  <2>1. DumpHeader(n) = <<Byte(2)>>
    BY SMT, <1>1, Tags DEF DumpHeader
  <2>2. Starts(stream, Byte(2), rest)
    BY <2>1, OneChunk
  <2>3. LoadHeader(2, rest) = Loaded(n, rest) /\ 2 \in TupleTag
    BY SMT, <1>1, Tags DEF LoadHeader, TupleTag, TAG_TUP
  <2> QED
    BY <2>2, <2>3, ReadsHeaderOf
<1>2. CASE n \in 1 .. 4
  <2>1. DumpHeader(n) = <<Byte(n + 15)>>
    <3>1. n # 0 /\ n \notin 5 .. 255 /\ TAG_TUP(n) = n + 15
      BY <1>2 DEF TAG_TUP
    <3> QED
      BY Zenon, <1>2, <3>1 DEF DumpHeader
  <2>2. Starts(stream, Byte(n + 15), rest)
    BY <2>1, OneChunk
  <2>3. LoadHeader(n + 15, rest) = Loaded(n, rest) /\ n + 15 \in TupleTag
    <3>1. /\ n + 15 \in TAG_TUP(1) .. TAG_TUP(4) /\ (n + 15) - TAG_TUP(0) = n
          /\ n + 15 # 2 /\ n + 15 # 20 /\ n + 15 # 21
      BY <1>2 DEF TAG_TUP
    <3> QED
      BY Zenon, <3>1, Tags DEF LoadHeader, TupleTag
  <2> QED
    BY <2>2, <2>3, ReadsHeaderOf
<1>3. CASE n \in 5 .. 255
  <2>1. DumpHeader(n) = <<Byte(20), Number(1, n)>>
    <3>1. n # 0 /\ n \notin 1 .. 4 /\ n < 256
      BY <1>3
    <3> QED
      BY Zenon, <1>3, <3>1, Tags DEF DumpHeader, I1
  <2>2. PICK more : Starts(stream, Byte(20), more) /\ Starts(more, Number(1, n), rest)
    BY <2>1, TwoChunks
  <2> QED
    BY <2>2, SizedHeader, ReadsHeaderOf
<1>4. CASE n > 255
  <2>1. DumpHeader(n) = <<Byte(21), Number(4, n)>>
    <3>1. n # 0 /\ n \notin 1 .. 4 /\ n \notin 5 .. 255
      BY <1>4
    <3> QED
      BY Zenon, <3>1, Tags DEF DumpHeader, I4
  <2>2. PICK more : Starts(stream, Byte(21), more) /\ Starts(more, Number(4, n), rest)
    BY <2>1, TwoChunks
  <2> QED
    BY <2>2, SizedHeader, ReadsHeaderOf
<1> QED
  BY <1>1, <1>2, <1>3, <1>4

(* What is written after something is what comes behind it. *)
LEMMA Prefixed ==
    ASSUME NEW D, NEW xs \in Seq(D), NEW ys \in Seq(D), NEW C, NEW rest \in Seq(C),
           NEW stream, Written(stream, xs \o ys, rest)
    PROVE  \E more : /\ Written(stream, xs, more) /\ Written(more, ys, rest)
                     /\ more \in Seq(C \cup D)
<1>1. xs \in Seq(C \cup D) /\ ys \in Seq(C \cup D) /\ rest \in Seq(C \cup D)
  BY SeqMonotonic
<1>2. (xs \o ys) \o rest = xs \o (ys \o rest)
  BY <1>1, ConcatAssociative
<1>3. ys \o rest \in Seq(C \cup D)
  BY <1>1, ConcatProperties
<1>4. Written(stream, xs, ys \o rest) /\ Written(ys \o rest, ys, rest)
  BY Zenon, <1>2 DEF Written
<1> QED
  BY Zenon, <1>3, <1>4

(* A text of the size that is asked for is read. *)
LEMMA TextReturns ==
    ASSUME NEW stream, NEW kind, NEW label, NEW len, NEW rest,
           Starts(stream, [size |-> len, text |-> label], rest)
    PROVE  LoadText(kind, len, stream) = Loaded(Leaf(kind, label, len), rest)
<1> DEFINE chunk == [size |-> len, text |-> label]
<1>1. chunk.size = len /\ chunk.text = label /\ "text" \in DOMAIN chunk
  OBVIOUS
<1>2. stream # <<>> /\ Head(stream) = chunk /\ After(stream) = rest
  BY Zenon DEF Starts, After
<1> HIDE DEF chunk
<1> QED
  BY Zenon, <1>1, <1>2 DEF LoadText

(* A text that is preceded by its length is read. *)
LEMMA SizedReturns ==
    ASSUME NEW stream, NEW size, NEW more, NEW kind, NEW label, NEW len, NEW rest,
           Starts(stream, Number(size, len), more),
           Starts(more, [size |-> len, text |-> label], rest)
    PROVE  LoadSized(kind, size, stream) = Loaded(Leaf(kind, label, len), rest)
<1>1. IsNumber(size, stream) /\ NextNumber(stream) = len /\ After(stream) = more
  BY NumberReturns
<1>2. LoadText(kind, len, more) = Loaded(Leaf(kind, label, len), rest)
  BY TextReturns
<1> QED
  BY Zenon, <1>1, <1>2 DEF LoadSized

(* A tag, a length and a text come one after the other. *)
LEMMA ThreeChunks ==
    ASSUME NEW C, NEW rest \in Seq(C), NEW a, NEW b, NEW c, NEW stream,
           Written(stream, <<a, b>> \o <<c>>, rest)
    PROVE  \E more, last : /\ Starts(stream, a, more) /\ Starts(more, b, last)
                           /\ Starts(last, c, rest)
<1>1. <<a, b>> \in Seq({a, b, c}) /\ <<c>> \in Seq({a, b, c})
  OBVIOUS
<1>2. PICK last : /\ Written(stream, <<a, b>>, last) /\ Written(last, <<c>>, rest)
                  /\ last \in Seq(C \cup {a, b, c})
  BY <1>1, Prefixed
<1>3. Starts(last, c, rest)
  BY <1>2, OneChunk
<1>4. PICK more : Starts(stream, a, more) /\ Starts(more, b, last)
  BY <1>2, TwoChunks
<1> QED
  BY <1>3, <1>4

(* The bytes of a value of any length are read as they were written, whatever kind
   of value is made of them. *)
LEMMA BytesReturn ==
    ASSUME NEW C, NEW rest \in Seq(C), NEW label, NEW len \in Nat, len = 0 => label = NoText,
           NEW own, NEW kind, NEW stream,
           Written(stream, DumpBytes(Leaf(own, label, len)), rest)
    PROVE  \E t, more :
               /\ t \in {1} \cup 10 .. 15 /\ Starts(stream, Byte(t), more)
               /\ LoadBytes(kind, t, more) = Loaded(Leaf(kind, label, len), rest)
<1> DEFINE obj == Leaf(own, label, len)
           text == [size |-> len, text |-> label]
<1>1. obj.len = len /\ Text(obj) = text
  BY DEF Leaf, Text
<1> HIDE DEF obj, text
<1>2. Written(stream, DumpBytes(obj), rest)
  BY DEF obj
<1>3. CASE len = 0
  <2>1. DumpBytes(obj) = <<Byte(1)>>
    BY Zenon, <1>1, <1>3, Tags DEF DumpBytes
  <2>2. Starts(stream, Byte(1), rest)
    BY <1>2, <2>1, OneChunk
  <2>3. LoadBytes(kind, 1, rest) = Loaded(Leaf(kind, label, len), rest)
    BY SMT, <1>3, Tags DEF LoadBytes
  <2> QED
    BY <2>2, <2>3
<1>4. CASE len \in 1 .. 4
  <2>1. DumpBytes(obj) = <<Byte(len + 9)>> \o <<text>>
    <3>1. len # 0 /\ len \notin 5 .. 255 /\ TAG_STR(len) = len + 9
      BY <1>4 DEF TAG_STR
    <3> QED
      BY Zenon, <1>1, <1>4, <3>1 DEF DumpBytes
  <2>2. <<Byte(len + 9)>> \in Seq({Byte(len + 9), text}) /\ <<text>> \in Seq({Byte(len + 9), text})
    OBVIOUS
  <2>3. PICK more : /\ Written(stream, <<Byte(len + 9)>>, more) /\ Written(more, <<text>>, rest)
                    /\ more \in Seq(C \cup {Byte(len + 9), text})
    BY <1>2, <2>1, <2>2, Prefixed
  <2>4. Starts(stream, Byte(len + 9), more) /\ Starts(more, text, rest)
    BY <2>3, OneChunk
  <2>5. LoadText(kind, len, more) = Loaded(Leaf(kind, label, len), rest)
    BY <2>4, TextReturns DEF text
  <2>6. LoadBytes(kind, len + 9, more) = Loaded(Leaf(kind, label, len), rest)
    <3>1. len + 9 # 1 /\ len + 9 # 14 /\ len + 9 # 15 /\ (len + 9) - TAG_STR(0) = len
      BY <1>4 DEF TAG_STR
    <3> QED
      BY Zenon, <2>5, <3>1, Tags DEF LoadBytes
  <2>7. len + 9 \in {1} \cup 10 .. 15
    BY <1>4
  <2> QED
    BY Zenon, <2>4, <2>6, <2>7
<1>5. CASE len \in 5 .. 255
  <2>1. DumpBytes(obj) = <<Byte(14), Number(1, len)>> \o <<text>>
    <3>1. len # 0 /\ len \notin 1 .. 4 /\ len < 256
      BY <1>5
    <3> QED
      BY Zenon, <1>1, <1>5, <3>1, Tags DEF DumpBytes, I1
  <2>2. PICK more, last : /\ Starts(stream, Byte(14), more) /\ Starts(more, Number(1, len), last)
                          /\ Starts(last, text, rest)
    BY <1>2, <2>1, ThreeChunks
  <2>3. LoadSized(kind, 1, more) = Loaded(Leaf(kind, label, len), rest)
    BY <2>2, SizedReturns DEF text
  <2>4. LoadBytes(kind, 14, more) = Loaded(Leaf(kind, label, len), rest)
    <3>1. 14 # 1 /\ 14 # 15
      OBVIOUS
    <3> QED
      BY Zenon, <2>3, <3>1, Tags DEF LoadBytes
  <2> QED
    BY <2>2, <2>4
<1>6. CASE len > 255
  <2>1. DumpBytes(obj) = <<Byte(15), Number(4, len)>> \o <<text>>
    <3>1. len # 0 /\ len \notin 1 .. 4 /\ len \notin 5 .. 255
      BY <1>6
    <3> QED
      BY Zenon, <1>1, <3>1, Tags DEF DumpBytes, I4
  <2>2. PICK more, last : /\ Starts(stream, Byte(15), more) /\ Starts(more, Number(4, len), last)
                          /\ Starts(last, text, rest)
    BY <1>2, <2>1, ThreeChunks
  <2>3. LoadSized(kind, 4, more) = Loaded(Leaf(kind, label, len), rest)
    BY <2>2, SizedReturns DEF text
  <2>4. LoadBytes(kind, 15, more) = Loaded(Leaf(kind, label, len), rest)
    <3>1. 15 # 1 /\ 15 # 14
      OBVIOUS
    <3> QED
      BY Zenon, <2>3, <3>1, Tags DEF LoadBytes
  <2> QED
    BY <2>2, <2>4
<1> QED
  BY <1>3, <1>4, <1>5, <1>6

(* Ints that are immediate and types have tags of their own. *)
IsImmediate(t) == t - 80 \in IMM_INTS
IsType(t)      == t \in {TypeTag[k] : k \in DOMAIN TypeTag}

(* The tags of ints and types are none of the others. *)
LEMMA TagRanges ==
    /\ \A t \in 0 .. 27 : ~IsImmediate(t) /\ ~IsType(t)
    /\ \A n \in IMM_INTS : LET t == n + 80
                           IN  t \in 32 .. 239 /\ t - 80 = n /\ IsImmediate(t) /\ ~IsType(t)
    /\ \A k \in LoadableType : LET t == TypeTag[k]
                               IN  t \in 28 .. 31 \cup 240 .. 242 /\ ~IsImmediate(t) /\ IsType(t)
<1>1. \A k \in DOMAIN TypeTag : TypeTag[k] \in 28 .. 31 \cup 240 .. 244
  BY DEF TypeTag
<1>2. \A t : IsType(t) => t \in 28 .. 31 \cup 240 .. 244
  BY <1>1 DEF IsType
<1>3. \A k \in LoadableType : k \in DOMAIN TypeTag
  BY Zenon DEF LoadableType
<1>4. \A k \in LoadableType : IsType(TypeTag[k])
  BY Zenon, <1>3 DEF IsType
<1>5. \A k \in LoadableType : TypeTag[k] \in 28 .. 31 \cup 240 .. 242
  BY DEF LoadableType, TypeTag
<1>6. \A t \in 28 .. 31 \cup 240 .. 244 : ~IsImmediate(t)
  BY DEF IsImmediate, IMM_INTS
<1>7. \A t \in 0 .. 27 : ~IsImmediate(t) /\ ~IsType(t)
  <2>1. \A t \in 0 .. 27 : t \notin 28 .. 31 \cup 240 .. 244
    OBVIOUS
  <2> QED
    BY <1>2, <2>1 DEF IsImmediate, IMM_INTS
<1>8. ASSUME NEW n \in IMM_INTS
      PROVE  n + 80 \in 32 .. 239 /\ (n + 80) - 80 = n /\ IsImmediate(n + 80) /\ ~IsType(n + 80)
  <2>1. n + 80 \in 32 .. 239 /\ (n + 80) - 80 = n
    BY DEF IMM_INTS
  <2>2. n + 80 \notin 28 .. 31 \cup 240 .. 244
    BY <2>1
  <2> QED
    BY <1>2, <2>1, <2>2 DEF IsImmediate
<1>9. ASSUME NEW k \in LoadableType
      PROVE  /\ TypeTag[k] \in 28 .. 31 \cup 240 .. 242
             /\ ~IsImmediate(TypeTag[k]) /\ IsType(TypeTag[k])
  <2> DEFINE t == TypeTag[k]
  <2>1. t \in 28 .. 31 \cup 240 .. 242 /\ IsType(t)
    BY Zenon, <1>4, <1>5
  <2> HIDE DEF t
  <2>2. t \in 28 .. 31 \cup 240 .. 244
    BY <2>1
  <2>3. ~IsImmediate(t)
    BY Zenon, <1>6, <2>2
  <2> QED
    BY Zenon, <2>1, <2>3 DEF t
<1> QED
  BY Zenon, <1>7, <1>8, <1>9

(* The loader of a tag, with the tags as numbers. *)
LEMMA LoaderOf ==
    ASSUME NEW t, NEW more
    PROVE  LoadSimple(t, more) =
           CASE IsImmediate(t) -> Loaded(Integer(t - 80, DecimalLen(t - 80)), more)
             [] IsType(t)      -> LoadType(t, more)
             [] t = 0          -> Loaded(Leaf("NoneType", NoText, 0), more)
             [] t = 5          -> Loaded(Leaf("NotImplementedType", NoText, 0), more)
             [] t = 6          -> Loaded(Leaf("ellipsis", NoText, 0), more)
             [] t = 3          -> Loaded(Leaf("bool", "True", 0), more)
             [] t = 4          -> Loaded(Leaf("bool", "False", 0), more)
             [] t = 24         -> LoadText("float", 8, more)
             [] t = 27         -> LoadText("complex", 16, more)
             [] t = 22         -> LoadSized("int", 1, more)
             [] t = 23         -> LoadSized("int", 4, more)
             [] t = 8          ->
                   IF IsNumber(1, more) THEN LoadBytes("str", NextNumber(more), After(more))
                                        ELSE Raises
             [] OTHER          -> LoadBytes("bytes", t, more)
BY Zenon, Tags DEF LoadSimple, IsImmediate, IsType

(* The tag of an immediate int is that int again. *)
LEMMA ImmediateLoader ==
    ASSUME NEW n \in IMM_INTS, NEW more
    PROVE  LoadSimple(n + 80, more) = Loaded(Integer(n, DecimalLen(n)), more)
<1> DEFINE t == n + 80
<1>1. t \in 32 .. 239 /\ t - 80 = n /\ IsImmediate(t) /\ ~IsType(t)
  BY Zenon, TagRanges
<1> HIDE DEF t
<1>2. LoadSimple(t, more) = Loaded(Integer(t - 80, DecimalLen(t - 80)), more)
  BY SMT, <1>1, LoaderOf
<1> QED
  BY Zenon, <1>1, <1>2 DEF t

(* The tag of a type has the loader of types. *)
LEMMA TypeLoader ==
    ASSUME NEW k \in LoadableType, NEW more
    PROVE  LoadSimple(TypeTag[k], more) = LoadType(TypeTag[k], more)
<1> DEFINE t == TypeTag[k]
<1>1. t \in 28 .. 31 \cup 240 .. 242 /\ ~IsImmediate(t) /\ IsType(t)
  BY Zenon, TagRanges
<1> HIDE DEF t
<1>2. LoadSimple(t, more) = LoadType(t, more)
  BY SMT, <1>1, LoaderOf
<1> QED
  BY Zenon, <1>2 DEF t

(* the other loaders, by their tags *)
LEMMA Loaders ==
    ASSUME NEW more
    PROVE  /\ LoadSimple(0, more) = Loaded(Leaf("NoneType", NoText, 0), more)
           /\ LoadSimple(3, more) = Loaded(Leaf("bool", "True", 0), more)
           /\ LoadSimple(4, more) = Loaded(Leaf("bool", "False", 0), more)
           /\ LoadSimple(5, more) = Loaded(Leaf("NotImplementedType", NoText, 0), more)
           /\ LoadSimple(6, more) = Loaded(Leaf("ellipsis", NoText, 0), more)
           /\ LoadSimple(24, more) = LoadText("float", 8, more)
           /\ LoadSimple(27, more) = LoadText("complex", 16, more)
           /\ LoadSimple(22, more) = LoadSized("int", 1, more)
           /\ LoadSimple(23, more) = LoadSized("int", 4, more)
           /\ IsNumber(1, more) =>
                 LoadSimple(8, more) = LoadBytes("str", NextNumber(more), After(more))
           /\ \A t \in {1} \cup 10 .. 15 : LoadSimple(t, more) = LoadBytes("bytes", t, more)
<1>1. \A t \in 0 .. 27 : ~IsImmediate(t) /\ ~IsType(t)
  BY Zenon, TagRanges
<1>2. \A t \in {1} \cup 10 .. 15 : LoadSimple(t, more) = LoadBytes("bytes", t, more)
  BY SMT, <1>1, LoaderOf
<1>3. /\ LoadSimple(0, more) = Loaded(Leaf("NoneType", NoText, 0), more)
      /\ LoadSimple(3, more) = Loaded(Leaf("bool", "True", 0), more)
      /\ LoadSimple(4, more) = Loaded(Leaf("bool", "False", 0), more)
      /\ LoadSimple(5, more) = Loaded(Leaf("NotImplementedType", NoText, 0), more)
      /\ LoadSimple(6, more) = Loaded(Leaf("ellipsis", NoText, 0), more)
  BY SMT, <1>1, LoaderOf
<1>4. /\ LoadSimple(24, more) = LoadText("float", 8, more)
      /\ LoadSimple(27, more) = LoadText("complex", 16, more)
      /\ LoadSimple(22, more) = LoadSized("int", 1, more)
      /\ LoadSimple(23, more) = LoadSized("int", 4, more)
      /\ IsNumber(1, more) =>
            LoadSimple(8, more) = LoadBytes("str", NextNumber(more), After(more))
  BY SMT, <1>1, LoaderOf
<1> QED
  BY <1>2, <1>3, <1>4

(* A value is read from its tag on, with what follows it left. *)
ReadsSimple(stream, obj, rest) ==
    /\ IsNumber(1, stream)
    /\ NextNumber(stream) \notin TupleTag \cup {TAG.SLICE, TAG.FSET}
    /\ LoadSimple(NextNumber(stream), After(stream)) = Loaded(obj, rest)

(* ... by the loader of its tag. *)
LEMMA ReadsSimpleOf ==
    ASSUME NEW stream, NEW t, NEW more, NEW obj, NEW rest, Starts(stream, Byte(t), more),
           t \notin {2} \cup 16 .. 19 \cup {20, 21, 25, 26},
           LoadSimple(t, more) = Loaded(obj, rest)
    PROVE  ReadsSimple(stream, obj, rest)
<1>1. IsNumber(1, stream) /\ NextNumber(stream) = t /\ After(stream) = more
  BY NumberReturns DEF Byte
<1>2. t \notin TupleTag \cup {TAG.SLICE, TAG.FSET}
  BY SMT, Tags DEF TupleTag, TAG_TUP
<1> QED
  BY Zenon, <1>1, <1>2 DEF ReadsSimple

(* the constants, of one byte *)
LEMMA ConstantsReturn ==
    ASSUME NEW C, NEW rest \in Seq(C), NEW stream,
           NEW obj \in {Leaf("NoneType", NoText, 0), Leaf("NotImplementedType", NoText, 0),
                        Leaf("ellipsis", NoText, 0),
                        Leaf("bool", "True", 0), Leaf("bool", "False", 0)},
           Written(stream, DumpSimple(obj), rest)
    PROVE  ReadsSimple(stream, obj, rest)
<1>1. \E t \in {0, 3, 4, 5, 6} :
          DumpSimple(obj) = <<Byte(t)>> /\ LoadSimple(t, rest) = Loaded(obj, rest)
  <2>1. CASE obj = Leaf("NoneType", NoText, 0)
    <3>1. DumpSimple(obj) = <<Byte(0)>>
      BY SMT, <2>1, Tags DEF DumpSimple, Leaf
    <3> QED
      BY <2>1, <3>1, Loaders
  <2>2. CASE obj = Leaf("NotImplementedType", NoText, 0)
    <3>1. DumpSimple(obj) = <<Byte(5)>>
      BY SMT, <2>2, Tags DEF DumpSimple, Leaf
    <3> QED
      BY <2>2, <3>1, Loaders
  <2>3. CASE obj = Leaf("ellipsis", NoText, 0)
    <3>1. DumpSimple(obj) = <<Byte(6)>>
      BY SMT, <2>3, Tags DEF DumpSimple, Leaf
    <3> QED
      BY <2>3, <3>1, Loaders
  <2>4. CASE obj = Leaf("bool", "True", 0)
    <3>1. DumpSimple(obj) = <<Byte(3)>>
      BY SMT, <2>4, Tags DEF DumpSimple, Leaf
    <3> QED
      BY <2>4, <3>1, Loaders
  <2>5. CASE obj = Leaf("bool", "False", 0)
    <3>1. DumpSimple(obj) = <<Byte(4)>>
      BY SMT, <2>5, Tags DEF DumpSimple, Leaf
    <3> QED
      BY <2>5, <3>1, Loaders
  <2> QED
    BY <2>1, <2>2, <2>3, <2>4, <2>5
<1>2. PICK t \in {0, 3, 4, 5, 6} :
          DumpSimple(obj) = <<Byte(t)>> /\ LoadSimple(t, rest) = Loaded(obj, rest)
  BY <1>1
<1>3. Starts(stream, Byte(t), rest)
  BY <1>2, OneChunk
<1>4. t \notin {2} \cup 16 .. 19 \cup {20, 21, 25, 26}
  OBVIOUS
<1> QED
  BY <1>2, <1>3, <1>4, ReadsSimpleOf

(* a float and a complex number, of the size that struct packs them in *)
LEMMA PackedReturns ==
    ASSUME NEW C, NEW rest \in Seq(C), NEW stream, NEW label, NEW kind, NEW t, NEW len,
           \/ kind = "float" /\ t = 24 /\ len = 8
           \/ kind = "complex" /\ t = 27 /\ len = 16,
           Written(stream, DumpSimple(Leaf(kind, label, len)), rest)
    PROVE  ReadsSimple(stream, Leaf(kind, label, len), rest)
<1> DEFINE obj  == Leaf(kind, label, len)
           text == [size |-> len, text |-> label]
<1>1. obj.kind = kind /\ Text(obj) = text
  BY DEF Leaf, Text
<1> HIDE DEF obj, text
<1>2. DumpSimple(obj) = <<Byte(t), text>>
  BY SMT, <1>1, Tags DEF DumpSimple
<1>3. Written(stream, <<Byte(t), text>>, rest)
  BY Zenon, <1>2 DEF obj
<1>4. PICK more : Starts(stream, Byte(t), more) /\ Starts(more, text, rest)
  BY <1>3, TwoChunks
<1>5. LoadText(kind, len, more) = Loaded(obj, rest)
  BY <1>4, TextReturns DEF text, obj
<1>6. LoadSimple(t, more) = Loaded(obj, rest)
  BY <1>5, Loaders
<1>7. t \notin {2} \cup 16 .. 19 \cup {20, 21, 25, 26}
  OBVIOUS
<1>8. ReadsSimple(stream, obj, rest)
  BY <1>4, <1>6, <1>7, ReadsSimpleOf
<1> QED
  BY Zenon, <1>8 DEF obj

(* bytes of any length *)
LEMMA BytesValueReturns ==
    ASSUME NEW C, NEW rest \in Seq(C), NEW stream, NEW label, NEW len \in Nat,
           len = 0 => label = NoText,
           Written(stream, DumpSimple(Leaf("bytes", label, len)), rest)
    PROVE  ReadsSimple(stream, Leaf("bytes", label, len), rest)
<1> DEFINE obj == Leaf("bytes", label, len)
<1>1. obj.kind = "bytes"
  BY DEF Leaf
<1> HIDE DEF obj
<1>2. DumpSimple(obj) = DumpBytes(obj)
  BY SMT, <1>1 DEF DumpSimple
<1>3. Written(stream, DumpBytes(Leaf("bytes", label, len)), rest)
  BY Zenon, <1>2 DEF obj
<1>4. PICK t, more :
         /\ t \in {1} \cup 10 .. 15 /\ Starts(stream, Byte(t), more)
         /\ LoadBytes("bytes", t, more) = Loaded(Leaf("bytes", label, len), rest)
  BY <1>3, BytesReturn
<1>5. LoadSimple(t, more) = Loaded(Leaf("bytes", label, len), rest)
  BY Zenon, <1>4, Loaders
<1>6. t \notin {2} \cup 16 .. 19 \cup {20, 21, 25, 26}
  BY <1>4
<1> QED
  BY Zenon, <1>4, <1>5, <1>6, ReadsSimpleOf

(* the chunks of some bytes are a sequence *)
LEMMA BytesAreChunks ==
    ASSUME NEW own, NEW label, NEW len \in Nat
    PROVE  \E D : DumpBytes(Leaf(own, label, len)) \in Seq(D)
<1> DEFINE obj  == Leaf(own, label, len)
           text == [size |-> len, text |-> label]
<1>1. obj.len = len /\ Text(obj) = text
  BY DEF Leaf, Text
<1> HIDE DEF obj, text
<1> SUFFICES \E D : DumpBytes(obj) \in Seq(D)
  BY Zenon DEF obj
<1>2. CASE len = 0
  <2>1. DumpBytes(obj) = <<Byte(1)>>
    BY Zenon, <1>1, <1>2, Tags DEF DumpBytes
  <2>2. <<Byte(1)>> \in Seq({Byte(1)})
    OBVIOUS
  <2> QED
    BY Zenon, <2>1, <2>2
<1>3. CASE len \in 1 .. 4
  <2>1. DumpBytes(obj) = <<Byte(len + 9)>> \o <<text>>
    <3>1. len # 0 /\ len \notin 5 .. 255 /\ TAG_STR(len) = len + 9
      BY <1>3 DEF TAG_STR
    <3> QED
      BY Zenon, <1>1, <1>3, <3>1 DEF DumpBytes
  <2>2. <<Byte(len + 9)>> \o <<text>> \in Seq({Byte(len + 9), text})
    OBVIOUS
  <2> QED
    BY Zenon, <2>1, <2>2
<1>4. CASE len > 4
  <2>1. \E a, b : DumpBytes(obj) = <<a, b>> \o <<text>>
    <3>1. len # 0 /\ len \notin 1 .. 4 /\ (len \in 5 .. 255 \/ len \notin 5 .. 255)
      BY <1>4
    <3> QED
      BY Zenon, <1>1, <3>1 DEF DumpBytes
  <2>2. PICK a, b : DumpBytes(obj) = <<a, b>> \o <<text>>
    BY Zenon, <2>1
  <2>3. <<a, b>> \o <<text>> \in Seq({a, b, text})
    OBVIOUS
  <2> QED
    BY Zenon, <2>2, <2>3
<1> QED
  BY <1>2, <1>3, <1>4

(* a str of any length: the bytes of its encoding *)
LEMMA StrReturns ==
    ASSUME NEW C, NEW rest \in Seq(C), NEW stream, NEW label, NEW len \in Nat,
           len = 0 => label = NoText,
           Written(stream, DumpSimple(Leaf("str", label, len)), rest)
    PROVE  ReadsSimple(stream, Leaf("str", label, len), rest)
<1> DEFINE obj == Leaf("str", label, len)
<1>1. obj.kind = "str"
  BY DEF Leaf
<1> HIDE DEF obj
<1>2. DumpSimple(obj) = <<Byte(8)>> \o DumpBytes(obj)
  BY SMT, <1>1, Tags DEF DumpSimple
<1>3. PICK D : DumpBytes(obj) \in Seq(D)
  BY Zenon, BytesAreChunks DEF obj
<1>4. <<Byte(8)>> \in Seq(D \cup {Byte(8)}) /\ DumpBytes(obj) \in Seq(D \cup {Byte(8)})
  BY <1>3, SeqMonotonic
<1>5. Written(stream, <<Byte(8)>> \o DumpBytes(obj), rest)
  BY Zenon, <1>2 DEF obj
<1>6. PICK behind : /\ Written(stream, <<Byte(8)>>, behind) /\ Written(behind, DumpBytes(obj), rest)
                    /\ behind \in Seq(C \cup (D \cup {Byte(8)}))
  BY Zenon, <1>4, <1>5, Prefixed
<1>7. Starts(stream, Byte(8), behind)
  BY Zenon, <1>6, OneChunk
<1>8. PICK t, more :
         /\ t \in {1} \cup 10 .. 15 /\ Starts(behind, Byte(t), more)
         /\ LoadBytes("str", t, more) = Loaded(obj, rest)
  BY <1>6, BytesReturn DEF obj
<1>9. IsNumber(1, behind) /\ NextNumber(behind) = t /\ After(behind) = more
  BY Zenon, <1>8, NumberReturns DEF Byte
<1>10. LoadSimple(8, behind) = Loaded(obj, rest)
  BY Zenon, <1>8, <1>9, Loaders
<1>11. 8 \notin {2} \cup 16 .. 19 \cup {20, 21, 25, 26}
  OBVIOUS
<1>12. ReadsSimple(stream, obj, rest)
  BY Zenon, <1>7, <1>10, <1>11, ReadsSimpleOf
<1> QED
  BY Zenon, <1>12 DEF obj

(* a value that is a type other than those of NotImplemented and Ellipsis *)
LEMMA TypesReturn ==
    ASSUME NEW C, NEW rest \in Seq(C), NEW stream, NEW k \in LoadableType,
           Written(stream, DumpSimple(Type(k)), rest)
    PROVE  ReadsSimple(stream, Type(k), rest)
<1> DEFINE obj == Type(k)
<1>1. obj.kind = "type" /\ obj.of = k
  BY DEF Type
<1> HIDE DEF obj
<1>2. DumpSimple(obj) = <<Byte(TypeTag[k])>>
  BY SMT, <1>1 DEF DumpSimple
<1>3. Written(stream, <<Byte(TypeTag[k])>>, rest)
  BY Zenon, <1>2 DEF obj
<1>4. Starts(stream, Byte(TypeTag[k]), rest)
  BY <1>3, OneChunk
<1>5. \A j \in LoadableType : TypeTag[j] = TypeTag[k] => j = k
  BY DEF LoadableType, TypeTag
<1>6. LoadType(TypeTag[k], rest) = Loaded(obj, rest)
  <2>1. (CHOOSE j \in LoadableType : TypeTag[j] = TypeTag[k]) = k
    BY <1>5
  <2> QED
    BY Zenon, <2>1 DEF LoadType, obj
<1>8. LoadSimple(TypeTag[k], rest) = Loaded(obj, rest)
  BY Zenon, <1>6, TypeLoader
<1>9. TypeTag[k] \notin {2} \cup 16 .. 19 \cup {20, 21, 25, 26}
  <2>1. \A t \in 28 .. 31 \cup 240 .. 242 : t \notin {2} \cup 16 .. 19 \cup {20, 21, 25, 26}
    OBVIOUS
  <2>2. TypeTag[k] \in 28 .. 31 \cup 240 .. 242
    BY Zenon, TagRanges
  <2> QED
    BY Zenon, <2>1, <2>2
<1>10. ReadsSimple(stream, obj, rest)
  BY Zenon, <1>4, <1>8, <1>9, ReadsSimpleOf
<1> QED
  BY Zenon, <1>10 DEF obj

(* an int, immediate or with its digits *)
LEMMA IntReturns ==
    ASSUME NEW C, NEW rest \in Seq(C), NEW stream, NEW label, NEW len \in Nat,
           \A n \in Imm(Leaf("int", label, len)) : len = DecimalLen(n),
           Written(stream, DumpSimple(Leaf("int", label, len)), rest)
    PROVE  ReadsSimple(stream, Leaf("int", label, len), rest)
<1> DEFINE obj  == Leaf("int", label, len)
           text == [size |-> len, text |-> label]
<1>1. obj.kind = "int" /\ obj.len = len /\ obj.label = label /\ Text(obj) = text
  BY DEF Leaf, Text
<1>2. \A n \in Imm(obj) : len = DecimalLen(n)
  OBVIOUS
<1> HIDE DEF obj, text
<1>3. DumpSimple(obj) = DumpInt(obj)
  BY SMT, <1>1 DEF DumpSimple
<1>4. Written(stream, DumpInt(obj), rest)
  BY Zenon, <1>3 DEF obj
<1>5. CASE Imm(obj) # {}
  <2>1. PICK n \in Imm(obj) : DumpInt(obj) = <<Byte(n + 80)>>
    BY <1>5 DEF DumpInt, ImmTag
  <2>2. n \in IMM_INTS /\ ToString(n) = label /\ len = DecimalLen(n)
    BY Zenon, <1>1, <1>2, <2>1 DEF Imm
  <2>3. Starts(stream, Byte(n + 80), rest)
    BY <1>4, <2>1, OneChunk
  <2>4. n + 80 \notin {2} \cup 16 .. 19 \cup {20, 21, 25, 26}
    <3>1. \A t \in 32 .. 239 : t \notin {2} \cup 16 .. 19 \cup {20, 21, 25, 26}
      OBVIOUS
    <3>2. n + 80 \in 32 .. 239
      BY Zenon, <2>2, TagRanges
    <3>3. PICK t \in 32 .. 239 : t = n + 80
      BY Zenon, <3>2
    <3>4. t \notin {2} \cup 16 .. 19 \cup {20, 21, 25, 26}
      BY Zenon, <3>1
    <3> QED
      BY Zenon, <3>3, <3>4
  <2>5. LoadSimple(n + 80, rest) = Loaded(Integer(n, DecimalLen(n)), rest)
    BY Zenon, <2>2, ImmediateLoader
  <2>6. Integer(n, DecimalLen(n)) = obj
    BY Zenon, <2>2 DEF Integer, obj
  <2>7. ReadsSimple(stream, obj, rest)
    BY Zenon, <2>3, <2>4, <2>5, <2>6, ReadsSimpleOf
  <2> QED
    BY Zenon, <2>7 DEF obj
<1>6. CASE Imm(obj) = {}
  <2>1. \E t, size : /\ (t = 22 /\ size = 1) \/ (t = 23 /\ size = 4)
                     /\ DumpInt(obj) = <<Byte(t), Number(size, len)>> \o <<text>>
    <3>1. CASE len < 256
      BY Zenon, <1>1, <1>6, <3>1, Tags DEF DumpInt, I1
    <3>2. CASE ~(len < 256)
      BY Zenon, <1>1, <1>6, <3>2, Tags DEF DumpInt, I4
    <3> QED
      BY <3>1, <3>2
  <2>2. PICK t, size : /\ (t = 22 /\ size = 1) \/ (t = 23 /\ size = 4)
                       /\ DumpInt(obj) = <<Byte(t), Number(size, len)>> \o <<text>>
    BY Zenon, <2>1
  <2>3. Written(stream, <<Byte(t), Number(size, len)>> \o <<text>>, rest)
    BY Zenon, <1>4, <2>2
  <2>4. PICK more, last : /\ Starts(stream, Byte(t), more) /\ Starts(more, Number(size, len), last)
                          /\ Starts(last, text, rest)
    BY Zenon, <2>3, ThreeChunks
  <2>5. LoadSized("int", size, more) = Loaded(obj, rest)
    BY <2>4, SizedReturns DEF text, obj
  <2>6. LoadSimple(t, more) = Loaded(obj, rest)
    BY Zenon, <2>2, <2>5, Loaders
  <2>7. t \notin {2} \cup 16 .. 19 \cup {20, 21, 25, 26}
    BY <2>2
  <2>8. ReadsSimple(stream, obj, rest)
    BY Zenon, <2>4, <2>6, <2>7, ReadsSimpleOf
  <2> QED
    BY Zenon, <2>8 DEF obj
<1> QED
  BY <1>5, <1>6

(* The simple values as they are in the program: a float has 8 bytes, a complex
   number 16, a text without bytes is the empty one, and the digits of an int that
   is immediate are those of that int. *)
SimpleValue(obj) ==
    \/ obj \in {Leaf("NoneType", NoText, 0), Leaf("NotImplementedType", NoText, 0),
               Leaf("ellipsis", NoText, 0), Leaf("bool", "True", 0), Leaf("bool", "False", 0)}
    \/ \E k \in LoadableType : obj = Type(k)
    \/ \E label : obj = Leaf("float", label, 8) \/ obj = Leaf("complex", label, 16)
    \/ \E label : \E len \in Nat :
         /\ len <= MaxLength /\ (len = 0 => label = NoText)
         /\ obj = Leaf("bytes", label, len) \/ obj = Leaf("str", label, len)
    \/ \E label : \E len \in Nat :
         /\ len <= MaxLength /\ (\A n \in Imm(Leaf("int", label, len)) : len = DecimalLen(n))
         /\ obj = Leaf("int", label, len)

(* A simple value is read back as it was written, with what follows it left: the
   tag, the length and the text that dump writes are those that load expects, for the
   digits of an int and the bytes of a text, up to 4294967295 of them.  Not so for the types of NotImplemented and Ellipsis, which have no loader. *)
THEOREM SimpleReturns ==
    ASSUME NEW C, NEW rest \in Seq(C), NEW obj, SimpleValue(obj),
           NEW stream, Written(stream, DumpSimple(obj), rest)
    PROVE  ReadsSimple(stream, obj, rest)
<1>1. CASE obj \in {Leaf("NoneType", NoText, 0), Leaf("NotImplementedType", NoText, 0),
                    Leaf("ellipsis", NoText, 0), Leaf("bool", "True", 0), Leaf("bool", "False", 0)}
  BY Zenon, <1>1, ConstantsReturn
<1>2. CASE \E k \in LoadableType : obj = Type(k)
  BY Zenon, <1>2, TypesReturn
<1>3. CASE \E label : obj = Leaf("float", label, 8) \/ obj = Leaf("complex", label, 16)
  BY Zenon, <1>3, PackedReturns
<1>4. CASE \E label : \E len \in Nat :
             /\ len = 0 => label = NoText
             /\ obj = Leaf("bytes", label, len) \/ obj = Leaf("str", label, len)
  BY Zenon, <1>4, BytesValueReturns, StrReturns
<1>5. CASE \E label : \E len \in Nat :
             /\ \A n \in Imm(Leaf("int", label, len)) : len = DecimalLen(n)
             /\ obj = Leaf("int", label, len)
  BY Zenon, <1>5, IntReturns
<1> QED
  BY Zenon, <1>1, <1>2, <1>3, <1>4, <1>5 DEF SimpleValue

(* The types of NotImplemented and Ellipsis are written and cannot be read. *)
THEOREM TypesWithoutLoader ==
    ASSUME NEW k \in DOMAIN TypeTag \ LoadableType, NEW more
    PROVE  LoadSimple(TypeTag[k], more) = Raises
<1> DEFINE t == TypeTag[k]
<1>1. t \in 243 .. 244 /\ ~\E j \in LoadableType : TypeTag[j] = t
  BY DEF LoadableType, TypeTag
<1>2. IsType(t)
  BY Zenon DEF IsType
<1>3. LoadType(t, more) = Raises
  BY Zenon, <1>1 DEF LoadType
<1> HIDE DEF t
<1>4. ~IsImmediate(t)
  BY <1>1 DEF IsImmediate, IMM_INTS
<1>5. LoadSimple(t, more) = LoadType(t, more)
  BY SMT, <1>1, <1>2, <1>4, LoaderOf
<1> QED
  BY Zenon, <1>3, <1>5 DEF t
=============================================================================
