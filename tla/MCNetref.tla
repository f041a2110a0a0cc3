------------------------------ MODULE MCNetref ------------------------------
(* Netref on small sets of threads; dead netrefs are reused.  RepliesArrive
   adds what is sent along with the references: values at every boundary of
   their encoding, and exceptions. *)
EXTENDS Netref, Vinegar

ProxySymmetry == Permutations(Proxy)

-----------------------------------------------------------------------------
(* the values that the consumer sends to the owner and gets back *)

Object  == [kind |-> "instance", name |-> "app.Thing", cls |-> "Thing", id |-> "object"]
MyProxy == Netref(get_id_pack(Object), "self")
Mine    == {[kind |-> "instance", name |-> "app.Thing", cls |-> "Thing", id |-> "mine"],
            [kind |-> "class",    name |-> "app.Thing", cls |-> "type", id |-> "Thing"],
            [kind |-> "module",   name |-> "app", cls |-> "module", id |-> "app"],
            Netref(get_id_pack([Object EXCEPT !.id = "far"]), "other")}

Bytes(n) == Leaf("bytes", IF n = 0 THEN "" ELSE "bytes", n)
Lengths  == {0, 1, 2, 3, 4, 5, 255, 256}
Simple   ==
    {Leaf("NoneType", "", 0), Leaf("NotImplementedType", "", 0), Leaf("ellipsis", "", 0),
     Leaf("bool", "True", 0), Leaf("bool", "False", 0),
     Leaf("float", "pi", 8), Leaf("complex", "i", 16)}
    \cup {Integer(n, DecimalLen(n)) : n \in {-100, -49, -48, -1, 0, 159, 160}}
    \cup {Leaf("int", "long", n) : n \in {255, 256}}
    \cup {Bytes(n) : n \in Lengths}
    \cup {[Bytes(n) EXCEPT !.kind = "str"] : n \in Lengths}
    \cup {Type(t) : t \in LoadableType}
Compound ==
    {Tuple([i \in 1 .. n |-> Bytes(i % 6)]) : n \in Lengths}
    \cup {Tuple(<<Small(1), Tuple(<<>>), FrozenSet({Bytes(2), Small(3)})>>),
          Slice(<<Small(1), Tuple(<<Bytes(1)>>), Small(2)>>), FrozenSet({})}
ByReference ==
    Mine \cup {MyProxy}
    \cup {Tuple([i \in 1 .. n |-> IF i = n THEN o ELSE Small(i % 3)]) :
             o \in Mine \cup {MyProxy}, n \in {1, 4, 5}}
    \cup {Tuple(<<o, Tuple(<<MyProxy, p>>), o>>) : o \in Mine, p \in Mine}
Sent == Simple \cup Compound \cup ByReference

Echoed(obj, kept) ==
    LET there == Received(obj, kept)
    IN  /\ dumpable(obj) => there = obj
        /\ Received(there, Boxed(obj)) = obj

RECURSIVE Names(_, _)
Names(obj, o) == \/ obj = o
                 \/ obj.kind = "tuple" /\ \E i \in DOMAIN obj.items : Names(obj.items[i], o)

EchoedWithout == \A obj \in Sent : ~Names(obj, MyProxy) => Echoed(obj, {})
EchoedWith    == \A obj \in Sent : Echoed(obj, {Object})

-----------------------------------------------------------------------------
(* the exceptions *)

Builtin == [mod |-> "builtins", name |-> "KeyError", bases |-> {"KeyError", "LookupError", "Exception"}]
Custom  == [mod |-> "app", name |-> "Missing", bases |-> {"KeyError", "LookupError", "Exception"}]

Exceptions == {Raised(StopIterationClass, args, <<>>) : args \in {<<>>, <<Small(1)>>}} \cup
    {Raised(cls, <<Small(1), arg>>, <<<<"errno", arg>>>>) :
        cls \in {Builtin, Custom}, arg \in {Small(2), Bytes(256), Object}}
Locals == [installed : {{Builtin}, {Builtin, Custom}},
           sys_modules : {{"builtins"}, {"builtins", "app"}},
           import_custom_exceptions : BOOLEAN, instantiate_custom_exceptions : BOOLEAN]

\* The class is the one that was raised unless it is a custom one that may
\* not, or cannot, be instantiated; its arguments arrive, except the value of a
\* StopIteration; passing on what was caught changes nothing.
Caught(exc, local) ==
    LET once  == Rethrown(exc, local)
        twice == Rethrown(once, local)
        known == \/ exc.cls # Custom
                 \/ /\ local.instantiate_custom_exceptions /\ Custom \in local.installed
                    /\ local.import_custom_exceptions \/ "app" \in local.sys_modules
    IN  /\ IF known THEN once.cls = exc.cls ELSE once.cls.bases = {"Exception"}
        /\ exc.cls # StopIterationClass =>
              \A i \in DOMAIN exc.args : dumpable(exc.args[i]) => once.args[i] = exc.args[i]
        /\ twice.cls.bases = once.cls.bases
        /\ twice.args = once.args /\ twice.attrs = once.attrs
AllCaught == \A exc \in Exceptions, local \in Locals : Caught(exc, local)

(* A value, at whatever boundary of its encoding, arrives as it is, and an
   object or a netref that is sent to the other party and back is the one that
   was sent, as long as the owner of the netref's object keeps it; an exception
   is caught by the same except clauses however many connections it crosses. *)
RepliesArrive ==
    /\ EchoedWithout
    /\ slot # -1 => EchoedWith
    /\ AllCaught
=============================================================================
