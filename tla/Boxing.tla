------------------------------- MODULE Boxing -------------------------------
(***************************************************************************)
(* What a request or a reply makes of a value: __box and __unbox           *)
(* (rpyc/core/protocol.py) around brine, and get_id_pack                   *)
(* (rpyc/lib/__init__.py), which names the objects sent by reference.      *)
(* The counting of these references is Netref's.                           *)
(*                                                                         *)
(* Besides the values of Brine there are objects, [kind, name, cls, id],   *)
(* and netrefs, [kind, id_pack, conn], where conn tells this connection    *)
(* ("self") from another one of the process.                               *)
(***************************************************************************)
EXTENDS Brine

LABEL == [VALUE |-> 1, TUPLE |-> 2, LOCAL_REF |-> 3, REMOTE_REF |-> 4]
ObjectType == [module |-> 1, class |-> 2, instance |-> 3]

Str(label)  == Leaf("str", label, 12)
Addr(label) == Leaf("int", label, 15)
Small(n)    == Integer(n, 1)
Netref(id_pack, conn) == [kind |-> "netref", id_pack |-> id_pack, conn |-> conn]

get_id_pack(obj) ==
    CASE obj.kind = "netref"   -> obj.id_pack
      [] obj.kind = "module"   ->
            Tuple(<<Str(obj.name), Addr(obj.cls), Addr(obj.id), Small(ObjectType.module)>>)
      [] obj.kind = "unlisted module" ->  \* not in sys.modules
            Tuple(<<Str(obj.name), Addr(obj.cls), Addr(obj.id)>>)
      [] obj.kind = "class"    ->
            Tuple(<<Str(obj.name), Addr(obj.id), Small(0), Small(ObjectType.class)>>)
      [] OTHER                 ->
            Tuple(<<Str(obj.name), Addr(obj.cls), Addr(obj.id), Small(ObjectType.instance)>>)

Labelled(label, value) == Tuple(<<Small(label), value>>)

RECURSIVE BoxValue(_)
BoxValue(obj) ==
    CASE dumpable(obj) -> Labelled(LABEL.VALUE, obj)
      [] ~dumpable(obj) /\ obj.kind = "tuple" ->
            Labelled(LABEL.TUPLE,
                     Tuple([i \in DOMAIN obj.items |-> BoxValue(obj.items[i])]))
      [] obj.kind = "netref" /\ obj.conn = "self" -> Labelled(LABEL.LOCAL_REF, obj.id_pack)
      [] OTHER -> Labelled(LABEL.REMOTE_REF, get_id_pack(obj))

\* The objects that boxing adds to __local_objects.
RECURSIVE Boxed(_)
Boxed(obj) ==
    CASE dumpable(obj) -> {}
      [] ~dumpable(obj) /\ obj.kind = "tuple" ->
            UNION {Boxed(obj.items[i]) : i \in DOMAIN obj.items}
      [] obj.kind = "netref" /\ obj.conn = "self" -> {}
      [] OTHER -> {obj}

\* local_objects: the objects that the unboxing side keeps for its peer
RECURSIVE UnboxValue(_, _)
UnboxValue(package, local_objects) ==
    IF package.kind # "tuple" THEN Failed
    ELSE
    LET label == package.items[1]
        value == package.items[2]
        found == {o \in local_objects : get_id_pack(o) = value}
    IN  CASE label = Small(LABEL.VALUE) -> value
          [] label = Small(LABEL.TUPLE) ->
                Tuple([i \in DOMAIN value.items |-> UnboxValue(value.items[i], local_objects)])
          [] label = Small(LABEL.LOCAL_REF) ->
                IF found # {} THEN CHOOSE o \in found : TRUE ELSE Failed
          [] label = Small(LABEL.REMOTE_REF) ->
                IF Len(value.items) = 4 THEN Netref(value, "self") ELSE Failed

\* __send and __dispatch: the package travels in brine, after its sequence number
Transfer(seq, package) ==
    LET message == load(dump(Tuple(<<Small(seq), package>>))).obj
    IN  IF message.kind = "tuple" /\ Len(message.items) = 2 THEN message.items[2] ELSE Failed

Received(obj, local_objects) == UnboxValue(Transfer(1, BoxValue(obj)), local_objects)

=============================================================================
