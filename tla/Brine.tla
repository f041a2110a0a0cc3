------------------------------- MODULE Brine -------------------------------
(***************************************************************************)
(* Brine (rpyc/core/brine.py), the serializer of immutable values: what    *)
(* BrineFormat says of simple values, for values inside of values.         *)
(***************************************************************************)
EXTENDS BrineFormat, SequencesExt

Tuple(s)     == [kind |-> "tuple", items |-> s]
Slice(s)     == [kind |-> "slice", parts |-> s]
FrozenSet(S) == [kind |-> "frozenset", members |-> S]

simple_types == {"NoneType", "int", "bool", "float", "bytes", "str", "complex",
                 "NotImplementedType", "ellipsis"}

RECURSIVE dumpable(_)
dumpable(obj) ==
    \/ obj.kind = "type" /\ obj.of \in simple_types
    \/ obj.kind \in simple_types
    \/ obj.kind = "tuple" /\ \A i \in DOMAIN obj.items : dumpable(obj.items[i])
    \/ obj.kind = "frozenset" /\ \A m \in obj.members : dumpable(m)
    \/ obj.kind = "slice" /\ \A i \in 1 .. 3 : dumpable(obj.parts[i])

-----------------------------------------------------------------------------
(* dumping *)

RECURSIVE dump(_), DumpMany(_)
DumpMany(s) ==
    IF s = <<>> THEN <<>>
    ELSE IF Len(s) = 1 THEN dump(s[1])
    ELSE LET half == Len(s) \div 2
         IN  DumpMany(SubSeq(s, 1, half)) \o DumpMany(SubSeq(s, half + 1, Len(s)))

dump(obj) ==
    CASE obj.kind = "tuple"     -> DumpHeader(Len(obj.items)) \o DumpMany(obj.items)
      [] obj.kind = "slice"     -> <<Byte(TAG.SLICE)>> \o dump(Tuple(obj.parts))
      [] obj.kind = "frozenset" -> <<Byte(TAG.FSET)>> \o dump(Tuple(SetToSeq(obj.members)))
      [] OTHER                  -> DumpSimple(obj)

-----------------------------------------------------------------------------
(* loading *)

RECURSIVE load(_), LoadMany(_, _)
LoadMany(n, stream) ==
    IF n = 0 THEN Loaded(<<>>, stream)
    ELSE IF n = 1 THEN Loaded(<<load(stream).obj>>, load(stream).rest)
    ELSE LET left  == LoadMany(n \div 2, stream)
             right == LoadMany(n - n \div 2, left.rest)
         IN  Loaded(left.obj \o right.obj, right.rest)

load(stream) ==
    IF ~IsNumber(1, stream) THEN Raises
    ELSE
    LET tag    == NextNumber(stream)
        rest   == After(stream)
        header == LoadHeader(tag, rest)
        many   == LoadMany(header.obj, header.rest)
        inner  == load(rest)
    IN  CASE tag \in TupleTag -> IF header.obj = -1 THEN Raises
                                 ELSE Loaded(Tuple(many.obj), many.rest)
          [] tag \in {TAG.SLICE, TAG.FSET} /\ inner = Raises -> Raises
          [] tag = TAG.SLICE  -> Loaded(Slice(inner.obj.items), inner.rest)
          [] tag = TAG.FSET   -> Loaded(FrozenSet(ToSet(inner.obj.items)), inner.rest)
          [] OTHER -> LoadSimple(tag, rest)

=============================================================================
