---------------------------- MODULE BrineFormat ----------------------------
(***************************************************************************)
(* The format of brine (rpyc/core/brine.py): its tags, the simple values   *)
(* and the headers of tuples.                                              *)
(*                                                                         *)
(* A value is a record.  A leaf has a label that tells it from others of   *)
(* its kind and the length of its text: the decimal digits of an int, the  *)
(* UTF-8 encoding of a str.  A stream is a sequence of chunks, each with   *)
(* its number of bytes: tags, lengths and packed text.  A length that does *)
(* not fit its field, or a read of another size than was written, fails.   *)
(***************************************************************************)
EXTENDS Integers, Sequences, TLC

Leaf(kind, label, len) == [kind |-> kind, label |-> label, len |-> len]
NoText == ""
Integer(n, len) == Leaf("int", ToString(n), len)
Type(of)     == [kind |-> "type", of |-> of]
Failed       == [kind |-> "exception"]

-----------------------------------------------------------------------------
(* tags and chunks *)

TAG == [NONE |-> 0, EMPTY_STR |-> 1, EMPTY_TUPLE |-> 2, TRUE |-> 3, FALSE |-> 4,
        NOT_IMPLEMENTED |-> 5, ELLIPSIS |-> 6, UNICODE |-> 8, STR_L1 |-> 14,
        STR_L4 |-> 15, TUP_L1 |-> 20, TUP_L4 |-> 21, INT_L1 |-> 22, INT_L4 |-> 23,
        FLOAT |-> 24, SLICE |-> 25, FSET |-> 26, COMPLEX |-> 27]

TAG_STR(n) == 9 + n   \* TAG_STR1 .. TAG_STR4
TAG_TUP(n) == 15 + n  \* TAG_TUP1 .. TAG_TUP4

TypeTag == [NoneType |-> 28, int |-> 29, bool |-> 30, float |-> 31, bytes |-> 240,
            str |-> 241, complex |-> 242, NotImplementedType |-> 243, ellipsis |-> 244]

\* The types of NotImplemented and Ellipsis are registered for loading under
\* the type where the tag belongs, so their tags find no loader.
LoadableType == DOMAIN TypeTag \ {"NotImplementedType", "ellipsis"}

IMM_INTS == -48 .. 159
ImmTag(n) == n + 80

Number(size, n) == [size |-> size, number |-> n]
Text(obj)       == [size |-> obj.len, text |-> obj.label]
Lost            == [size |-> 0]
Byte(n) == Number(1, n)                          \* a tag
I1(n)   == IF n < 256 THEN Number(1, n) ELSE Lost
I4(n)   == Number(4, n)

-----------------------------------------------------------------------------
(* dumping *)

Imm(obj) == {n \in IMM_INTS : ToString(n) = obj.label}

DumpInt(obj) ==
    IF Imm(obj) # {}
    THEN <<Byte(ImmTag(CHOOSE n \in Imm(obj) : TRUE))>>
    ELSE (IF obj.len < 256 THEN <<Byte(TAG.INT_L1), I1(obj.len)>>
                           ELSE <<Byte(TAG.INT_L4), I4(obj.len)>>) \o <<Text(obj)>>

DumpBytes(obj) ==
    IF obj.len = 0
    THEN <<Byte(TAG.EMPTY_STR)>>
    ELSE (CASE obj.len \in 1 .. 4   -> <<Byte(TAG_STR(obj.len))>>
            [] obj.len \in 5 .. 255 -> <<Byte(TAG.STR_L1), I1(obj.len)>>
            [] OTHER                -> <<Byte(TAG.STR_L4), I4(obj.len)>>) \o <<Text(obj)>>

(* mutant: a tuple of 256 items gets the header with a one-byte length *)
DumpHeaderOffByOne(n) ==
    CASE n = 0          -> <<Byte(TAG.EMPTY_TUPLE)>>
      [] n \in 1 .. 4   -> <<Byte(TAG_TUP(n))>>
      [] n \in 5 .. 256 -> <<Byte(TAG.TUP_L1), I1(n)>>
      [] OTHER          -> <<Byte(TAG.TUP_L4), I4(n)>>

DumpHeader(n) ==
    CASE n = 0          -> <<Byte(TAG.EMPTY_TUPLE)>>
      [] n \in 1 .. 4   -> <<Byte(TAG_TUP(n))>>
      [] n \in 5 .. 255 -> <<Byte(TAG.TUP_L1), I1(n)>>
      [] OTHER          -> <<Byte(TAG.TUP_L4), I4(n)>>

DumpSimple(obj) ==
    CASE obj.kind = "NoneType"           -> <<Byte(TAG.NONE)>>
      [] obj.kind = "NotImplementedType" -> <<Byte(TAG.NOT_IMPLEMENTED)>>
      [] obj.kind = "ellipsis"           -> <<Byte(TAG.ELLIPSIS)>>
      [] obj.kind = "bool"    -> <<Byte(IF obj.label = "True" THEN TAG.TRUE ELSE TAG.FALSE)>>
      [] obj.kind = "int"     -> DumpInt(obj)
      [] obj.kind = "float"   -> <<Byte(TAG.FLOAT), Text(obj)>>
      [] obj.kind = "complex" -> <<Byte(TAG.COMPLEX), Text(obj)>>
      [] obj.kind = "bytes"   -> DumpBytes(obj)
      [] obj.kind = "str"     -> <<Byte(TAG.UNICODE)>> \o DumpBytes(obj)
      [] obj.kind = "type"    -> <<Byte(TypeTag[obj.of])>>

-----------------------------------------------------------------------------
(* loading: a loader returns the value and the rest of the stream *)

Loaded(obj, rest) == [obj |-> obj, rest |-> rest]
Raises == Loaded(Failed, <<>>)

IsNumber(size, stream) ==
    stream # <<>> /\ Head(stream).size = size /\ "number" \in DOMAIN Head(stream)
NextNumber(stream) == Head(stream).number
After(stream)      == Tail(stream)

\* stream.read(size), as the text of an object of this kind
LoadText(kind, size, stream) ==
    IF stream # <<>> /\ Head(stream).size = size /\ "text" \in DOMAIN Head(stream)
    THEN Loaded(Leaf(kind, Head(stream).text, size), After(stream))
    ELSE Raises

\* text preceded by its length, which takes size bytes
LoadSized(kind, size, stream) ==
    IF IsNumber(size, stream)
    THEN LoadText(kind, NextNumber(stream), After(stream))
    ELSE Raises

LoadBytes(kind, tag, stream) ==
    CASE tag = TAG.EMPTY_STR -> Loaded(Leaf(kind, NoText, 0), stream)
      [] tag = TAG.STR_L1    -> LoadSized(kind, 1, stream)
      [] tag = TAG.STR_L4    -> LoadSized(kind, 4, stream)
      [] OTHER               -> LoadText(kind, tag - TAG_STR(0), stream)

DecimalLen(n) == (IF n < 0 THEN 1 ELSE 0) + (CASE n \in -9 .. 9   -> 1
                                               [] n \in -99 .. 99 -> 2
                                               [] OTHER           -> 3)

LoadType(tag, stream) ==
    IF \E t \in LoadableType : TypeTag[t] = tag
    THEN Loaded(Type(CHOOSE t \in LoadableType : TypeTag[t] = tag), stream)
    ELSE Raises

LoadSimple(tag, stream) ==
    CASE tag - 80 \in IMM_INTS      -> Loaded(Integer(tag - 80, DecimalLen(tag - 80)), stream)
      [] tag \in {TypeTag[t] : t \in DOMAIN TypeTag} -> LoadType(tag, stream)
      [] tag = TAG.NONE            -> Loaded(Leaf("NoneType", NoText, 0), stream)
      [] tag = TAG.NOT_IMPLEMENTED -> Loaded(Leaf("NotImplementedType", NoText, 0), stream)
      [] tag = TAG.ELLIPSIS        -> Loaded(Leaf("ellipsis", NoText, 0), stream)
      [] tag = TAG.TRUE            -> Loaded(Leaf("bool", "True", 0), stream)
      [] tag = TAG.FALSE           -> Loaded(Leaf("bool", "False", 0), stream)
      [] tag = TAG.FLOAT           -> LoadText("float", 8, stream)
      [] tag = TAG.COMPLEX         -> LoadText("complex", 16, stream)
      [] tag = TAG.INT_L1          -> LoadSized("int", 1, stream)
      [] tag = TAG.INT_L4          -> LoadSized("int", 4, stream)
      [] tag = TAG.UNICODE         ->
            IF IsNumber(1, stream) THEN LoadBytes("str", NextNumber(stream), After(stream))
                                   ELSE Raises
      [] OTHER                     -> LoadBytes("bytes", tag, stream)

(* how many items the tuple with this tag has, -1 when that cannot be read *)
TupleTag == {TAG.EMPTY_TUPLE, TAG.TUP_L1, TAG.TUP_L4} \cup TAG_TUP(1) .. TAG_TUP(4)

LoadHeader(tag, stream) ==
    LET LoadCount(size) == IF IsNumber(size, stream)
                           THEN Loaded(NextNumber(stream), After(stream))
                           ELSE Loaded(-1, <<>>)
    IN  CASE tag = TAG.EMPTY_TUPLE -> Loaded(0, stream)
          [] tag \in TAG_TUP(1) .. TAG_TUP(4) -> Loaded(tag - TAG_TUP(0), stream)
          [] tag = TAG.TUP_L1      -> LoadCount(1)
          [] tag = TAG.TUP_L4      -> LoadCount(4)
=============================================================================
