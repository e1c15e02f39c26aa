------------------------------ MODULE MsgFields ------------------------------
(***************************************************************************)
(* The fields of a message as the parser makes them and the code generator *)
(* takes them: a sequence of primitive fields and of nested ones, which    *)
(* carry the fields of their own type.                                     *)
(***************************************************************************)
EXTENDS PrimTypes, Sequences

CONSTANT MaxNesting         \* files open at once before the stack overflows

ASSUME NestingAssumption == MaxNesting \in Nat

\* A message type is the sequence of the parts of its path.
Types == Seq(STRING)

\* `prim' is "nested" for a nested type; `array' is empty or holds the length.
PrimFieldOf(name, prim, array) ==
    [name |-> name, prim |-> prim, type |-> <<>>, fields |-> <<>>, array |-> array]

NestedFieldOf(name, type, fields, array) ==
    [name |-> name, prim |-> "nested", type |-> type, fields |-> fields,
     array |-> array]

IsNested(field) == field.prim = "nested"
Times(field) == IF field.array = <<>> THEN 1 ELSE field.array[1]

\* The fields whose own, if they are nested, are in `inner'.
FieldsWith(inner) ==
    [name : STRING, prim : Prims \cup {"nested"}, type : Types, fields : inner,
     array : Seq(Nat)]

\* Fields with no more than `depth' files below one another.
FieldTrees[depth \in 0 .. MaxNesting] ==
    IF depth = 0 THEN {<<>>} ELSE Seq(FieldsWith(FieldTrees[depth - 1]))

MsgFieldSeqs == FieldTrees[MaxNesting]
=============================================================================
