----------------------------- MODULE PrimTypes ------------------------------
(***************************************************************************)
(* The primitive types of .msg files: how they are written, what C type    *)
(* stands for them, and the size and alignment CDR gives them.             *)
(***************************************************************************)
EXTENDS Integers

Prims == {"bool", "byte", "char", "float32", "float64", "int8", "int16",
          "int32", "int64", "uint8", "uint16", "uint32", "uint64", "string"}

IsPrimitive(word) == word \in Prims \cup {"wstring"}

ParsePrimitive(word) == IF word = "wstring" THEN "string" ELSE word

Align(prim) ==
    CASE prim \in {"bool", "byte", "char", "int8", "uint8"} -> 1
      [] prim \in {"int16", "uint16"} -> 2
      [] prim \in {"float32", "int32", "uint32"} -> 4
      [] prim \in {"float64", "int64", "uint64"} -> 8
      [] prim = "string" -> 4

Size(prim) == IF prim = "string" THEN 0 ELSE Align(prim)

CType(prim) ==
    CASE prim \in {"byte", "uint8", "char"} -> "uint8_t"
      [] prim = "float32" -> "float"     [] prim = "float64" -> "double"
      [] prim = "int8" -> "int8_t"       [] prim = "int16" -> "int16_t"
      [] prim = "int32" -> "int32_t"     [] prim = "int64" -> "int64_t"
      [] prim = "uint16" -> "uint16_t"   [] prim = "uint32" -> "uint32_t"
      [] prim = "uint64" -> "uint64_t"   [] prim = "bool" -> "bool"
      [] prim = "string" -> "char"

\* sizeof, on the board.
Width(ctype) ==
    CASE ctype \in {"bool", "uint8_t", "int8_t", "char"} -> 1
      [] ctype \in {"int16_t", "uint16_t"} -> 2
      [] ctype \in {"float", "int32_t", "uint32_t"} -> 4
      [] ctype \in {"double", "int64_t", "uint64_t"} -> 8
=============================================================================
