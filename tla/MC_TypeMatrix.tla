---------------------------- MODULE MC_TypeMatrix ----------------------------
(* A table whose columns are not in sorted order: uint8 UInt8, the string  *)
(* column the datatype checks pair every column with, and bool Bool; all   *)
(* three are common columns.  rank is the column's place in the string     *)
(* order of "name type".                                                   *)
EXTENDS TypeMatrix

MCColumns ==
    << [name |-> "uint8", type |-> "UInt8", rank |-> 3],
       [name |-> "string", type |-> "String", rank |-> 2],
       [name |-> "bool", type |-> "Bool", rank |-> 1] >>

MCCommonColumns == {MCColumns[i] : i \in DOMAIN MCColumns}
=============================================================================
