------------------------------ MODULE Protobuf ------------------------------
(***************************************************************************)
(* What the generated bindings consist of, and what libprotobuf-c makes of *)
(* them.  The library is not part of the repository: the operators below   *)
(* say of it what geyser_client.c relies on.                               *)
(*                                                                         *)
(* A message descriptor is the table of its fields, ordered by number, and *)
(* the ranges by which a number is turned into an index of that table.  A  *)
(* field has its name in the C struct, its number, its label and its type, *)
(* which for a message is the name of the descriptor of that message.      *)
(***************************************************************************)
EXTENDS Integers, Sequences

Field(name, number, label, type) ==
  [name |-> name, number |-> number, label |-> label, type |-> type]

Optional(name, number, type) == Field(name, number, "optional", type)
Repeated(name, number, type) == Field(name, number, "repeated", type)
Oneof(name, number, type)    == Field(name, number, "oneof", type)
Plain(name, number, type)    == Field(name, number, "none", type)

Message(ranges, fields) == [ranges |-> ranges, fields |-> fields]

Scalars == {"bool", "bytes", "double", "enum", "int32", "int64", "string", "uint32", "uint64"}

(* How a value of a type travels.                                          *)
WireType(type) ==
  CASE type \in {"bool", "enum", "int32", "int64", "uint32", "uint64"} -> "varint"
    [] type = "double" -> "fixed64"
    [] OTHER -> "length_prefixed"

(* The wire types a field accepts; repeated numbers may come packed.       *)
Accepts(field, wiretype) ==
  \/ wiretype = WireType(field.type)
  \/ field.label = "repeated" /\ wiretype = "length_prefixed"

NotFound == 0

(* int_range_lookup: the ranges <<first number, first index>> end with a   *)
(* sentinel that holds the number of fields.  One turn of its loop, while  *)
(* the n ranges from start on are left: half of them are given up, or the  *)
(* one in the middle has the number.                                       *)
Narrow(m, number, s) ==
  LET mid == s.start + (s.n \div 2)
      first == m.ranges[mid][1]
      size == m.ranges[mid + 1][2] - m.ranges[mid][2]
  IN IF s.n = 0 \/ s.index # NotFound THEN s
     ELSE IF number < first THEN [s EXCEPT !.n = s.n \div 2]
     ELSE IF number >= first + size
          THEN [start |-> mid + 1, n |-> s.n - (s.n \div 2) - 1, index |-> NotFound]
     ELSE [s EXCEPT !.index = number - first + m.ranges[mid][2] + 1]

(* The index of the field with a number (here from 1), or NotFound.        *)
Lookup(m, number) ==
  LET search[k \in 0 .. Len(m.ranges)] ==
        IF k = 0 THEN [start |-> 1, n |-> Len(m.ranges) - 1, index |-> NotFound]
                 ELSE Narrow(m, number, search[k - 1])
  IN IF m.ranges = <<>> THEN NotFound ELSE search[Len(m.ranges)].index
=============================================================================
