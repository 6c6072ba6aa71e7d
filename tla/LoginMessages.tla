---------------------------- MODULE LoginMessages ----------------------------
(***************************************************************************)
(* The messages of Login.proto as the generated classes keep, measure,     *)
(* write, read, merge and copy them, for what a packet carries.            *)
(*                                                                         *)
(* A message maps its field numbers, 1 up to at most 4, to values.  Of a   *)
(* string only its length and whether it is valid UTF-8 matter.  A field   *)
(* with the default value is not written; what is written is a function    *)
(* from the numbers of the fields present to their values, for each field  *)
(* stands once and may be read in any order.  No program adds an unknown   *)
(* field.                                                                  *)
(***************************************************************************)
EXTENDS Integers, FiniteSets

(* The classes: the kinds of their fields, by number.                      *)
C2S_ECHO_REQ  == <<"string">>
S2C_ECHO_RES  == <<"string">>
C2S_LOGIN_REQ == <<"uint", "uint", "uint", "uint">>   \* id has 64 bits, the rest 32
S2C_LOGIN_RES == <<"bool">>

Schemas == {C2S_ECHO_REQ, S2C_ECHO_RES, C2S_LOGIN_REQ, S2C_LOGIN_RES}

String == [length : Nat, utf8 : BOOLEAN]

EmptyString == [length |-> 0, utf8 |-> TRUE]

Value(kind) == IF kind = "string" THEN {s \in String : s.length = 0 => s.utf8}
               ELSE IF kind = "bool" THEN BOOLEAN ELSE Nat

Default(kind) == IF kind = "string" THEN EmptyString
                 ELSE IF kind = "bool" THEN FALSE ELSE 0

IsMessage(m, schema) ==
  /\ m = [n \in DOMAIN schema |-> m[n]]
  /\ \A n \in DOMAIN schema : m[n] \in Value(schema[n])

Present(schema, m) == {n \in DOMAIN schema : m[n] # Default(schema[n])}

-----------------------------------------------------------------------------
(* What the functions of a class do.                                       *)
ClearMessage(schema) == [n \in DOMAIN schema |-> Default(schema[n])]

MergeImpl(schema, to, from) ==
  [n \in DOMAIN schema |-> IF n \in Present(schema, from) THEN from[n] ELSE to[n]]

CopyFrom(schema, from) == MergeImpl(schema, ClearMessage(schema), from)

(* A string that is not UTF-8 is written all the same, with a log line.    *)
InternalSerialize(schema, m) == [n \in Present(schema, m) |-> m[n]]

(* ParseFromArray: fast-table entry FastUS1 refuses such a string.         *)
Parses(schema, wire) ==
  \A n \in DOMAIN wire : schema[n] = "string" => wire[n].utf8

Parsed(schema, wire) ==
  [n \in DOMAIN schema |-> IF n \in DOMAIN wire THEN wire[n] ELSE Default(schema[n])]

-----------------------------------------------------------------------------
(* ByteSizeLong.  A number takes a byte for every seven bits it has; Sevens *)
(* counts those beyond the first, up to four.                              *)
Sevens(v) ==
  Cardinality({k \in 1..4 : v >= <<128, 16384, 2097152, 268435456>>[k]})

VarintSize(v) == LET high == v \div 268435456
                 IN  1 + Sevens(v) + Sevens(high) + Sevens(high \div 268435456)

ValueSize(kind, v) == IF kind = "string" THEN VarintSize(v.length) + v.length
                      ELSE IF kind = "bool" THEN 1 ELSE VarintSize(v)

(* With the tag, which is one byte for a field number below 16.            *)
FieldSize(schema, m, n) ==
  IF n \in Present(schema, m) THEN 1 + ValueSize(schema[n], m[n]) ELSE 0

ByteSizeLong(schema, m) ==
  FieldSize(schema, m, 1) + FieldSize(schema, m, 2)
    + FieldSize(schema, m, 3) + FieldSize(schema, m, 4)
===============================================================================
