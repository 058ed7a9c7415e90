------------------------------ MODULE JavaTypes ------------------------------
(***************************************************************************)
(* The types of atom fields: the protobuf types a field can have, the      *)
(* java_type_t the generator gives it, and the type it takes in a function *)
(* signature.  Constant operators only; every other module builds on them. *)
(*                                                                         *)
(* An option that may be absent (proto HasExtension, has_xxx) is a set of  *)
(* at most one value, so "if the option is there" reads as \E o \in opt.   *)
(***************************************************************************)
EXTENDS Integers

\* The int a bool is in C++; also the error a failing check counts.
Count(b) == IF b THEN 1 ELSE 0

\* The field number under which annotations of the atom itself are kept.
ATOM_ID_FIELD_NUMBER == -1

Optional(S) == {T \in SUBSET S : \A u, v \in T : u = v}

\* The six proto types an atom field may always have, with the java type of
\* a singular and of a repeated field.
ScalarJavaType == [float |-> "FLOAT", int64 |-> "LONG", int32 |-> "INT",
                   bool |-> "BOOLEAN", string |-> "STRING", enum |-> "ENUM"]
ArrayJavaType  == [float |-> "FLOAT_ARRAY", int64 |-> "LONG_ARRAY", int32 |-> "INT_ARRAY",
                   bool |-> "BOOLEAN_ARRAY", string |-> "STRING_ARRAY", enum |-> "ENUM_ARRAY"]

ScalarProtoTypes   == {"float", "int64", "int32", "bool", "string", "enum"}
UnsignedJavaType   == [uint64 |-> "LONG", uint32 |-> "INT"]
UnsignedProtoTypes == {"uint64", "uint32"}

\* "AttributionNode" is the one message type java_type tells from the others;
\* "double" stands for every type of java_type's default branch (double,
\* fixed32, sfixed64, sint32, ...).
ProtoTypes == ScalarProtoTypes \cup UnsignedProtoTypes
                \cup {"AttributionNode", "message", "bytes", "group", "double"}

PrimitiveJavaTypes == {"FLOAT", "LONG", "INT", "BOOLEAN", "STRING", "ENUM"}
RepeatedJavaTypes  == {"FLOAT_ARRAY", "LONG_ARRAY", "INT_ARRAY",
                       "BOOLEAN_ARRAY", "STRING_ARRAY", "ENUM_ARRAY"}
JavaTypes == PrimitiveJavaTypes \cup RepeatedJavaTypes
               \cup {"ATTRIBUTION_CHAIN", "BYTE_ARRAY", "OBJECT", "UNKNOWN"}

is_primitive_field(jt) == jt \in PrimitiveJavaTypes
\* An attribution chain is repeated, and is not a repeated field here.
is_repeated_field(jt) == jt \in RepeatedJavaTypes

\* The java type of field f; f.bytes says log_mode = MODE_BYTES.
java_type(f, isUintAllowed) ==
    CASE f.type \in ScalarProtoTypes ->
            IF f.repeated THEN ArrayJavaType[f.type] ELSE ScalarJavaType[f.type]
      [] f.type \in UnsignedProtoTypes ->
            IF f.repeated \/ ~isUintAllowed THEN "UNKNOWN" ELSE UnsignedJavaType[f.type]
      [] f.type = "AttributionNode" -> "ATTRIBUTION_CHAIN"
      [] f.type = "message" /\ f.repeated -> "UNKNOWN"
      [] f.type = "message" /\ ~f.repeated -> IF f.bytes THEN "BYTE_ARRAY" ELSE "OBJECT"
      [] f.type = "bytes" -> IF f.repeated THEN "UNKNOWN" ELSE "BYTE_ARRAY"
      [] OTHER -> "UNKNOWN"

\* Mistake: keep arrays of enums in the signature.
SignatureType_EnumArray(jt, isBinaryField) ==
    CASE jt = "ENUM" -> "INT"
      [] jt = "OBJECT" /\ isBinaryField -> "BYTE_ARRAY"
      [] OTHER -> jt

\* The type a field of java type jt takes in the signature of its atom.
SignatureType(jt, isBinaryField) ==
    CASE jt = "ENUM" -> "INT"
      [] jt = "ENUM_ARRAY" -> "INT_ARRAY"
      [] jt = "OBJECT" /\ isBinaryField -> "BYTE_ARRAY"
      [] OTHER -> jt

\* The types write_java_methods_q_schema knows.
QTypes == PrimitiveJavaTypes \cup {"BYTE_ARRAY", "ATTRIBUTION_CHAIN"}

\* The chain of a signature, if any, is its first argument.
ChainFirst(s) == \A k \in DOMAIN s : s[k] = "ATTRIBUTION_CHAIN" => k = 1

\* The type a field takes in the signature of the atom's non-chained variant.
NonChainedSignatureType(jt) == IF jt = "ENUM" THEN "INT" ELSE jt
=============================================================================
