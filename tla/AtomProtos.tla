----------------------------- MODULE AtomProtos -----------------------------
(***************************************************************************)
(* The input of the collation: the descriptor of one atom message, and     *)
(* what the rules of the atoms repository say of it, stated on the proto   *)
(* itself: which atoms are well formed, and the signature and annotations  *)
(* a well formed atom declares.  CollateAtom is checked against this.      *)
(***************************************************************************)
EXTENDS JavaTypes, Sequences, FiniteSets

FieldRestrictions ==
    {"PERIPHERAL_DEVICE_INFO", "APP_USAGE", "APP_ACTIVITY", "HEALTH_CONNECT", "ACCESSIBILITY",
     "SYSTEM_SEARCH", "USER_ENGAGEMENT", "AMBIENT_SENSING", "DEMOGRAPHIC_CLASSIFICATION"}

\* (state_field_option) of a field.
StateOptions == [primary : BOOLEAN, firstUid : BOOLEAN, exclusive : BOOLEAN,
                 default : Optional(Int), reset : Optional(Int), nested : Optional(BOOLEAN)]

FieldProtos == [number : Nat \ {0}, type : ProtoTypes, repeated : BOOLEAN, bytes : BOOLEAN,
                state : Optional(StateOptions),
                restriction : Optional(SUBSET FieldRestrictions),
                category : BOOLEAN,      \* restriction_category, set on the field
                isUid : BOOLEAN]

\* The fields of an atom in the order of std::map<int, FieldDescriptor*>:
\* field numbers are unique in a message, and iteration is by number.
ByNumber(fields) ==
    \A j, k \in DOMAIN fields : j < k => fields[j].number < fields[k].number

\* restricted is the flag the caller set on the AtomDecl, isUintAllowed says
\* that the atom's name is in UINT_ATOM_ALLOWLIST.
AtomProtos ==
    {a \in [fields : Seq(FieldProtos), restricted : BOOLEAN, isUintAllowed : BOOLEAN] :
        ByNumber(a.fields)}

-----------------------------------------------------------------------------
(* Rules, one operator per rule; k is a position in the field order. *)

TypeAllowed(a, f) ==
    \/ f.type \in ScalarProtoTypes /\ ~f.bytes /\ (a.restricted => ~f.repeated)
    \/ f.type \in UnsignedProtoTypes /\ a.isUintAllowed /\ ~f.repeated /\ ~f.bytes
    \/ f.type = "AttributionNode" /\ ~f.bytes /\ ~a.restricted
    \/ f.type \in {"message", "bytes"} /\ f.bytes /\ ~f.repeated /\ ~a.restricted

\* The field holds the exclusive state of its atom.
IsExclusive(f) == \E o \in f.state : o.exclusive

StateAllowed(a, k) ==
    LET f == a.fields[k] IN
    \A o \in f.state :
        /\ f.type = "AttributionNode" \/ ~f.repeated
        /\ ~(o.primary /\ o.exclusive) /\ ~(o.primary /\ o.firstUid)
        /\ ~(o.exclusive /\ o.firstUid)
        /\ o.primary \/ o.exclusive => f.type \notin {"AttributionNode", "message", "bytes"}
        /\ o.firstUid => f.type = "AttributionNode"
        /\ o.exclusive => \A j \in 1 .. k - 1 : ~IsExclusive(a.fields[j])

RestrictionAllowed(a, f) == (f.restriction # {} => a.restricted) /\ ~f.category

UidAllowed(a, f) ==
    f.isUid => \/ f.type = "int32"
               \/ f.type = "uint32" /\ a.isUintAllowed /\ ~f.repeated

NumberAllowed(a, k)      == a.fields[k].number = k
PositionAllowed(a, k)    == a.fields[k].type = "AttributionNode" => a.fields[k].number = 1
AnnotationsAllowed(a, k) == /\ StateAllowed(a, k)
                            /\ RestrictionAllowed(a, a.fields[k])
                            /\ UidAllowed(a, a.fields[k])

WellFormed(a) ==
    \A k \in DOMAIN a.fields : /\ NumberAllowed(a, k)
                               /\ TypeAllowed(a, a.fields[k])
                               /\ PositionAllowed(a, k)
                               /\ AnnotationsAllowed(a, k)

-----------------------------------------------------------------------------
(* What a well formed atom declares. *)

When(b, S) == IF b THEN S ELSE {}

\* An annotation is <<field number, annotation id, value>>.
DeclaredStateAnnotations(n, o) ==
    When(o.primary, {<<n, "PRIMARY_FIELD", TRUE>>})
    \cup When(o.firstUid, {<<n, "PRIMARY_FIELD_FIRST_UID", TRUE>>})
    \cup When(o.exclusive, {<<n, "EXCLUSIVE_STATE", TRUE>>}
                           \cup {<<n, "DEFAULT_STATE", v>> : v \in o.default}
                           \cup {<<n, "TRIGGER_STATE_RESET", v>> : v \in o.reset}
                           \cup {<<n, "STATE_NESTED", v>> : v \in o.nested})

DeclaredFieldAnnotations(f) ==
    (UNION {DeclaredStateAnnotations(f.number, o) : o \in f.state})
    \cup {<<f.number, r, TRUE>> : r \in UNION f.restriction}
    \cup When(f.isUid, {<<f.number, "IS_UID", TRUE>>})

DeclaredAnnotations(a) ==
    UNION {DeclaredFieldAnnotations(a.fields[k]) : k \in DOMAIN a.fields}

\* The type of an argument of the generated function, from the proto type.
ArgumentType(f) ==
    IF f.type = "AttributionNode" THEN "ATTRIBUTION_CHAIN"
    ELSE IF f.bytes THEN "BYTE_ARRAY"
    ELSE IF f.type \in {"int32", "enum"} THEN IF f.repeated THEN "INT_ARRAY" ELSE "INT"
    ELSE IF f.type \in UnsignedProtoTypes THEN UnsignedJavaType[f.type]
    ELSE IF f.repeated THEN ArrayJavaType[f.type] ELSE ScalarJavaType[f.type]

DeclaredSignature(a) == [k \in DOMAIN a.fields |-> ArgumentType(a.fields[k])]

Declaration(a) ==
    [signature |-> DeclaredSignature(a), annotations |-> DeclaredAnnotations(a)]
NoDeclaration == [signature |-> <<>>, annotations |-> {}]
=============================================================================
