---------------------------- MODULE CollateField ----------------------------
(***************************************************************************)
(* What collate_atom does with one field: the checks of its type, and      *)
(* collate_field_annotations, which adds the annotations of the field to   *)
(* the AtomDecl and counts the errors.  Constant operators.                *)
(***************************************************************************)
EXTENDS AtomProtos

INT_MAX == 2147483647
FIRST_UID_IN_CHAIN_ID == 0

\* An AtomDecl as its constructor leaves it.  fields holds the java types;
\* annotations is fieldNumberToAnnotations, flattened.
EmptyDecl == [fields |-> <<>>, annotations |-> {}, primaryFields |-> <<>>,
              exclusiveField |-> 0, defaultState |-> INT_MAX,
              triggerStateReset |-> INT_MAX, nested |-> TRUE]

\* The parts of an AtomDecl.
IsDecl(d) ==
  /\ d = [fields |-> d.fields, annotations |-> d.annotations, primaryFields |-> d.primaryFields,
          exclusiveField |-> d.exclusiveField, defaultState |-> d.defaultState,
          triggerStateReset |-> d.triggerStateReset, nested |-> d.nested]
  /\ d.exclusiveField \in Nat

\* std::set::insert: an annotation whose id the field already has is dropped.
addAnnotations(annotations, new) ==
    annotations \cup {a \in new : \A b \in annotations : b[1] # a[1] \/ b[2] # a[2]}

\* Mistake: forget that restricted atoms may only have primitive fields.
TypeError_Unrestricted(a, f) ==
    LET jt == java_type(f, a.isUintAllowed) IN
    Count(jt \in {"UNKNOWN", "OBJECT"} \/ (jt = "BYTE_ARRAY") # f.bytes)

\* The allowed-types check of one field: at most one error, whichever branch.
TypeError(a, f) ==
    LET jt == java_type(f, a.isUintAllowed) IN
    Count(\/ jt \in {"UNKNOWN", "OBJECT"}
          \/ jt = "BYTE_ARRAY" /\ ~f.bytes
          \/ f.bytes /\ jt # "BYTE_ARRAY"
          \/ a.restricted /\ ~is_primitive_field(jt))

\* Mistake: let a chain be the second field, too.
PositionError_Second(a, f) ==
    Count(f.number > 2 /\ java_type(f, a.isUintAllowed) = "ATTRIBUTION_CHAIN")

\* The attribution chain check of one field.
PositionError(a, f) ==
    Count(f.number # 1 /\ java_type(f, a.isUintAllowed) = "ATTRIBUTION_CHAIN")

-----------------------------------------------------------------------------
(* collate_field_annotations; d is the AtomDecl before the field. *)

NotAState == {"ATTRIBUTION_CHAIN", "OBJECT", "BYTE_ARRAY"}

StateErrors(d, o, jt) ==
    Count(Count(o.primary) + Count(o.firstUid) + Count(o.exclusive) > 1)
    + Count(o.primary /\ jt \in NotAState)
    + Count(o.firstUid /\ jt # "ATTRIBUTION_CHAIN")
    + Count(o.exclusive /\ jt \in NotAState)
    + Count(o.exclusive /\ d.exclusiveField # 0)

\* Mistake: annotate a primary field of any type.
StateAnnotations_AnyPrimary(d, n, o, jt) ==
    When(o.primary, {<<n, "PRIMARY_FIELD", TRUE>>})
    \cup When(o.firstUid /\ jt = "ATTRIBUTION_CHAIN", {<<n, "PRIMARY_FIELD_FIRST_UID", TRUE>>})

\* Mistake: take nested from any field that sets it.
StateAnnotations_NestedAnywhere(d, n, o, jt) ==
    When(o.exclusive /\ d.exclusiveField = 0, {<<n, "EXCLUSIVE_STATE", TRUE>>})
    \cup {<<n, "STATE_NESTED", v>> : v \in o.nested}

StateAnnotations(d, n, o, jt) ==
    When(o.primary /\ jt \notin NotAState, {<<n, "PRIMARY_FIELD", TRUE>>})
    \cup When(o.firstUid /\ jt = "ATTRIBUTION_CHAIN", {<<n, "PRIMARY_FIELD_FIRST_UID", TRUE>>})
    \cup When(o.exclusive /\ d.exclusiveField = 0, {<<n, "EXCLUSIVE_STATE", TRUE>>})
    \cup When(o.exclusive, {<<n, "DEFAULT_STATE", v>> : v \in o.default}
                           \cup {<<n, "TRIGGER_STATE_RESET", v>> : v \in o.reset}
                           \cup {<<n, "STATE_NESTED", v>> : v \in o.nested})

\* The value of the option when it is set on an exclusive field, else old.
Override(exclusive, opt, old) ==
    IF exclusive /\ opt # {} THEN CHOOSE v \in opt : TRUE ELSE old

\* The AtomDecl after the state_field_option o of the field.
StateDecl(d, n, o, jt) ==
    [fields         |-> d.fields,
     annotations    |-> addAnnotations(d.annotations, StateAnnotations(d, n, o, jt)),
     primaryFields  |->
         d.primaryFields
         \o (IF o.primary /\ jt \notin NotAState THEN <<n>> ELSE <<>>)
         \o (IF o.firstUid /\ jt = "ATTRIBUTION_CHAIN" THEN <<FIRST_UID_IN_CHAIN_ID>> ELSE <<>>),
     exclusiveField |-> IF o.exclusive /\ d.exclusiveField = 0 THEN n ELSE d.exclusiveField,
     defaultState   |-> Override(o.exclusive, o.default, d.defaultState),
     triggerStateReset |-> Override(o.exclusive, o.reset, d.triggerStateReset),
     nested         |-> Override(o.exclusive, o.nested, d.nested)]

\* The early return: nothing else of such a field is looked at.
StateOnRepeated(f, jt) == f.state # {} /\ is_repeated_field(jt)

RestrictionErrors(a, f) == Count(f.restriction # {} /\ ~a.restricted) + Count(f.category)

\* Mistake: forget that a repeated int32 may hold uids.
UidErrors_ScalarOnly(f, jt) == Count(f.isUid /\ jt # "INT")

UidErrors(f, jt) == Count(f.isUid /\ jt \notin {"INT", "INT_ARRAY"})

\* The annotations of the restriction options and is_uid, erroneous or not.
OtherAnnotations(f) ==
    {<<f.number, r, TRUE>> : r \in UNION f.restriction}
    \cup When(f.isUid, {<<f.number, "IS_UID", TRUE>>})

AnnotationErrors(a, d, f, jt) ==
    IF StateOnRepeated(f, jt) THEN 1
    ELSE (IF f.state = {} THEN 0 ELSE StateErrors(d, CHOOSE o \in f.state : TRUE, jt))
         + RestrictionErrors(a, f) + UidErrors(f, jt)

AnnotatedDecl(d, f, jt) ==
    IF StateOnRepeated(f, jt) THEN d
    ELSE LET s == IF f.state = {} THEN d
                  ELSE StateDecl(d, f.number, CHOOSE o \in f.state : TRUE, jt)
         IN [s EXCEPT !.annotations = addAnnotations(@, OtherAnnotations(f))]

\* The AtomDecl after the build loop's iteration for field f of atom a.
BuiltDecl(a, d, f) ==
    LET jt == java_type(f, a.isUintAllowed)
    IN AnnotatedDecl([d EXCEPT !.fields = Append(@, jt)], f, jt)

FieldSignatureType(a, f) == SignatureType(java_type(f, a.isUintAllowed), f.bytes)

-----------------------------------------------------------------------------
(* collate_atom in one piece, as its caller sees it: CollateAtom runs the   *)
(* loops and is checked to return exactly this.                             *)

DeclAfter(a) ==
    LET d[k \in 0 .. Len(a.fields)] ==
            IF k = 0 THEN EmptyDecl ELSE BuiltDecl(a, d[k - 1], a.fields[k])
    IN d

FieldErrors(a, d, k) ==
    LET f == a.fields[k] IN
    Count(f.number # k) + TypeError(a, f) + PositionError(a, f)
      + AnnotationErrors(a, d, f, java_type(f, a.isUintAllowed))

collate_atom(a) ==
    LET n == Len(a.fields)
        decls == DeclAfter(a)
        errors[k \in 0 .. n] ==
            IF k = 0 THEN 0 ELSE errors[k - 1] + FieldErrors(a, decls[k - 1], k)
    IN [errorCount |-> errors[n],
        signature  |-> [k \in 1 .. n |-> FieldSignatureType(a, a.fields[k])],
        decl       |-> decls[n]]
=============================================================================
