-------------------------- MODULE CollateFieldProofs --------------------------
(***************************************************************************)
(* Facts about CollateField, for every atom message: the table of java     *)
(* types, what one field adds to an AtomDecl, and what collate_atom        *)
(* returns.  The theorems about CollateAtom, which runs the loops, and     *)
(* about Collation, which calls it for every atom, rest on them.           *)
(***************************************************************************)
EXTENDS CollateField, Recursion, FiniteSetTheorems, SequenceTheorems

\* What every step may use of the atom.
LEMMA AtomFacts ==
  ASSUME NEW a \in AtomProtos
  PROVE  /\ a.fields \in Seq(FieldProtos) /\ Len(a.fields) \in Nat
         /\ DOMAIN a.fields = 1 .. Len(a.fields)
         /\ \A k \in 1 .. Len(a.fields) : a.fields[k] \in FieldProtos
         /\ a.restricted \in BOOLEAN /\ a.isUintAllowed \in BOOLEAN
  BY DEF AtomProtos

-----------------------------------------------------------------------------
(* The table of java types, read off the proto type. *)

LEMMA JavaTypeTable ==
  ASSUME NEW f \in FieldProtos, NEW u \in BOOLEAN
  PROVE  /\ f.type \in ScalarProtoTypes =>
              java_type(f, u) = IF f.repeated THEN ArrayJavaType[f.type] ELSE ScalarJavaType[f.type]
         /\ f.type \in UnsignedProtoTypes =>
              java_type(f, u) = IF f.repeated \/ ~u THEN "UNKNOWN" ELSE UnsignedJavaType[f.type]
         /\ f.type = "AttributionNode" => java_type(f, u) = "ATTRIBUTION_CHAIN"
         /\ f.type = "message" =>
              java_type(f, u) = IF f.repeated THEN "UNKNOWN"
                                ELSE IF f.bytes THEN "BYTE_ARRAY" ELSE "OBJECT"
         /\ f.type = "bytes" => java_type(f, u) = IF f.repeated THEN "UNKNOWN" ELSE "BYTE_ARRAY"
         /\ f.type \in {"group", "double"} => java_type(f, u) = "UNKNOWN"
<1>0. /\ f.repeated \in BOOLEAN /\ f.bytes \in BOOLEAN
      /\ f.type \in ProtoTypes
  BY DEF FieldProtos
<1> USE DEF java_type, ScalarProtoTypes, UnsignedProtoTypes
<1>1. ASSUME f.type \in ScalarProtoTypes 
      PROVE java_type(f, u) = IF f.repeated THEN ArrayJavaType[f.type] ELSE ScalarJavaType[f.type]
  BY <1>0, <1>1
<1>2. ASSUME f.type \in UnsignedProtoTypes
      PROVE  java_type(f, u) = IF f.repeated \/ ~u THEN "UNKNOWN" ELSE UnsignedJavaType[f.type]
  BY <1>0, <1>2
<1>3. ASSUME f.type = "AttributionNode" PROVE java_type(f, u) = "ATTRIBUTION_CHAIN"
  BY <1>0, <1>3
<1>4. ASSUME f.type = "message"
      PROVE  java_type(f, u) = IF f.repeated THEN "UNKNOWN"
                                ELSE IF f.bytes THEN "BYTE_ARRAY" ELSE "OBJECT"
  BY <1>0, <1>4
<1>5. ASSUME f.type = "bytes"
      PROVE  java_type(f, u) = IF f.repeated THEN "UNKNOWN" ELSE "BYTE_ARRAY"
  BY <1>0, <1>5
<1>6. ASSUME f.type \in {"group", "double"} PROVE java_type(f, u) = "UNKNOWN"
  BY <1>0, <1>6
<1> QED BY <1>1, <1>2, <1>3, <1>4, <1>5, <1>6

\* The entries of the table of scalar types.
LEMMA ScalarTable ==
  ASSUME NEW t \in ScalarProtoTypes
  PROVE  /\ ScalarJavaType[t] \in PrimitiveJavaTypes
         /\ ArrayJavaType[t] \in RepeatedJavaTypes
         /\ ScalarJavaType[t] = "INT" <=> t = "int32"
         /\ ArrayJavaType[t] = "INT_ARRAY" <=> t = "int32"
         /\ ScalarJavaType[t] = "ENUM" <=> t = "enum"
         /\ ArrayJavaType[t] = "ENUM_ARRAY" <=> t = "enum"
  BY DEF ScalarProtoTypes, ScalarJavaType, ArrayJavaType, PrimitiveJavaTypes, RepeatedJavaTypes

LEMMA UnsignedTable ==
  ASSUME NEW t \in UnsignedProtoTypes
  PROVE  /\ UnsignedJavaType[t] \in {"INT", "LONG"}
         /\ UnsignedJavaType[t] = "INT" <=> t = "uint32"
  BY DEF UnsignedProtoTypes, UnsignedJavaType

LEMMA JavaTypeInTypes ==
  ASSUME NEW f \in FieldProtos, NEW u \in BOOLEAN
  PROVE  /\ java_type(f, u) \in JavaTypes
         /\ \A b \in BOOLEAN : SignatureType(java_type(f, u), b) \in JavaTypes
<1>1. f.type \in ProtoTypes
  BY DEF FieldProtos
<1>2. java_type(f, u) \in JavaTypes
  BY <1>1, JavaTypeTable, ScalarTable, UnsignedTable
     DEF ProtoTypes, JavaTypes, PrimitiveJavaTypes
<1>3. \A b \in BOOLEAN : SignatureType(java_type(f, u), b) \in JavaTypes
  BY <1>2 DEF SignatureType, JavaTypes, PrimitiveJavaTypes, RepeatedJavaTypes
<1> QED BY <1>2, <1>3

\* The allowed-types check of the code counts an error exactly for the types
\* the rules forbid.
LEMMA TypeErrorIffForbidden ==
  ASSUME NEW a \in AtomProtos, NEW f \in FieldProtos
  PROVE  /\ TypeError(a, f) \in {0, 1}
         /\ TypeError(a, f) = 0 <=> TypeAllowed(a, f)
<1>0. /\ f.repeated \in BOOLEAN /\ f.bytes \in BOOLEAN /\ f.type \in ProtoTypes
      /\ a.restricted \in BOOLEAN /\ a.isUintAllowed \in BOOLEAN
  BY DEF FieldProtos, AtomProtos
<1> DEFINE jt == java_type(f, a.isUintAllowed)
<1> USE DEF TypeError, Count, TypeAllowed, is_primitive_field
<1>1. CASE f.type \in ScalarProtoTypes
  <2>1. jt \in PrimitiveJavaTypes \cup RepeatedJavaTypes /\ (jt \in PrimitiveJavaTypes <=> ~f.repeated)
    BY <1>0, <1>1, JavaTypeTable, ScalarTable DEF PrimitiveJavaTypes, RepeatedJavaTypes
  <2>2. jt \notin {"UNKNOWN", "OBJECT", "BYTE_ARRAY"}
    BY <2>1 DEF PrimitiveJavaTypes, RepeatedJavaTypes
  <2> HIDE DEF jt
  <2> QED BY <1>0, <1>1, <2>1, <2>2 DEF ScalarProtoTypes, UnsignedProtoTypes, jt
<1>2. CASE f.type \in UnsignedProtoTypes
  <2>1. jt = IF f.repeated \/ ~a.isUintAllowed THEN "UNKNOWN" ELSE UnsignedJavaType[f.type]
    BY <1>0, <1>2, JavaTypeTable
  <2>2. UnsignedJavaType[f.type] \in {"INT", "LONG"}
    BY <1>2, UnsignedTable
  <2> QED BY <1>0, <1>2, <2>1, <2>2 DEF ScalarProtoTypes, UnsignedProtoTypes, PrimitiveJavaTypes
<1>3. CASE f.type \notin ScalarProtoTypes /\ f.type \notin UnsignedProtoTypes
  BY <1>0, <1>3, JavaTypeTable DEF ProtoTypes, PrimitiveJavaTypes, ScalarProtoTypes, UnsignedProtoTypes
<1> QED BY <1>1, <1>2, <1>3

\* Only attribution chains have the java type of one.
LEMMA ChainType ==
  ASSUME NEW f \in FieldProtos, NEW u \in BOOLEAN
  PROVE  java_type(f, u) = "ATTRIBUTION_CHAIN" <=> f.type = "AttributionNode"
<1>1. f.type \in ProtoTypes
  BY DEF FieldProtos
<1> QED BY <1>1, JavaTypeTable, ScalarTable, UnsignedTable
        DEF ProtoTypes, PrimitiveJavaTypes, RepeatedJavaTypes

LEMMA PositionErrorIffForbidden ==
  ASSUME NEW a \in AtomProtos, NEW k \in DOMAIN a.fields, a.fields[k] \in FieldProtos
  PROVE  /\ PositionError(a, a.fields[k]) \in {0, 1}
         /\ PositionError(a, a.fields[k]) = 0 <=> PositionAllowed(a, k)
<1>1. a.isUintAllowed \in BOOLEAN
  BY DEF AtomProtos
<1> QED BY <1>1, ChainType DEF PositionError, PositionAllowed, Count

\* For a field whose type is allowed, the java types the annotation checks
\* test say what the rules say of the proto type.
LEMMA AllowedJavaType ==
  ASSUME NEW a \in AtomProtos, NEW f \in FieldProtos, TypeAllowed(a, f),
         NEW jt, jt = java_type(f, a.isUintAllowed)
  PROVE  /\ is_repeated_field(jt) <=> f.repeated /\ f.type # "AttributionNode"
         /\ jt \in NotAState <=> f.type \in {"AttributionNode", "message", "bytes"}
         /\ jt \in {"INT", "INT_ARRAY"} <=>
               \/ f.type = "int32"
               \/ f.type = "uint32" /\ a.isUintAllowed /\ ~f.repeated
         /\ SignatureType(jt, f.bytes) = ArgumentType(f)
<1>0. /\ f.repeated \in BOOLEAN /\ f.bytes \in BOOLEAN /\ f.type \in ProtoTypes
      /\ a.restricted \in BOOLEAN /\ a.isUintAllowed \in BOOLEAN
  BY DEF FieldProtos, AtomProtos
<1>1. CASE f.type \in ScalarProtoTypes
  <2>1. jt = IF f.repeated THEN ArrayJavaType[f.type] ELSE ScalarJavaType[f.type]
    BY <1>0, <1>1, JavaTypeTable
  <2>2. ~f.bytes /\ f.type \notin UnsignedProtoTypes
        /\ f.type \notin {"AttributionNode", "message", "bytes", "uint32"}
    BY <1>0, <1>1 DEF TypeAllowed, ScalarProtoTypes, UnsignedProtoTypes
  <2>3. CASE f.repeated
    <3>1. jt = ArrayJavaType[f.type] /\ jt \in RepeatedJavaTypes
          /\ (jt = "INT_ARRAY" <=> f.type = "int32") /\ (jt = "ENUM_ARRAY" <=> f.type = "enum")
      BY <1>1, <2>1, <2>3, ScalarTable
    <3>2. jt # "INT" /\ jt # "ENUM" /\ jt \notin NotAState
      BY <3>1 DEF RepeatedJavaTypes, NotAState
    <3>3. SignatureType(jt, f.bytes) = ArgumentType(f)
      BY <2>2, <2>3, <3>1, <3>2 DEF SignatureType, ArgumentType
    <3> QED BY <2>2, <2>3, <3>1, <3>2, <3>3 DEF is_repeated_field
  <2>4. CASE ~f.repeated
    <3>1. jt = ScalarJavaType[f.type] /\ jt \in PrimitiveJavaTypes
          /\ (jt = "INT" <=> f.type = "int32") /\ (jt = "ENUM" <=> f.type = "enum")
      BY <1>1, <2>1, <2>4, ScalarTable
    <3>2. jt # "INT_ARRAY" /\ jt # "ENUM_ARRAY" /\ jt \notin NotAState /\ jt \notin RepeatedJavaTypes
      BY <3>1 DEF PrimitiveJavaTypes, RepeatedJavaTypes, NotAState
    <3>3. SignatureType(jt, f.bytes) = ArgumentType(f)
      BY <2>2, <2>4, <3>1, <3>2 DEF SignatureType, ArgumentType
    <3> QED BY <2>2, <2>4, <3>1, <3>2, <3>3 DEF is_repeated_field
  <2> QED BY <1>0, <2>3, <2>4
<1>2. CASE f.type \in UnsignedProtoTypes
  <2>1. ~f.bytes /\ ~f.repeated /\ a.isUintAllowed
    BY <1>0, <1>2 DEF TypeAllowed, ScalarProtoTypes, UnsignedProtoTypes
  <2>2. jt = UnsignedJavaType[f.type] /\ jt \in {"INT", "LONG"} /\ (jt = "INT" <=> f.type = "uint32")
    BY <1>0, <1>2, <2>1, JavaTypeTable, UnsignedTable
  <2> QED BY <1>2, <2>1, <2>2
          DEF UnsignedProtoTypes, SignatureType, ArgumentType, is_repeated_field, RepeatedJavaTypes, NotAState
<1>3. CASE f.type \notin ScalarProtoTypes /\ f.type \notin UnsignedProtoTypes
  <2>1. CASE f.type = "AttributionNode"
    BY <1>0, <2>1, JavaTypeTable
       DEF SignatureType, ArgumentType, is_repeated_field, RepeatedJavaTypes, NotAState
  <2>2. CASE f.type # "AttributionNode"
    <3>1. f.type \in {"message", "bytes"} /\ f.bytes /\ ~f.repeated
      BY <1>0, <1>3, <2>2 DEF TypeAllowed
    <3>2. jt = "BYTE_ARRAY"
      BY <1>0, <3>1, JavaTypeTable
    <3> QED BY <3>1, <3>2 DEF SignatureType, ArgumentType, is_repeated_field, RepeatedJavaTypes, NotAState
  <2> QED BY <2>1, <2>2
<1> QED BY <1>1, <1>2, <1>3

-----------------------------------------------------------------------------
(* One field of the build loop. *)

\* The annotations and the exclusive field after a field.
LEMMA BuiltDeclParts ==
  ASSUME NEW a \in AtomProtos, NEW f \in FieldProtos, NEW d, IsDecl(d),
         NEW jt, jt = java_type(f, a.isUintAllowed)
  PROVE  /\ IsDecl(BuiltDecl(a, d, f))
         /\ f.state = {} =>
              /\ BuiltDecl(a, d, f).annotations = addAnnotations(d.annotations, OtherAnnotations(f))
              /\ BuiltDecl(a, d, f).exclusiveField = d.exclusiveField
         /\ \A o \in f.state :
              ~is_repeated_field(jt) =>
              /\ BuiltDecl(a, d, f).annotations =
                   addAnnotations(addAnnotations(d.annotations, StateAnnotations(d, f.number, o, jt)),
                                  OtherAnnotations(f))
              /\ BuiltDecl(a, d, f).exclusiveField =
                   IF o.exclusive /\ d.exclusiveField = 0 THEN f.number ELSE d.exclusiveField
<1>0. f.number \in Nat /\ f.state \in Optional(StateOptions)
  BY DEF FieldProtos
<1> DEFINE e == [d EXCEPT !.fields = Append(@, jt)]
<1>1. IsDecl(e) /\ e.annotations = d.annotations /\ e.exclusiveField = d.exclusiveField
  BY SMTT(30) DEF IsDecl
<1>2. BuiltDecl(a, d, f) = AnnotatedDecl(e, f, jt)
  BY DEF BuiltDecl
<1>3. \A o : StateAnnotations(e, f.number, o, jt) = StateAnnotations(d, f.number, o, jt)
  BY <1>1 DEF StateAnnotations
<1> HIDE DEF e
<1>4. CASE StateOnRepeated(f, jt)
  BY <1>1, <1>2, <1>4 DEF AnnotatedDecl, StateOnRepeated
<1>5. CASE ~StateOnRepeated(f, jt) /\ f.state = {}
  <2>1. BuiltDecl(a, d, f) = [e EXCEPT !.annotations = addAnnotations(@, OtherAnnotations(f))]
    BY <1>2, <1>5 DEF AnnotatedDecl
  <2> QED BY <1>1, <1>5, <2>1 DEF IsDecl
<1>6. CASE ~StateOnRepeated(f, jt) /\ f.state # {}
  <2>1. PICK o \in f.state : TRUE
    BY <1>6
  <2>2. \A p \in f.state : p = o
    BY <1>0, <2>1 DEF Optional
  <2>3. (CHOOSE p \in f.state : TRUE) = o
    BY <2>1, <2>2
  <2> DEFINE s == StateDecl(e, f.number, o, jt)
  <2>4. /\ IsDecl(s)
        /\ s.annotations = addAnnotations(d.annotations, StateAnnotations(d, f.number, o, jt))
        /\ s.exclusiveField = IF o.exclusive /\ d.exclusiveField = 0 THEN f.number ELSE d.exclusiveField
    <3>1. /\ s.annotations = addAnnotations(e.annotations, StateAnnotations(e, f.number, o, jt))
          /\ s.exclusiveField = IF o.exclusive /\ e.exclusiveField = 0 THEN f.number ELSE e.exclusiveField
          /\ s = [fields |-> s.fields, annotations |-> s.annotations, primaryFields |-> s.primaryFields,
                  exclusiveField |-> s.exclusiveField, defaultState |-> s.defaultState,
                  triggerStateReset |-> s.triggerStateReset, nested |-> s.nested]
      BY DEF StateDecl
    <3> HIDE DEF s
    <3>2. s.exclusiveField \in Nat
      BY <1>0, <1>1, <3>1 DEF IsDecl
    <3>3. IsDecl(s)
      BY <3>1, <3>2 DEF IsDecl
    <3> QED BY <1>1, <1>3, <3>1, <3>3
  <2>5. BuiltDecl(a, d, f) = [s EXCEPT !.annotations = addAnnotations(@, OtherAnnotations(f))]
    BY <1>2, <1>6, <2>3 DEF AnnotatedDecl
  <2> HIDE DEF s
  <2>6. /\ IsDecl(BuiltDecl(a, d, f))
        /\ BuiltDecl(a, d, f).annotations = addAnnotations(s.annotations, OtherAnnotations(f))
        /\ BuiltDecl(a, d, f).exclusiveField = s.exclusiveField
    BY <2>4, <2>5 DEF IsDecl
  <2> QED BY <1>6, <2>2, <2>4, <2>6
<1> QED BY <1>4, <1>5, <1>6

\* A field whose type is allowed counts no annotation error exactly when the
\* rules allow its annotations, provided exclusiveField tells whether an
\* earlier field is exclusive.
LEMMA AnnotationErrorsIffForbidden ==
  ASSUME NEW a \in AtomProtos, NEW k \in DOMAIN a.fields, NEW f \in FieldProtos, f = a.fields[k],
         NEW d, NEW jt, jt = java_type(f, a.isUintAllowed), IsDecl(d)
  PROVE  /\ AnnotationErrors(a, d, f, jt) \in Nat
         /\ TypeAllowed(a, f) /\ (d.exclusiveField = 0 <=> \A j \in 1 .. k - 1 : ~IsExclusive(a.fields[j]))
              => (AnnotationErrors(a, d, f, jt) = 0 <=> AnnotationsAllowed(a, k))
<1>0. f.state \in Optional(StateOptions) /\ f.repeated \in BOOLEAN /\ f.category \in BOOLEAN
      /\ f.isUid \in BOOLEAN
  BY DEF FieldProtos
<1>1. /\ RestrictionErrors(a, f) \in Nat
      /\ RestrictionErrors(a, f) = 0 <=> RestrictionAllowed(a, f)
  BY <1>0 DEF RestrictionErrors, RestrictionAllowed, Count
<1>2. /\ UidErrors(f, jt) \in Nat
      /\ TypeAllowed(a, f) => (UidErrors(f, jt) = 0 <=> UidAllowed(a, f))
  BY <1>0, AllowedJavaType DEF UidErrors, UidAllowed, Count
<1>3. CASE f.state = {}
  <2>1. AnnotationErrors(a, d, f, jt) = RestrictionErrors(a, f) + UidErrors(f, jt)
    BY <1>1, <1>2, <1>3 DEF AnnotationErrors, StateOnRepeated
  <2>2. StateAllowed(a, k)
    BY <1>3 DEF StateAllowed
  <2> QED BY <1>1, <1>2, <2>1, <2>2 DEF AnnotationsAllowed
<1>4. CASE f.state # {}
  <2>1. PICK o \in f.state : TRUE
    BY <1>4
  <2>2. o \in StateOptions /\ \A p \in f.state : p = o
    BY <1>0, <2>1 DEF Optional
  <2>3. (CHOOSE p \in f.state : TRUE) = o
    BY <2>1, <2>2
  <2>4. o.primary \in BOOLEAN /\ o.firstUid \in BOOLEAN /\ o.exclusive \in BOOLEAN
    BY <2>2 DEF StateOptions
  <2>5. StateErrors(d, o, jt) \in Nat
    BY <2>4 DEF StateErrors, Count
  <2>6. StateErrors(d, o, jt) = 0 <=>
           /\ ~(o.primary /\ o.exclusive) /\ ~(o.primary /\ o.firstUid) /\ ~(o.exclusive /\ o.firstUid)
           /\ o.primary \/ o.exclusive => jt \notin NotAState
           /\ o.firstUid => jt = "ATTRIBUTION_CHAIN"
           /\ o.exclusive => d.exclusiveField = 0
    BY <2>4 DEF StateErrors, Count
  <2>7. AnnotationErrors(a, d, f, jt) =
           IF is_repeated_field(jt) THEN 1
           ELSE StateErrors(d, o, jt) + RestrictionErrors(a, f) + UidErrors(f, jt)
    BY <1>4, <2>3 DEF AnnotationErrors, StateOnRepeated
  <2>8. AnnotationErrors(a, d, f, jt) \in Nat
    BY <1>1, <1>2, <2>5, <2>7
  <2>9. ASSUME TypeAllowed(a, f), d.exclusiveField = 0 <=> \A j \in 1 .. k - 1 : ~IsExclusive(a.fields[j])
        PROVE  AnnotationErrors(a, d, f, jt) = 0 <=> AnnotationsAllowed(a, k)
    <3>1. /\ is_repeated_field(jt) <=> f.repeated /\ f.type # "AttributionNode"
          /\ jt \in NotAState <=> f.type \in {"AttributionNode", "message", "bytes"}
      BY <2>9, AllowedJavaType
    <3>2. jt = "ATTRIBUTION_CHAIN" <=> f.type = "AttributionNode"
      BY ChainType DEF AtomProtos
    <3>3. StateAllowed(a, k) <=> ~is_repeated_field(jt) /\ StateErrors(d, o, jt) = 0
      BY <1>0, <2>1, <2>2, <2>4, <2>6, <2>9, <3>1, <3>2 DEF StateAllowed
    <3>4. CASE is_repeated_field(jt)
      BY <2>7, <3>3, <3>4 DEF AnnotationsAllowed
    <3>5. CASE ~is_repeated_field(jt)
      BY <1>1, <1>2, <2>5, <2>7, <2>9, <3>3, <3>5 DEF AnnotationsAllowed
    <3> QED BY <3>4, <3>5
  <2> QED BY <2>8, <2>9
<1> QED BY <1>3, <1>4

\* Such a field adds the annotations its proto declares, and makes
\* exclusiveField tell whether it or an earlier field is exclusive.
LEMMA AllowedFieldBuilt ==
  ASSUME NEW a \in AtomProtos, NEW k \in DOMAIN a.fields, NEW f \in FieldProtos, f = a.fields[k],
         NEW d, NEW jt, jt = java_type(f, a.isUintAllowed), IsDecl(d),
         TypeAllowed(a, f), AnnotationsAllowed(a, k),
         d.exclusiveField = 0 <=> \A j \in 1 .. k - 1 : ~IsExclusive(a.fields[j]),
         \A b \in d.annotations : b[1] # f.number
  PROVE  /\ BuiltDecl(a, d, f).annotations = d.annotations \cup DeclaredFieldAnnotations(f)
         /\ BuiltDecl(a, d, f).exclusiveField = 0
              <=> d.exclusiveField = 0 /\ ~IsExclusive(f)
<1>0. /\ f.state \in Optional(StateOptions) /\ f.number \in Nat \ {0}
      /\ f.restriction \in Optional(SUBSET FieldRestrictions) /\ f.isUid \in BOOLEAN
  BY DEF FieldProtos
<1>1. \A b \in OtherAnnotations(f) :
         b[1] = f.number /\ b[2] \in FieldRestrictions \cup {"IS_UID"}
  <2>1. \A r \in UNION f.restriction : r \in FieldRestrictions
    BY <1>0 DEF Optional
  <2>2. ASSUME NEW b \in OtherAnnotations(f)
        PROVE  b \in {<<f.number, r, TRUE>> : r \in UNION f.restriction} \/ b = <<f.number, "IS_UID", TRUE>>
    BY <1>0 DEF OtherAnnotations, When
  <2>3. ASSUME NEW b \in OtherAnnotations(f)
        PROVE  b[1] = f.number /\ b[2] \in FieldRestrictions \cup {"IS_UID"}
    <3>1. CASE b = <<f.number, "IS_UID", TRUE>>
      BY <3>1
    <3>2. CASE b \in {<<f.number, r, TRUE>> : r \in UNION f.restriction}
      <4>1. PICK r \in UNION f.restriction : b = <<f.number, r, TRUE>>
        BY <3>2
      <4>2. b[1] = f.number /\ b[2] = r
        BY <4>1
      <4> QED BY <2>1, <4>1, <4>2
    <3> QED BY <2>2, <3>1, <3>2
  <2> QED BY <2>3
<1>2. CASE f.state = {}
  <2>1. addAnnotations(d.annotations, OtherAnnotations(f)) = d.annotations \cup OtherAnnotations(f)
    BY <1>1 DEF addAnnotations
  <2>2. DeclaredFieldAnnotations(f) = OtherAnnotations(f)
    <3>1. UNION {DeclaredStateAnnotations(f.number, o) : o \in f.state} = {}
      BY <1>2
    <3> DEFINE R == {<<f.number, r, TRUE>> : r \in UNION f.restriction}
               U == When(f.isUid, {<<f.number, "IS_UID", TRUE>>})
    <3>2. DeclaredFieldAnnotations(f) = {} \cup R \cup U
      BY <3>1 DEF DeclaredFieldAnnotations
    <3>3. OtherAnnotations(f) = R \cup U
      BY DEF OtherAnnotations
    <3> HIDE DEF R, U
    <3> QED BY <3>2, <3>3
  <2>3. ~IsExclusive(f)
    BY <1>2 DEF IsExclusive
  <2> QED BY <1>2, <2>1, <2>2, <2>3, BuiltDeclParts
<1>3. CASE f.state # {}
  <2>1. PICK o \in f.state : TRUE
    BY <1>3
  <2>2. o \in StateOptions /\ f.state = {o}
    BY <1>0, <2>1 DEF Optional
  <2>3. o.primary \in BOOLEAN /\ o.firstUid \in BOOLEAN /\ o.exclusive \in BOOLEAN
    BY <2>2 DEF StateOptions
  <2>4. /\ is_repeated_field(jt) <=> f.repeated /\ f.type # "AttributionNode"
        /\ jt \in NotAState <=> f.type \in {"AttributionNode", "message", "bytes"}
        /\ jt = "ATTRIBUTION_CHAIN" <=> f.type = "AttributionNode"
    BY AllowedJavaType, ChainType DEF AtomProtos
  <2>5. /\ ~is_repeated_field(jt)
        /\ o.primary \/ o.exclusive => jt \notin NotAState
        /\ o.firstUid => jt = "ATTRIBUTION_CHAIN"
        /\ o.exclusive => d.exclusiveField = 0
    BY <2>1, <2>4, f.repeated \in BOOLEAN DEF AnnotationsAllowed, StateAllowed, FieldProtos
  <2> DEFINE S == StateAnnotations(d, f.number, o, jt)
  <2>6. S = DeclaredStateAnnotations(f.number, o)
    BY <2>3, <2>5 DEF StateAnnotations, DeclaredStateAnnotations, When
  <2>7. \A b \in S : b[1] = f.number /\ b[2] \notin FieldRestrictions \cup {"IS_UID"}
    <3>1. ASSUME NEW b \in S
          PROVE  /\ b[1] = f.number
                 /\ b[2] \in {"PRIMARY_FIELD", "PRIMARY_FIELD_FIRST_UID", "EXCLUSIVE_STATE",
                             "DEFAULT_STATE", "TRIGGER_STATE_RESET", "STATE_NESTED"}
      <4>1. \/ b = <<f.number, "PRIMARY_FIELD", TRUE>>
            \/ b = <<f.number, "PRIMARY_FIELD_FIRST_UID", TRUE>>
            \/ b = <<f.number, "EXCLUSIVE_STATE", TRUE>>
            \/ \E v : b = <<f.number, "DEFAULT_STATE", v>>
            \/ \E v : b = <<f.number, "TRIGGER_STATE_RESET", v>>
            \/ \E v : b = <<f.number, "STATE_NESTED", v>>
        <5> DEFINE P == When(o.primary /\ jt \notin NotAState, {<<f.number, "PRIMARY_FIELD", TRUE>>})
                   F == When(o.firstUid /\ jt = "ATTRIBUTION_CHAIN",
                             {<<f.number, "PRIMARY_FIELD_FIRST_UID", TRUE>>})
                   X == When(o.exclusive /\ d.exclusiveField = 0, {<<f.number, "EXCLUSIVE_STATE", TRUE>>})
                   D == {<<f.number, "DEFAULT_STATE", v>> : v \in o.default}
                   T == {<<f.number, "TRIGGER_STATE_RESET", v>> : v \in o.reset}
                   N == {<<f.number, "STATE_NESTED", v>> : v \in o.nested}
        <5>1. b \in P \/ b \in F \/ b \in X \/ b \in When(o.exclusive, D \cup T \cup N)
          BY <3>1 DEF StateAnnotations
        <5>2. /\ b \in P => b = <<f.number, "PRIMARY_FIELD", TRUE>>
              /\ b \in F => b = <<f.number, "PRIMARY_FIELD_FIRST_UID", TRUE>>
              /\ b \in X => b = <<f.number, "EXCLUSIVE_STATE", TRUE>>
          BY DEF When
        <5>3. b \in When(o.exclusive, D \cup T \cup N) => b \in D \/ b \in T \/ b \in N
          BY DEF When
        <5> QED BY <5>1, <5>2, <5>3
      <4>2. CASE \E v : b = <<f.number, "DEFAULT_STATE", v>>
        BY <4>2
      <4>3. CASE \E v : b = <<f.number, "TRIGGER_STATE_RESET", v>>
        BY <4>3
      <4>4. CASE \E v : b = <<f.number, "STATE_NESTED", v>>
        BY <4>4
      <4>5. CASE b = <<f.number, "PRIMARY_FIELD", TRUE>>
        BY <4>5
      <4>6. CASE b = <<f.number, "PRIMARY_FIELD_FIRST_UID", TRUE>>
        BY <4>6
      <4>7. CASE b = <<f.number, "EXCLUSIVE_STATE", TRUE>>
        BY <4>7
      <4> QED BY <4>1, <4>2, <4>3, <4>4, <4>5, <4>6, <4>7
    <3> QED BY <3>1 DEF FieldRestrictions
  <2> HIDE DEF S
  <2>8. addAnnotations(d.annotations, S) = d.annotations \cup S
    BY <2>7 DEF addAnnotations
  <2>9. addAnnotations(d.annotations \cup S, OtherAnnotations(f))
          = d.annotations \cup S \cup OtherAnnotations(f)
    BY <1>1, <2>7 DEF addAnnotations
  <2>10. DeclaredFieldAnnotations(f) = S \cup OtherAnnotations(f)
    <3>1. UNION {DeclaredStateAnnotations(f.number, p) : p \in f.state} = S
      BY <2>2, <2>6
    <3> DEFINE R == {<<f.number, r, TRUE>> : r \in UNION f.restriction}
               U == When(f.isUid, {<<f.number, "IS_UID", TRUE>>})
    <3>2. DeclaredFieldAnnotations(f) = S \cup R \cup U
      BY <3>1 DEF DeclaredFieldAnnotations
    <3>3. OtherAnnotations(f) = R \cup U
      BY DEF OtherAnnotations
    <3> HIDE DEF R, U
    <3> QED BY <3>2, <3>3
  <2>11. BuiltDecl(a, d, f).annotations = d.annotations \cup DeclaredFieldAnnotations(f)
    <3>1. BuiltDecl(a, d, f).annotations = addAnnotations(addAnnotations(d.annotations, S), OtherAnnotations(f))
      BY <2>1, <2>5, BuiltDeclParts DEF S
    <3> QED BY <2>8, <2>9, <2>10, <3>1
  <2>12. IsExclusive(f) <=> o.exclusive
    BY <2>2 DEF IsExclusive
  <2>13. BuiltDecl(a, d, f).exclusiveField = IF o.exclusive /\ d.exclusiveField = 0 THEN f.number
                                             ELSE d.exclusiveField
    BY <2>1, <2>5, BuiltDeclParts
  <2> QED BY <1>0, <2>3, <2>5, <2>11, <2>12, <2>13
<1> QED BY <1>2, <1>3

\* The annotations a field declares are its own.
LEMMA DeclaredAnnotationField ==
  ASSUME NEW f \in FieldProtos, NEW b \in DeclaredFieldAnnotations(f)
  PROVE  b[1] = f.number
<1>1. ASSUME NEW o \in f.state, b \in DeclaredStateAnnotations(f.number, o)
      PROVE  b[1] = f.number
  <2> DEFINE n == f.number
             D == {<<n, "DEFAULT_STATE", v>> : v \in o.default}
             T == {<<n, "TRIGGER_STATE_RESET", v>> : v \in o.reset}
             N == {<<n, "STATE_NESTED", v>> : v \in o.nested}
  <2>1. \/ b = <<n, "PRIMARY_FIELD", TRUE>> \/ b = <<n, "PRIMARY_FIELD_FIRST_UID", TRUE>>
        \/ b = <<n, "EXCLUSIVE_STATE", TRUE>> \/ b \in D \/ b \in T \/ b \in N
    BY <1>1 DEF DeclaredStateAnnotations, When
  <2>2. b \in D \/ b \in T \/ b \in N => b[1] = n
    OBVIOUS
  <2>3. \A id : b = <<n, id, TRUE>> => b[1] = n
    OBVIOUS
  <2> HIDE DEF D, T, N
  <2> QED BY <2>1, <2>2, <2>3
<1>2. ASSUME b \in {<<f.number, r, TRUE>> : r \in UNION f.restriction}
      PROVE  b[1] = f.number
  <2>1. PICK r \in UNION f.restriction : b = <<f.number, r, TRUE>>
    BY <1>2
  <2> QED BY <2>1
<1>3. ASSUME b \in When(f.isUid, {<<f.number, "IS_UID", TRUE>>})
      PROVE  b[1] = f.number
  <2>1. b = <<f.number, "IS_UID", TRUE>>
    BY <1>3 DEF When
  <2> QED BY <2>1
<1>4. \/ \E o \in f.state : b \in DeclaredStateAnnotations(f.number, o)
      \/ b \in {<<f.number, r, TRUE>> : r \in UNION f.restriction}
      \/ b \in When(f.isUid, {<<f.number, "IS_UID", TRUE>>})
  BY DEF DeclaredFieldAnnotations
<1> QED BY <1>1, <1>2, <1>3, <1>4

-----------------------------------------------------------------------------
(* The copies an AtomDecl keeps of its primary key and of its state. *)

\* The numbers of the fields a set of annotations gives an id to.
Annotated(annotations, id) == {a[1] : a \in {b \in annotations : b[2] = id}}

Listed(primaryFields) == {primaryFields[k] : k \in DOMAIN primaryFields}

\* The primary key as the annotations and as primaryFields have it.
KeyAgrees(d) ==
  /\ d.primaryFields \in Seq(Nat)
  /\ Annotated(d.annotations, "PRIMARY_FIELD") = Listed(d.primaryFields) \ {FIRST_UID_IN_CHAIN_ID}
  /\ Annotated(d.annotations, "PRIMARY_FIELD_FIRST_UID") # {}
       <=> FIRST_UID_IN_CHAIN_ID \in Listed(d.primaryFields)

StateAnnotationIds == {"EXCLUSIVE_STATE", "DEFAULT_STATE", "TRIGGER_STATE_RESET", "STATE_NESTED"}

\* The state annotations are those of the exclusive field, with the AtomDecl's values.
StateAgrees(d) ==
  \A a \in d.annotations :
    /\ a[2] \in StateAnnotationIds => a[1] = d.exclusiveField
    /\ a[2] = "DEFAULT_STATE" => a[3] = d.defaultState
    /\ a[2] = "TRIGGER_STATE_RESET" => a[3] = d.triggerStateReset
    /\ a[2] = "STATE_NESTED" => a[3] = d.nested

-----------------------------------------------------------------------------
(* What one field adds. *)

\* addAnnotations drops an annotation only when the field has its id already.
LEMMA AddedIds ==
  ASSUME NEW old, NEW new, NEW id
  PROVE  Annotated(addAnnotations(old, new), id) = Annotated(old, id) \cup Annotated(new, id)
<1> DEFINE kept == {a \in new : \A b \in old : b[1] # a[1] \/ b[2] # a[2]}
<1>1. addAnnotations(old, new) = old \cup kept
  BY DEF addAnnotations
<1>2. \A a \in new : a[2] = id => a \in kept \/ a[1] \in Annotated(old, id)
  BY DEF Annotated
<1>3. kept \subseteq new
  OBVIOUS
<1> HIDE DEF kept
<1> QED BY <1>1, <1>2, <1>3 DEF Annotated

\* The annotations every field may have are no part of a key or a state.
LEMMA OtherIds ==
  ASSUME NEW f \in FieldProtos, NEW b \in OtherAnnotations(f)
  PROVE  b[2] \in FieldRestrictions \cup {"IS_UID"}
<1>1. f.restriction \in Optional(SUBSET FieldRestrictions)
  BY DEF FieldProtos
<1>2. CASE b \in {<<f.number, r, TRUE>> : r \in UNION f.restriction}
  <2>1. PICK r \in UNION f.restriction : b = <<f.number, r, TRUE>>
    BY <1>2
  <2>2. r \in FieldRestrictions
    BY <1>1 DEF Optional
  <2> QED BY <2>1, <2>2
<1>3. CASE b = <<f.number, "IS_UID", TRUE>>
  BY <1>3
<1> QED BY <1>2, <1>3 DEF OtherAnnotations, When

\* Only the two branches of the primary key annotate a key.
LEMMA StateKeyIds ==
  ASSUME NEW d, NEW n, NEW o, NEW jt
  PROVE  /\ Annotated(StateAnnotations(d, n, o, jt), "PRIMARY_FIELD")
              = When(o.primary /\ jt \notin NotAState, {n})
         /\ Annotated(StateAnnotations(d, n, o, jt), "PRIMARY_FIELD_FIRST_UID")
              = When(o.firstUid /\ jt = "ATTRIBUTION_CHAIN", {n})
<1> DEFINE P == When(o.primary /\ jt \notin NotAState, {<<n, "PRIMARY_FIELD", TRUE>>})
           U == When(o.firstUid /\ jt = "ATTRIBUTION_CHAIN", {<<n, "PRIMARY_FIELD_FIRST_UID", TRUE>>})
           E == When(o.exclusive /\ d.exclusiveField = 0, {<<n, "EXCLUSIVE_STATE", TRUE>>})
           V == When(o.exclusive, {<<n, "DEFAULT_STATE", v>> : v \in o.default}
                                   \cup {<<n, "TRIGGER_STATE_RESET", v>> : v \in o.reset}
                                   \cup {<<n, "STATE_NESTED", v>> : v \in o.nested})
           key == {"PRIMARY_FIELD", "PRIMARY_FIELD_FIRST_UID"}
<1>1. StateAnnotations(d, n, o, jt) = P \cup U \cup E \cup V
  BY DEF StateAnnotations
<1>2. ASSUME NEW b \in E \cup V PROVE b[2] \notin key
  <2>1. \/ b = <<n, "EXCLUSIVE_STATE", TRUE>>
        \/ \E v \in o.default : b = <<n, "DEFAULT_STATE", v>>
        \/ \E v \in o.reset : b = <<n, "TRIGGER_STATE_RESET", v>>
        \/ \E v \in o.nested : b = <<n, "STATE_NESTED", v>>
    BY DEF When
  <2>2. \A id, v : b = <<n, id, v>> => b[2] = id
    OBVIOUS
  <2> HIDE DEF E, V
  <2>3. b[2] \in {"EXCLUSIVE_STATE", "DEFAULT_STATE", "TRIGGER_STATE_RESET", "STATE_NESTED"}
    BY <2>1, <2>2
  <2> QED BY <2>3
<1>3. ASSUME NEW b \in P PROVE b[1] = n /\ b[2] = "PRIMARY_FIELD"
  <2>1. b = <<n, "PRIMARY_FIELD", TRUE>>
    BY DEF When
  <2> HIDE DEF P
  <2> QED BY <2>1
<1>4. ASSUME NEW b \in U PROVE b[1] = n /\ b[2] = "PRIMARY_FIELD_FIRST_UID"
  <2>1. b = <<n, "PRIMARY_FIELD_FIRST_UID", TRUE>>
    BY DEF When
  <2> HIDE DEF U
  <2> QED BY <2>1
<1>5. /\ P # {} <=> o.primary /\ jt \notin NotAState
      /\ U # {} <=> o.firstUid /\ jt = "ATTRIBUTION_CHAIN"
  BY DEF When
<1> HIDE DEF P, U, E, V
<1>6. Annotated(StateAnnotations(d, n, o, jt), "PRIMARY_FIELD") = {b[1] : b \in P}
  BY <1>1, <1>2, <1>3, <1>4 DEF Annotated
<1>7. Annotated(StateAnnotations(d, n, o, jt), "PRIMARY_FIELD_FIRST_UID") = {b[1] : b \in U}
  BY <1>1, <1>2, <1>3, <1>4 DEF Annotated
<1> QED BY <1>3, <1>4, <1>5, <1>6, <1>7 DEF When

\* primaryFields after the state option o of field n.
KeyAfter(primaryFields, n, o, jt) ==
    primaryFields
    \o (IF o.primary /\ jt \notin NotAState THEN <<n>> ELSE <<>>)
    \o (IF o.firstUid /\ jt = "ATTRIBUTION_CHAIN" THEN <<FIRST_UID_IN_CHAIN_ID>> ELSE <<>>)

\* e has the key and the values of d.
SameRest(d, e) ==
  /\ e.primaryFields = d.primaryFields
  /\ e.defaultState = d.defaultState
  /\ e.triggerStateReset = d.triggerStateReset
  /\ e.nested = d.nested

\* e has the key and the values of d after the state option o of field n.
RestAfter(d, e, n, o, jt) ==
  /\ e.primaryFields = KeyAfter(d.primaryFields, n, o, jt)
  /\ e.defaultState = Override(o.exclusive, o.default, d.defaultState)
  /\ e.triggerStateReset = Override(o.exclusive, o.reset, d.triggerStateReset)
  /\ e.nested = Override(o.exclusive, o.nested, d.nested)

\* The rest of an AtomDecl after a field: its key and the values of its state.
LEMMA BuiltDeclRest ==
  ASSUME NEW a \in AtomProtos, NEW f \in FieldProtos, NEW d, IsDecl(d),
         NEW jt, jt = java_type(f, a.isUintAllowed)
  PROVE  /\ f.state = {} => SameRest(d, BuiltDecl(a, d, f))
         /\ f.state # {} /\ is_repeated_field(jt) =>
              /\ SameRest(d, BuiltDecl(a, d, f))
              /\ BuiltDecl(a, d, f).annotations = d.annotations
         /\ \A o \in f.state : ~is_repeated_field(jt) => RestAfter(d, BuiltDecl(a, d, f), f.number, o, jt)
<1>0. f.state \in Optional(StateOptions)
  BY DEF FieldProtos
<1> DEFINE c == [d EXCEPT !.fields = Append(@, jt)]
<1>1. /\ c.annotations = d.annotations /\ SameRest(d, c)
      /\ c = [fields |-> c.fields, annotations |-> c.annotations, primaryFields |-> c.primaryFields,
              exclusiveField |-> c.exclusiveField, defaultState |-> c.defaultState,
              triggerStateReset |-> c.triggerStateReset, nested |-> c.nested]
  BY SMTT(30) DEF IsDecl, SameRest
<1>2. BuiltDecl(a, d, f) = AnnotatedDecl(c, f, jt)
  BY DEF BuiltDecl
<1> HIDE DEF c
<1>3. CASE StateOnRepeated(f, jt)
  BY <1>1, <1>2, <1>3 DEF AnnotatedDecl, StateOnRepeated
<1>4. CASE ~StateOnRepeated(f, jt) /\ f.state = {}
  <2>1. BuiltDecl(a, d, f) = [c EXCEPT !.annotations = addAnnotations(@, OtherAnnotations(f))]
    BY <1>2, <1>4 DEF AnnotatedDecl
  <2>2. SameRest(c, BuiltDecl(a, d, f))
    BY <1>1, <2>1 DEF SameRest
  <2> QED BY <1>1, <1>4, <2>2 DEF SameRest
<1>5. CASE ~StateOnRepeated(f, jt) /\ f.state # {}
  <2>1. PICK o \in f.state : TRUE
    BY <1>5
  <2>2. \A p \in f.state : p = o
    BY <1>0, <2>1 DEF Optional
  <2>3. (CHOOSE p \in f.state : TRUE) = o
    BY <2>1, <2>2
  <2> DEFINE s == StateDecl(c, f.number, o, jt)
  <2>4. BuiltDecl(a, d, f) = [s EXCEPT !.annotations = addAnnotations(@, OtherAnnotations(f))]
    BY <1>2, <1>5, <2>3 DEF AnnotatedDecl
  <2>5. s = [fields |-> s.fields, annotations |-> s.annotations, primaryFields |-> s.primaryFields,
             exclusiveField |-> s.exclusiveField, defaultState |-> s.defaultState,
             triggerStateReset |-> s.triggerStateReset, nested |-> s.nested]
    BY DEF StateDecl
  <2>6. RestAfter(c, s, f.number, o, jt)
    BY DEF StateDecl, RestAfter, KeyAfter
  <2> HIDE DEF s
  <2>7. SameRest(s, BuiltDecl(a, d, f))
    BY <2>4, <2>5 DEF SameRest
  <2>8. RestAfter(d, BuiltDecl(a, d, f), f.number, o, jt)
    BY <1>1, <2>6, <2>7 DEF SameRest, RestAfter
  <2>9. ~is_repeated_field(jt)
    BY <1>5 DEF StateOnRepeated
  <2> QED BY <1>5, <2>2, <2>8, <2>9
<1> QED BY <1>3, <1>4, <1>5

-----------------------------------------------------------------------------
(* The primary key. *)

LEMMA ListedAppended ==
  ASSUME NEW s \in Seq(Nat), NEW n \in Nat
  PROVE  Listed(s \o <<n>>) = Listed(s) \cup {n} /\ s \o <<n>> \in Seq(Nat)
<1>1. /\ s \o <<n>> \in Seq(Nat) /\ Len(s \o <<n>>) = Len(s) + 1
      /\ \A k \in 1 .. Len(s) : (s \o <<n>>)[k] = s[k]
      /\ (s \o <<n>>)[Len(s) + 1] = n
  OBVIOUS
<1>2. DOMAIN (s \o <<n>>) = DOMAIN s \cup {Len(s) + 1}
  BY <1>1
<1> QED BY <1>1, <1>2 DEF Listed

\* Each branch of the primary key adds to both copies or to none, and the
\* annotations of other options, dropped or not, are no part of either.
LEMMA KeyStep ==
  ASSUME NEW a \in AtomProtos, NEW f \in FieldProtos, NEW d, IsDecl(d), KeyAgrees(d),
         NEW jt, jt = java_type(f, a.isUintAllowed), NEW e, e = BuiltDecl(a, d, f)
  PROVE  KeyAgrees(e)
<1> DEFINE other == OtherAnnotations(f)
<1>0. /\ f.number \in Nat \ {0} /\ f.state \in Optional(StateOptions)
      /\ FIRST_UID_IN_CHAIN_ID = 0
  BY DEF FieldProtos, FIRST_UID_IN_CHAIN_ID
<1>1. ASSUME NEW A, NEW id \in {"PRIMARY_FIELD", "PRIMARY_FIELD_FIRST_UID"}
      PROVE  Annotated(addAnnotations(A, other), id) = Annotated(A, id)
  <2>1. Annotated(other, id) = {}
    BY OtherIds DEF Annotated, FieldRestrictions
  <2> HIDE DEF other
  <2>2. Annotated(addAnnotations(A, other), id) = Annotated(A, id) \cup Annotated(other, id)
    BY AddedIds
  <2> QED BY <2>1, <2>2
<1>2. CASE f.state # {} /\ is_repeated_field(jt)
  <2>1. e.annotations = d.annotations /\ e.primaryFields = d.primaryFields
    BY <1>2, BuiltDeclRest DEF SameRest
  <2> QED BY <2>1 DEF KeyAgrees
<1>3. CASE f.state = {}
  <2>1. e.primaryFields = d.primaryFields /\ e.annotations = addAnnotations(d.annotations, other)
    BY <1>3, BuiltDeclRest, BuiltDeclParts DEF SameRest
  <2> HIDE DEF other
  <2> QED BY <1>1, <2>1 DEF KeyAgrees
<1>4. CASE f.state # {} /\ ~is_repeated_field(jt)
  <2>1. PICK o \in f.state : TRUE
    BY <1>4
  <2> DEFINE n == f.number
             p == o.primary /\ jt \notin NotAState
             u == o.firstUid /\ jt = "ATTRIBUTION_CHAIN"
             state == StateAnnotations(d, n, o, jt)
  <2>2. e.annotations = addAnnotations(addAnnotations(d.annotations, state), other)
    BY <1>4, <2>1, BuiltDeclParts
  <2>3. e.primaryFields = (d.primaryFields \o (IF p THEN <<n>> ELSE <<>>))
                              \o (IF u THEN <<FIRST_UID_IN_CHAIN_ID>> ELSE <<>>)
    <3>1. RestAfter(d, BuiltDecl(a, d, f), n, o, jt)
      BY <1>4, <2>1, BuiltDeclRest
    <3> QED BY <3>1 DEF RestAfter, KeyAfter
  <2>4. /\ Annotated(state, "PRIMARY_FIELD") = When(p, {n})
        /\ Annotated(state, "PRIMARY_FIELD_FIRST_UID") = When(u, {n})
    BY StateKeyIds DEF When
  <2> HIDE DEF other, state, p, u
  <2>5. /\ Annotated(e.annotations, "PRIMARY_FIELD")
             = Annotated(d.annotations, "PRIMARY_FIELD") \cup When(p, {n})
        /\ Annotated(e.annotations, "PRIMARY_FIELD_FIRST_UID")
             = Annotated(d.annotations, "PRIMARY_FIELD_FIRST_UID") \cup When(u, {n})
    <3>1. ASSUME NEW id \in {"PRIMARY_FIELD", "PRIMARY_FIELD_FIRST_UID"}
          PROVE  Annotated(e.annotations, id) = Annotated(d.annotations, id) \cup Annotated(state, id)
      <4>1. Annotated(addAnnotations(d.annotations, state), id)
              = Annotated(d.annotations, id) \cup Annotated(state, id)
        BY AddedIds
      <4> QED BY <1>1, <2>2, <4>1
    <3> QED BY <2>4, <3>1
  <2> DEFINE q == d.primaryFields \o (IF p THEN <<n>> ELSE <<>>)
  <2>6. d.primaryFields \in Seq(Nat)
    BY DEF KeyAgrees
  <2>7. q \in Seq(Nat) /\ Listed(q) = Listed(d.primaryFields) \cup When(p, {n})
    <3>1. CASE p
      BY <1>0, <2>6, <3>1, ListedAppended DEF When
    <3>2. CASE ~p
      <4>1. q = d.primaryFields
        BY <2>6, <3>2
      <4> QED BY <2>6, <3>2, <4>1 DEF When
    <3> QED BY <3>1, <3>2
  <2>8. e.primaryFields = q \o (IF u THEN <<FIRST_UID_IN_CHAIN_ID>> ELSE <<>>)
    BY <2>3
  <2> HIDE DEF q
  <2>9. /\ e.primaryFields \in Seq(Nat)
        /\ Listed(e.primaryFields) = Listed(q) \cup When(u, {FIRST_UID_IN_CHAIN_ID})
    <3>1. CASE u
      <4>1. e.primaryFields = q \o <<FIRST_UID_IN_CHAIN_ID>>
        BY <2>8, <3>1
      <4> QED BY <1>0, <2>7, <3>1, <4>1, ListedAppended DEF When
    <3>2. CASE ~u
      <4>1. e.primaryFields = q
        BY <2>7, <2>8, <3>2
      <4> QED BY <2>7, <3>2, <4>1 DEF When
    <3> QED BY <3>1, <3>2
  <2> QED BY <1>0, <2>5, <2>7, <2>9 DEF KeyAgrees, When
<1> QED BY <1>2, <1>3, <1>4

-----------------------------------------------------------------------------
(* The state. *)

\* The state annotations a field declares, with the values of its option.
LEMMA DeclaredState ==
  ASSUME NEW f \in FieldProtos, NEW b \in DeclaredFieldAnnotations(f), b[2] \in StateAnnotationIds
  PROVE  /\ b[1] = f.number
         /\ \E o \in f.state :
              /\ o.exclusive
              /\ b[2] = "DEFAULT_STATE" => b[3] \in o.default
              /\ b[2] = "TRIGGER_STATE_RESET" => b[3] \in o.reset
              /\ b[2] = "STATE_NESTED" => b[3] \in o.nested
<1> DEFINE n == f.number
<1>1. b[1] = n
  BY DeclaredAnnotationField
<1>2. b \notin OtherAnnotations(f)
  BY OtherIds DEF FieldRestrictions, StateAnnotationIds
<1>3. PICK o \in f.state : b \in DeclaredStateAnnotations(n, o)
  BY <1>2 DEF DeclaredFieldAnnotations, OtherAnnotations
<1>4. \/ b = <<n, "PRIMARY_FIELD", TRUE>> \/ b = <<n, "PRIMARY_FIELD_FIRST_UID", TRUE>>
      \/ o.exclusive /\ b = <<n, "EXCLUSIVE_STATE", TRUE>>
      \/ o.exclusive /\ \E v \in o.default : b = <<n, "DEFAULT_STATE", v>>
      \/ o.exclusive /\ \E v \in o.reset : b = <<n, "TRIGGER_STATE_RESET", v>>
      \/ o.exclusive /\ \E v \in o.nested : b = <<n, "STATE_NESTED", v>>
  <2>1. \/ b \in When(o.primary, {<<n, "PRIMARY_FIELD", TRUE>>})
        \/ b \in When(o.firstUid, {<<n, "PRIMARY_FIELD_FIRST_UID", TRUE>>})
        \/ b \in When(o.exclusive, {<<n, "EXCLUSIVE_STATE", TRUE>>}
                                   \cup {<<n, "DEFAULT_STATE", v>> : v \in o.default}
                                   \cup {<<n, "TRIGGER_STATE_RESET", v>> : v \in o.reset}
                                   \cup {<<n, "STATE_NESTED", v>> : v \in o.nested})
    BY <1>3 DEF DeclaredStateAnnotations
  <2> HIDE DEF n
  <2> QED BY <2>1 DEF When
<1> HIDE DEF n
<1>5. /\ o.exclusive
      /\ b[2] = "DEFAULT_STATE" => b[3] \in o.default
      /\ b[2] = "TRIGGER_STATE_RESET" => b[3] \in o.reset
      /\ b[2] = "STATE_NESTED" => b[3] \in o.nested
  <2>1. ASSUME NEW id, b = <<n, id, TRUE>> PROVE b[2] = id
    BY <2>1
  <2>2. ASSUME NEW id, NEW S, \E v \in S : b = <<n, id, v>> PROVE b[2] = id /\ b[3] \in S
    BY <2>2
  <2>3. CASE b = <<n, "PRIMARY_FIELD", TRUE>> \/ b = <<n, "PRIMARY_FIELD_FIRST_UID", TRUE>>
    BY <2>1, <2>3 DEF StateAnnotationIds
  <2>4. CASE o.exclusive /\ b = <<n, "EXCLUSIVE_STATE", TRUE>>
    BY <2>1, <2>4
  <2>5. CASE o.exclusive /\ \E v \in o.default : b = <<n, "DEFAULT_STATE", v>>
    BY <2>2, <2>5
  <2>6. CASE o.exclusive /\ \E v \in o.reset : b = <<n, "TRIGGER_STATE_RESET", v>>
    BY <2>2, <2>6
  <2>7. CASE o.exclusive /\ \E v \in o.nested : b = <<n, "STATE_NESTED", v>>
    BY <2>2, <2>7
  <2> QED BY <1>4, <2>3, <2>4, <2>5, <2>6, <2>7
<1> QED BY <1>1, <1>5 DEF n

\* A field without error keeps the state of the AtomDecl one: it adds state
\* annotations only if there are none, and then with the values it sets.
LEMMA StateStep ==
  ASSUME NEW a \in AtomProtos, NEW k \in DOMAIN a.fields, NEW f \in FieldProtos, f = a.fields[k],
         NEW d, IsDecl(d), StateAgrees(d),
         TypeAllowed(a, f), AnnotationsAllowed(a, k),
         d.exclusiveField = 0 <=> \A j \in 1 .. k - 1 : ~IsExclusive(a.fields[j]),
         \A b \in d.annotations : b[1] # f.number /\ b[1] # 0,
         NEW e, e = BuiltDecl(a, d, f)
  PROVE  StateAgrees(e)
<1> DEFINE jt == java_type(f, a.isUintAllowed)
<1>0. f.state \in Optional(StateOptions) /\ f.number \in Nat \ {0}
  BY DEF FieldProtos
<1>1. e.annotations = d.annotations \cup DeclaredFieldAnnotations(f)
  BY AllowedFieldBuilt
<1>2. \A j \in 1 .. k - 1 : IsExclusive(f) => ~IsExclusive(a.fields[j])
  BY DEF AnnotationsAllowed, StateAllowed, IsExclusive
<1>3. CASE IsExclusive(f)
  <2>1. PICK o \in f.state : o.exclusive
    BY <1>3 DEF IsExclusive
  <2>2. \A p \in f.state : p = o
    BY <1>0, <2>1 DEF Optional
  <2>3. d.exclusiveField = 0
    BY <1>2, <1>3
  <2>4. \A b \in d.annotations : b[2] \notin StateAnnotationIds
    BY <2>3 DEF StateAgrees
  <2>5. ~is_repeated_field(jt)
    <3>1. f.type = "AttributionNode" \/ ~f.repeated
      BY <2>1 DEF AnnotationsAllowed, StateAllowed
    <3> QED BY <3>1, AllowedJavaType
  <2>6. RestAfter(d, e, f.number, o, jt) /\ e.exclusiveField = f.number
    BY <2>1, <2>3, <2>5, BuiltDeclRest, BuiltDeclParts
  <2>7. o \in StateOptions
    BY <1>0, <2>1 DEF Optional
  <2>8. /\ \A v \in o.default : e.defaultState = v
        /\ \A v \in o.reset : e.triggerStateReset = v
        /\ \A v \in o.nested : e.nested = v
    <3>1. /\ \A u, w \in o.default : u = w
          /\ \A u, w \in o.reset : u = w
          /\ \A u, w \in o.nested : u = w
      BY <2>7 DEF StateOptions, Optional
    <3>2. /\ e.defaultState = Override(o.exclusive, o.default, d.defaultState)
          /\ e.triggerStateReset = Override(o.exclusive, o.reset, d.triggerStateReset)
          /\ e.nested = Override(o.exclusive, o.nested, d.nested)
      BY <2>6 DEF RestAfter
    <3>3. ASSUME NEW v \in o.default PROVE e.defaultState = v
      <4>1. (CHOOSE u \in o.default : TRUE) = v
        BY <3>1
      <4> QED BY <2>1, <3>2, <4>1 DEF Override
    <3>4. ASSUME NEW v \in o.reset PROVE e.triggerStateReset = v
      <4>1. (CHOOSE u \in o.reset : TRUE) = v
        BY <3>1
      <4> QED BY <2>1, <3>2, <4>1 DEF Override
    <3>5. ASSUME NEW v \in o.nested PROVE e.nested = v
      <4>1. (CHOOSE u \in o.nested : TRUE) = v
        BY <3>1
      <4> QED BY <2>1, <3>2, <4>1 DEF Override
    <3> QED BY <3>3, <3>4, <3>5
  <2>9. ASSUME NEW b \in e.annotations, b[2] \in StateAnnotationIds
        PROVE  /\ b[1] = e.exclusiveField
               /\ b[2] = "DEFAULT_STATE" => b[3] = e.defaultState
               /\ b[2] = "TRIGGER_STATE_RESET" => b[3] = e.triggerStateReset
               /\ b[2] = "STATE_NESTED" => b[3] = e.nested
    <3>1. b \in DeclaredFieldAnnotations(f)
      BY <1>1, <2>4, <2>9
    <3>2. /\ b[1] = f.number
          /\ b[2] = "DEFAULT_STATE" => b[3] \in o.default
          /\ b[2] = "TRIGGER_STATE_RESET" => b[3] \in o.reset
          /\ b[2] = "STATE_NESTED" => b[3] \in o.nested
      BY <2>2, <2>9, <3>1, DeclaredState
    <3> QED BY <2>6, <2>8, <3>2
  <2> QED BY <2>9 DEF StateAgrees, StateAnnotationIds
<1>4. CASE ~IsExclusive(f)
  <2>1. \A b \in DeclaredFieldAnnotations(f) : b[2] \notin StateAnnotationIds
    BY <1>4, DeclaredState DEF IsExclusive
  <2>2. /\ e.exclusiveField = d.exclusiveField /\ e.defaultState = d.defaultState
        /\ e.triggerStateReset = d.triggerStateReset /\ e.nested = d.nested
    <3>1. CASE f.state = {}
      BY <3>1, BuiltDeclRest, BuiltDeclParts DEF SameRest
    <3>2. CASE f.state # {}
      <4>1. PICK o \in f.state : ~o.exclusive
        BY <1>4, <3>2 DEF IsExclusive
      <4>2. ~is_repeated_field(jt)
        <5>1. f.type = "AttributionNode" \/ ~f.repeated
          BY <4>1 DEF AnnotationsAllowed, StateAllowed
        <5> QED BY <5>1, AllowedJavaType
      <4>3. RestAfter(d, e, f.number, o, jt) /\ e.exclusiveField = d.exclusiveField
        BY <4>1, <4>2, BuiltDeclRest, BuiltDeclParts
      <4> QED BY <4>1, <4>3 DEF RestAfter, Override
    <3> QED BY <3>1, <3>2
  <2> QED BY <1>1, <2>1, <2>2 DEF StateAgrees, StateAnnotationIds
<1> QED BY <1>3, <1>4

-----------------------------------------------------------------------------
(* collate_atom in one piece. *)

\* Every field adds its java type to the AtomDecl.
LEMMA BuiltDeclFields ==
  ASSUME NEW a \in AtomProtos, NEW f \in FieldProtos, NEW d, IsDecl(d)
  PROVE  BuiltDecl(a, d, f).fields = Append(d.fields, java_type(f, a.isUintAllowed))
<1> DEFINE jt == java_type(f, a.isUintAllowed)
           c == [d EXCEPT !.fields = Append(@, jt)]
           s == IF f.state = {} THEN c ELSE StateDecl(c, f.number, CHOOSE o \in f.state : TRUE, jt)
<1>1. c.fields = Append(d.fields, jt) /\ IsDecl(c)
  BY DEF IsDecl
<1>2. BuiltDecl(a, d, f) = AnnotatedDecl(c, f, jt)
  BY DEF BuiltDecl
<1> HIDE DEF c
<1>3. /\ s.fields = c.fields
      /\ s = [fields |-> s.fields, annotations |-> s.annotations, primaryFields |-> s.primaryFields,
              exclusiveField |-> s.exclusiveField, defaultState |-> s.defaultState,
              triggerStateReset |-> s.triggerStateReset, nested |-> s.nested]
  BY <1>1 DEF IsDecl, StateDecl
<1>4. BuiltDecl(a, d, f) = IF StateOnRepeated(f, jt) THEN c
                           ELSE [s EXCEPT !.annotations = addAnnotations(@, OtherAnnotations(f))]
  BY <1>2 DEF AnnotatedDecl
<1> HIDE DEF s, jt
<1>5. BuiltDecl(a, d, f).fields = c.fields
  BY <1>3, <1>4
<1> QED BY <1>1, <1>5 DEF jt

\* The recursive definition of DeclAfter, as far as field n.
DeclAfterDef(a, d, n) ==
  d = [k \in 0 .. n |-> IF k = 0 THEN EmptyDecl ELSE BuiltDecl(a, d[k - 1], a.fields[k])]

\* That recursion has a solution.
LEMMA DeclAfterExists ==
  ASSUME NEW a \in AtomProtos
  PROVE  \A n \in Nat : \E d : DeclAfterDef(a, d, n)
<1> DEFINE S == {n \in Nat : \E d : DeclAfterDef(a, d, n)}
<1>1. 0 \in S
  <2> DEFINE d == [k \in 0 .. 0 |-> EmptyDecl]
  <2>1. DeclAfterDef(a, d, 0)
    BY DEF DeclAfterDef
  <2> QED BY <2>1
<1>2. ASSUME NEW n \in Nat, n \in S PROVE n + 1 \in S
  <2>1. PICK d : DeclAfterDef(a, d, n)
    BY <1>2
  <2> DEFINE e == [k \in 0 .. n + 1 |-> IF k <= n THEN d[k] ELSE BuiltDecl(a, d[n], a.fields[n + 1])]
  <2>2. ASSUME NEW k \in 0 .. n + 1
        PROVE  e[k] = IF k = 0 THEN EmptyDecl ELSE BuiltDecl(a, e[k - 1], a.fields[k])
    <3>1. CASE k <= n
      BY <2>1, <3>1 DEF DeclAfterDef
    <3>2. CASE k = n + 1
      BY <2>1, <3>2 DEF DeclAfterDef
    <3> QED BY <3>1, <3>2
  <2>3. DeclAfterDef(a, e, n + 1)
    BY <2>2 DEF DeclAfterDef
  <2> QED BY <2>3
<1> HIDE DEF S
<1>3. \A n \in Nat : n \in S
  BY <1>1, <1>2, NatInductionOnSets
<1> QED BY <1>3 DEF S

\* The AtomDecl after each field, from the one before it.
LEMMA DeclAfterEach ==
  ASSUME NEW a \in AtomProtos
  PROVE  /\ DeclAfter(a)[0] = EmptyDecl
         /\ \A k \in 1 .. Len(a.fields) :
               DeclAfter(a)[k] = BuiltDecl(a, DeclAfter(a)[k - 1], a.fields[k])
<1> DEFINE n == Len(a.fields)
<1>1. n \in Nat
  BY AtomFacts
<1>2. DeclAfter(a) = CHOOSE d : DeclAfterDef(a, d, n)
  BY DEF DeclAfter, DeclAfterDef
<1>3. DeclAfterDef(a, DeclAfter(a), n)
  BY <1>1, <1>2, DeclAfterExists
<1> QED BY <1>1, <1>3 DEF DeclAfterDef

\* The recursive definition of the error count in collate_atom, as far as field n.
ErrorsAfterDef(a, e, n) ==
  e = [k \in 0 .. n |-> IF k = 0 THEN 0 ELSE e[k - 1] + FieldErrors(a, DeclAfter(a)[k - 1], k)]

ErrorsAfter(a) == CHOOSE e : ErrorsAfterDef(a, e, Len(a.fields))

\* The error count is a partial sum of the errors of the fields.
LEMMA ErrorsAfterExists ==
  ASSUME NEW a \in AtomProtos
  PROVE  \E e : ErrorsAfterDef(a, e, Len(a.fields))
<1> DEFINE n == Len(a.fields)
           g == [k \in 1 .. n |-> FieldErrors(a, DeclAfter(a)[k - 1], k)]
<1>1. n \in Nat
  BY AtomFacts
<1>2. PICK s : PartialSumsOf(g, n, s)
  BY <1>1, PartialSumsExist
<1>3. \A k \in 0 .. n : k # 0 => g[k] = FieldErrors(a, DeclAfter(a)[k - 1], k)
  BY <1>1
<1> HIDE DEF g
<1>4. \A k \in 0 .. n : s[k] = IF k = 0 THEN 0 ELSE s[k - 1] + FieldErrors(a, DeclAfter(a)[k - 1], k)
  BY <1>1, <1>2, <1>3 DEF PartialSumsOf
<1>5. s = [k \in 0 .. n |-> IF k = 0 THEN 0 ELSE s[k - 1] + FieldErrors(a, DeclAfter(a)[k - 1], k)]
  BY <1>2, <1>4 DEF PartialSumsOf
<1> QED BY <1>5 DEF ErrorsAfterDef

\* What collate_atom returns, its recursive functions unfolded once.
LEMMA CollateAtomUnfolded ==
  ASSUME NEW a \in AtomProtos
  PROVE  /\ ErrorsAfter(a)[0] = 0
         /\ \A k \in 1 .. Len(a.fields) :
               ErrorsAfter(a)[k] = ErrorsAfter(a)[k - 1] + FieldErrors(a, DeclAfter(a)[k - 1], k)
         /\ collate_atom(a) =
              [errorCount |-> ErrorsAfter(a)[Len(a.fields)],
               signature  |-> [k \in 1 .. Len(a.fields) |-> FieldSignatureType(a, a.fields[k])],
               decl       |-> DeclAfter(a)[Len(a.fields)]]
<1>1. Len(a.fields) \in Nat
  BY AtomFacts
<1>2. ErrorsAfterDef(a, ErrorsAfter(a), Len(a.fields))
  BY <1>1, ErrorsAfterExists DEF ErrorsAfter
<1>3. collate_atom(a) =
        [errorCount |-> ErrorsAfter(a)[Len(a.fields)],
         signature  |-> [k \in 1 .. Len(a.fields) |-> FieldSignatureType(a, a.fields[k])],
         decl       |-> DeclAfter(a)[Len(a.fields)]]
  <2>1. ErrorsAfter(a) = CHOOSE e : e = [k \in 0 .. Len(a.fields) |->
            IF k = 0 THEN 0 ELSE e[k - 1] + FieldErrors(a, DeclAfter(a)[k - 1], k)]
    BY DEF ErrorsAfter, ErrorsAfterDef
  <2> QED BY <2>1, Zenon DEF collate_atom
<1>4. /\ ErrorsAfter(a)[0] = 0
      /\ \A k \in 1 .. Len(a.fields) :
            ErrorsAfter(a)[k] = ErrorsAfter(a)[k - 1] + FieldErrors(a, DeclAfter(a)[k - 1], k)
  BY <1>1, <1>2 DEF ErrorsAfterDef
<1> QED BY <1>3, <1>4

\* The rules of field k of an atom.
FieldAllowed(a, k) ==
  NumberAllowed(a, k) /\ TypeAllowed(a, a.fields[k]) /\ PositionAllowed(a, k) /\ AnnotationsAllowed(a, k)

\* Every annotation is under the number of a field.
Numbered(annotations) == \A x \in annotations : x[1] \in Nat

\* A field leaves annotations under its own number only, in rejected atoms too.
LEMMA NumberedStep ==
  ASSUME NEW a \in AtomProtos, NEW f \in FieldProtos, NEW d, IsDecl(d), Numbered(d.annotations)
  PROVE  Numbered(BuiltDecl(a, d, f).annotations)
<1> DEFINE jt == java_type(f, a.isUintAllowed)
           b == BuiltDecl(a, d, f)
<1>1. ASSUME NEW old, NEW new, Numbered(old), Numbered(new)
      PROVE  Numbered(addAnnotations(old, new))
  BY <1>1 DEF Numbered, addAnnotations
<1>2. f.number \in Nat
  BY DEF FieldProtos
<1>3. Numbered(OtherAnnotations(f))
  <2>1. ASSUME NEW x \in OtherAnnotations(f) PROVE x[1] = f.number
    <3>1. PICK id : x = <<f.number, id, TRUE>>
      BY DEF OtherAnnotations, When
    <3> QED BY <3>1
  <2> QED BY <1>2, <2>1 DEF Numbered
<1>4. ASSUME NEW o PROVE Numbered(StateAnnotations(d, f.number, o, jt))
  <2>1. ASSUME NEW x \in StateAnnotations(d, f.number, o, jt) PROVE x[1] = f.number
    <3>1. PICK id, v : x = <<f.number, id, v>>
      BY DEF StateAnnotations, When
    <3> QED BY <3>1
  <2> QED BY <1>2, <2>1 DEF Numbered
<1>5. CASE f.state = {}
  <2>1. b.annotations = addAnnotations(d.annotations, OtherAnnotations(f))
    BY <1>5, BuiltDeclParts
  <2> QED BY <1>1, <1>3, <2>1
<1>6. CASE f.state # {} /\ is_repeated_field(jt)
  <2>1. b.annotations = d.annotations
    BY <1>6, BuiltDeclRest
  <2> QED BY <2>1
<1>7. CASE f.state # {} /\ ~is_repeated_field(jt)
  <2>1. PICK o \in f.state : TRUE
    BY <1>7
  <2> DEFINE s == StateAnnotations(d, f.number, o, jt)
  <2>2. b.annotations = addAnnotations(addAnnotations(d.annotations, s), OtherAnnotations(f))
    BY <1>7, <2>1, BuiltDeclParts
  <2>3. Numbered(s)
    BY <1>4
  <2> HIDE DEF s
  <2>4. Numbered(addAnnotations(d.annotations, s))
    BY <1>1, <2>3
  <2> QED BY <1>1, <1>3, <2>2, <2>4
<1> QED BY <1>5, <1>6, <1>7

\* What the first k fields leave: d is the AtomDecl and errors their count.
FieldsCollated(a, k, d, errors) ==
  /\ IsDecl(d) /\ KeyAgrees(d) /\ Numbered(d.annotations) /\ errors \in Nat
  /\ d.fields = [j \in 1 .. k |-> java_type(a.fields[j], a.isUintAllowed)]
  /\ errors = 0 <=> \A j \in 1 .. k : FieldAllowed(a, j)
  /\ errors = 0 =>
       /\ d.annotations = UNION {DeclaredFieldAnnotations(a.fields[j]) : j \in 1 .. k}
       /\ d.exclusiveField = 0 <=> \A j \in 1 .. k : ~IsExclusive(a.fields[j])

\* No field, no annotation, no error.
LEMMA NoFieldCollated ==
  ASSUME NEW a \in AtomProtos
  PROVE  FieldsCollated(a, 0, EmptyDecl, 0)
<1>1. IsDecl(EmptyDecl) /\ KeyAgrees(EmptyDecl) /\ Numbered(EmptyDecl.annotations)
  BY DEF IsDecl, EmptyDecl, KeyAgrees, Annotated, Listed, Numbered
<1>2. EmptyDecl.fields = <<>> /\ EmptyDecl.annotations = {} /\ EmptyDecl.exclusiveField = 0
  BY DEF EmptyDecl
<1>3. /\ EmptyDecl.fields = [j \in 1 .. 0 |-> java_type(a.fields[j], a.isUintAllowed)]
      /\ EmptyDecl.annotations = UNION {DeclaredFieldAnnotations(a.fields[j]) : j \in 1 .. 0}
  BY <1>2
<1> QED BY <1>1, <1>2, <1>3 DEF FieldsCollated

\* One field more: its errors are none exactly when it obeys the rules.
LEMMA NextFieldCollated ==
  ASSUME NEW a \in AtomProtos, NEW k \in 1 .. Len(a.fields), NEW d, NEW errors,
         FieldsCollated(a, k - 1, d, errors)
  PROVE  FieldsCollated(a, k, BuiltDecl(a, d, a.fields[k]), errors + FieldErrors(a, d, k))
<1> DEFINE f == a.fields[k]
           jt == java_type(f, a.isUintAllowed)
           e == AnnotationErrors(a, d, f, jt)
           n == FieldErrors(a, d, k)
           b == BuiltDecl(a, d, f)
<1>0. /\ f \in FieldProtos /\ k \in DOMAIN a.fields /\ a.isUintAllowed \in BOOLEAN
      /\ f.number \in Nat \ {0} /\ k \in Nat /\ k - 1 \in Nat
      /\ IsDecl(d) /\ KeyAgrees(d) /\ Numbered(d.annotations) /\ errors \in Nat
      /\ 1 .. k = (1 .. k - 1) \cup {k}
  <2>1. Len(a.fields) \in Nat /\ DOMAIN a.fields = 1 .. Len(a.fields) /\ f \in FieldProtos
    BY AtomFacts
  <2>2. k \in Nat /\ k - 1 \in Nat /\ 1 .. k = (1 .. k - 1) \cup {k}
    BY <2>1
  <2>3. f.number \in Nat \ {0}
    BY <2>1 DEF FieldProtos
  <2>4. IsDecl(d) /\ KeyAgrees(d) /\ Numbered(d.annotations) /\ errors \in Nat
    BY DEF FieldsCollated
  <2> QED BY <2>1, <2>2, <2>3, <2>4, AtomFacts
<1>1. n = Count(f.number # k) + TypeError(a, f) + PositionError(a, f) + e
  BY DEF FieldErrors
<1>2. /\ Count(f.number # k) \in Nat /\ (Count(f.number # k) = 0 <=> NumberAllowed(a, k))
      /\ TypeError(a, f) \in Nat /\ (TypeError(a, f) = 0 <=> TypeAllowed(a, f))
      /\ PositionError(a, f) \in Nat /\ (PositionError(a, f) = 0 <=> PositionAllowed(a, k))
      /\ e \in Nat
  BY <1>0, TypeErrorIffForbidden, PositionErrorIffForbidden, AnnotationErrorsIffForbidden
     DEF Count, NumberAllowed
<1>3. IsDecl(b) /\ KeyAgrees(b) /\ Numbered(b.annotations)
  BY <1>0, BuiltDeclParts, KeyStep, NumberedStep
<1>4. b.fields = [j \in 1 .. k |-> java_type(a.fields[j], a.isUintAllowed)]
  <2>1. b.fields = Append(d.fields, jt)
    BY <1>0, BuiltDeclFields
  <2>2. d.fields = [j \in 1 .. k - 1 |-> java_type(a.fields[j], a.isUintAllowed)]
    BY DEF FieldsCollated
  <2>3. Len(d.fields) = k - 1
    BY <1>0, <2>2
  <2> HIDE DEF jt, b
  <2>4. Append(d.fields, jt) = [j \in 1 .. k |-> IF j = k THEN jt ELSE d.fields[j]]
    BY <1>0, <2>3
  <2>5. ASSUME NEW j \in 1 .. k
        PROVE  (IF j = k THEN jt ELSE d.fields[j]) = java_type(a.fields[j], a.isUintAllowed)
    BY <1>0, <2>2 DEF jt
  <2>6. Append(d.fields, jt) = [j \in 1 .. k |-> java_type(a.fields[j], a.isUintAllowed)]
    BY <2>4, <2>5
  <2> QED BY <2>1, <2>6
<1> HIDE DEF b, e, n
<1>5. CASE errors # 0
  <2>1. errors + n \in Nat /\ errors + n # 0
    BY <1>0, <1>1, <1>2, <1>5
  <2>2. ~ \A j \in 1 .. k : FieldAllowed(a, j)
    BY <1>0, <1>5 DEF FieldsCollated
  <2> QED BY <1>3, <1>4, <2>1, <2>2 DEF FieldsCollated, b, n
<1>6. CASE errors = 0
  <2>1. /\ \A j \in 1 .. k - 1 : FieldAllowed(a, j)
        /\ d.annotations = UNION {DeclaredFieldAnnotations(a.fields[j]) : j \in 1 .. k - 1}
        /\ d.exclusiveField = 0 <=> \A j \in 1 .. k - 1 : ~IsExclusive(a.fields[j])
    BY <1>6 DEF FieldsCollated
  <2>2. TypeAllowed(a, f) => (e = 0 <=> AnnotationsAllowed(a, k))
    BY <1>0, <2>1, AnnotationErrorsIffForbidden DEF e
  <2>3. n \in Nat /\ (n = 0 <=> FieldAllowed(a, k))
    BY <1>1, <1>2, <2>2 DEF FieldAllowed
  <2>4. errors + n \in Nat /\ (errors + n = 0 <=> \A j \in 1 .. k : FieldAllowed(a, j))
    BY <1>0, <1>6, <2>1, <2>3
  <2>5. ASSUME FieldAllowed(a, k)
        PROVE  /\ b.annotations = UNION {DeclaredFieldAnnotations(a.fields[j]) : j \in 1 .. k}
               /\ b.exclusiveField = 0 <=> \A j \in 1 .. k : ~IsExclusive(a.fields[j])
    <3>1. \A c \in d.annotations : c[1] # f.number
      <4> SUFFICES ASSUME NEW j \in 1 .. k - 1, NEW c \in DeclaredFieldAnnotations(a.fields[j])
                   PROVE  c[1] # f.number
        BY <2>1
      <4>1. a.fields[j] \in FieldProtos /\ a.fields[j].number = j /\ f.number = k
        BY <1>0, <2>1, <2>5, AtomFacts DEF FieldAllowed, NumberAllowed
      <4>2. c[1] = j
        BY <4>1, DeclaredAnnotationField
      <4> QED BY <1>0, <4>1, <4>2
    <3>2. /\ b.annotations = d.annotations \cup DeclaredFieldAnnotations(f)
          /\ b.exclusiveField = 0 <=> d.exclusiveField = 0 /\ ~IsExclusive(f)
      <4>1. TypeAllowed(a, f) /\ AnnotationsAllowed(a, k)
        BY <2>5 DEF FieldAllowed
      <4>2. k \in DOMAIN a.fields /\ f \in FieldProtos /\ IsDecl(d)
        BY <1>0
      <4>3. d.exclusiveField = 0 <=> \A j \in 1 .. k - 1 : ~IsExclusive(a.fields[j])
        BY <2>1
      <4> DEFINE g == f
                 t == jt
      <4>4. g = a.fields[k] /\ t = java_type(g, a.isUintAllowed) /\ b = BuiltDecl(a, d, g)
        BY DEF b
      <4> HIDE DEF g, t
      <4> QED BY <3>1, <4>1, <4>2, <4>3, <4>4, AllowedFieldBuilt
    <3> QED BY <1>0, <2>1, <3>2
  <2>6. errors + n = 0 => FieldAllowed(a, k)
    BY <1>0, <2>4
  <2> QED BY <1>3, <1>4, <2>4, <2>5, <2>6 DEF FieldsCollated, b, n
<1> QED BY <1>5, <1>6

\* What collate_atom has of the first k fields, by induction on k.
LEMMA FieldsCollatedEach ==
  ASSUME NEW a \in AtomProtos
  PROVE  \A k \in 0 .. Len(a.fields) : FieldsCollated(a, k, DeclAfter(a)[k], ErrorsAfter(a)[k])
<1> DEFINE S == {k \in Nat : k <= Len(a.fields)
                                => FieldsCollated(a, k, DeclAfter(a)[k], ErrorsAfter(a)[k])}
<1>0. Len(a.fields) \in Nat
  BY AtomFacts
<1>1. 0 \in S
  BY NoFieldCollated, DeclAfterEach, CollateAtomUnfolded
<1>2. ASSUME NEW k \in Nat, k \in S PROVE k + 1 \in S
  <2> SUFFICES ASSUME k + 1 <= Len(a.fields)
               PROVE  FieldsCollated(a, k + 1, DeclAfter(a)[k + 1], ErrorsAfter(a)[k + 1])
    BY <1>2
  <2>1. k + 1 \in 1 .. Len(a.fields) /\ (k + 1) - 1 = k /\ k <= Len(a.fields)
    BY <1>0
  <2>2. FieldsCollated(a, k, DeclAfter(a)[k], ErrorsAfter(a)[k])
    BY <1>2, <2>1
  <2>3. /\ DeclAfter(a)[k + 1] = BuiltDecl(a, DeclAfter(a)[k], a.fields[k + 1])
        /\ ErrorsAfter(a)[k + 1] = ErrorsAfter(a)[k] + FieldErrors(a, DeclAfter(a)[k], k + 1)
    BY <2>1, DeclAfterEach, CollateAtomUnfolded
  <2> QED BY <2>1, <2>2, <2>3, NextFieldCollated
<1> HIDE DEF S
<1>3. \A k \in Nat : k \in S
  BY <1>1, <1>2, NatInductionOnSets
<1> QED BY <1>0, <1>3 DEF S

\* The annotations of the primary key a field declares.
LEMMA DeclaredKey ==
  ASSUME NEW f \in FieldProtos
  PROVE  /\ \A b \in DeclaredFieldAnnotations(f) :
              b[2] \in {"PRIMARY_FIELD", "PRIMARY_FIELD_FIRST_UID"}
                => \E o \in f.state : o.primary \/ o.firstUid
         /\ \A o \in f.state :
              /\ o.primary => <<f.number, "PRIMARY_FIELD", TRUE>> \in DeclaredFieldAnnotations(f)
              /\ o.firstUid => <<f.number, "PRIMARY_FIELD_FIRST_UID", TRUE>> \in DeclaredFieldAnnotations(f)
<1> DEFINE n == f.number
           state == UNION {DeclaredStateAnnotations(n, o) : o \in f.state}
           rest == {<<n, r, TRUE>> : r \in UNION f.restriction} \cup When(f.isUid, {<<n, "IS_UID", TRUE>>})
<1>1. DeclaredFieldAnnotations(f) = state \cup rest
  BY DEF DeclaredFieldAnnotations
<1>2. rest = OtherAnnotations(f)
  BY DEF OtherAnnotations
<1>3. \A b \in rest : b[2] \in FieldRestrictions \cup {"IS_UID"}
  BY <1>2, OtherIds
<1>4. ASSUME NEW o \in f.state, ~o.primary, ~o.firstUid, NEW b \in DeclaredStateAnnotations(n, o)
      PROVE  b[2] \in StateAnnotationIds
  <2>1. \/ b = <<n, "EXCLUSIVE_STATE", TRUE>>
        \/ \E v \in o.default : b = <<n, "DEFAULT_STATE", v>>
        \/ \E v \in o.reset : b = <<n, "TRIGGER_STATE_RESET", v>>
        \/ \E v \in o.nested : b = <<n, "STATE_NESTED", v>>
    BY <1>4 DEF DeclaredStateAnnotations, When
  <2>2. \A id, v : b = <<n, id, v>> => b[2] = id
    OBVIOUS
  <2> QED BY <2>1, <2>2 DEF StateAnnotationIds
<1>5. \A o \in f.state :
        /\ o.primary => <<n, "PRIMARY_FIELD", TRUE>> \in DeclaredStateAnnotations(n, o)
        /\ o.firstUid => <<n, "PRIMARY_FIELD_FIRST_UID", TRUE>> \in DeclaredStateAnnotations(n, o)
  BY DEF DeclaredStateAnnotations, When
<1>6. \A o \in f.state : DeclaredStateAnnotations(n, o) \subseteq state
  OBVIOUS
<1> HIDE DEF rest
<1>7. ASSUME NEW b \in DeclaredFieldAnnotations(f),
             b[2] \in {"PRIMARY_FIELD", "PRIMARY_FIELD_FIRST_UID"}
      PROVE  \E o \in f.state : o.primary \/ o.firstUid
  <2>1. b \in state
    BY <1>1, <1>3, <1>7 DEF FieldRestrictions
  <2>2. PICK o \in f.state : b \in DeclaredStateAnnotations(n, o)
    BY <2>1
  <2> QED BY <1>4, <1>7, <2>2 DEF StateAnnotationIds
<1> HIDE DEF state
<1> QED BY <1>1, <1>5, <1>6, <1>7

\* What collate_atom returns to collate_atoms: no error exactly for a well
\* formed atom, and then what the proto declares; the AtomDecl tells whether
\* the atom has a primary key and an exclusive field.
LEMMA CollateAtomReturns ==
  ASSUME NEW a \in AtomProtos, NEW c, c = collate_atom(a)
  PROVE  /\ c.errorCount \in Nat
         /\ c.errorCount = 0 <=> WellFormed(a)
         /\ DOMAIN c.signature = 1 .. Len(a.fields) /\ c.signature \in Seq(JavaTypes)
         /\ IsDecl(c.decl) /\ \A x \in c.decl.annotations : x[1] \in Nat
         /\ c.decl.fields = [k \in 1 .. Len(a.fields) |-> java_type(a.fields[k], a.isUintAllowed)]
         /\ WellFormed(a) =>
              /\ c.signature = DeclaredSignature(a)
              /\ c.decl.annotations = DeclaredAnnotations(a)
              /\ c.decl.exclusiveField = 0 <=> \A k \in DOMAIN a.fields : ~IsExclusive(a.fields[k])
              /\ c.decl.primaryFields = <<>>
                   <=> \A k \in DOMAIN a.fields : \A o \in a.fields[k].state : ~o.primary /\ ~o.firstUid
<1> DEFINE n == Len(a.fields)
           d == DeclAfter(a)[n]
           e == ErrorsAfter(a)[n]
           s == [k \in 1 .. n |-> FieldSignatureType(a, a.fields[k])]
<1>0. /\ n \in Nat /\ DOMAIN a.fields = 1 .. n
      /\ \A k \in 1 .. n : a.fields[k] \in FieldProtos /\ a.fields[k].bytes \in BOOLEAN
      /\ a.isUintAllowed \in BOOLEAN
  BY AtomFacts DEF FieldProtos
<1>1. c.errorCount = e /\ c.decl = d /\ c.signature = s
  <2>1. c = [errorCount |-> e, signature |-> s, decl |-> d]
    BY CollateAtomUnfolded
  <2> HIDE DEF e, s, d
  <2> QED BY <2>1
<1>2. FieldsCollated(a, n, d, e)
  BY <1>0, FieldsCollatedEach
<1> HIDE DEF d, e
<1>3. e = 0 <=> WellFormed(a)
  BY <1>0, <1>2 DEF FieldsCollated, WellFormed, FieldAllowed
<1>4. s \in Seq(JavaTypes)
  <2>1. \A k \in 1 .. n : s[k] \in JavaTypes
    BY <1>0, JavaTypeInTypes DEF FieldSignatureType
  <2> HIDE DEF s
  <2>2. s = [k \in 1 .. n |-> s[k]]
    BY DEF s
  <2> QED BY <1>0, <2>1, <2>2
<1>5. ASSUME WellFormed(a)
      PROVE  /\ s = DeclaredSignature(a)
             /\ d.annotations = DeclaredAnnotations(a)
             /\ d.exclusiveField = 0 <=> \A k \in DOMAIN a.fields : ~IsExclusive(a.fields[k])
             /\ d.primaryFields = <<>>
                  <=> \A k \in DOMAIN a.fields : \A o \in a.fields[k].state : ~o.primary /\ ~o.firstUid
  <2>1. \A k \in 1 .. n : FieldSignatureType(a, a.fields[k]) = ArgumentType(a.fields[k])
    <3> SUFFICES ASSUME NEW k \in 1 .. n
                 PROVE  FieldSignatureType(a, a.fields[k]) = ArgumentType(a.fields[k])
      OBVIOUS
    <3>1. TypeAllowed(a, a.fields[k])
      BY <1>0, <1>5 DEF WellFormed
    <3>2. a.fields[k] \in FieldProtos
      BY <1>0
    <3> QED BY <3>1, <3>2, AllowedJavaType DEF FieldSignatureType
  <2>2. s = DeclaredSignature(a)
    BY <1>0, <2>1 DEF DeclaredSignature
  <2>3. /\ d.annotations = DeclaredAnnotations(a)
        /\ d.exclusiveField = 0 <=> \A k \in DOMAIN a.fields : ~IsExclusive(a.fields[k])
    BY <1>0, <1>2, <1>3, <1>5 DEF FieldsCollated, DeclaredAnnotations
  <2>4. d.primaryFields = <<>> <=> Listed(d.primaryFields) = {}
    <3>1. d.primaryFields \in Seq(Nat)
      BY <1>2 DEF FieldsCollated, KeyAgrees
    <3> DEFINE p == d.primaryFields
    <3> HIDE DEF p
    <3>2. Len(p) \in Nat /\ DOMAIN p = 1 .. Len(p)
      BY <3>1 DEF p
    <3>3. p = <<>> <=> Len(p) = 0
      BY <3>1, EmptySeq DEF p
    <3>4. Len(p) = 0 <=> DOMAIN p = {}
      <4> DEFINE m == Len(p)
      <4>1. m \in Nat => (m = 0 <=> 1 .. m = {})
        <5> HIDE DEF m
        <5> QED OBVIOUS
      <4> QED BY <3>2, <4>1
    <3>5. DOMAIN p = {} <=> Listed(p) = {}
      BY DEF Listed
    <3> QED BY <3>3, <3>4, <3>5 DEF p
  <2>5. Listed(d.primaryFields) = {}
          <=> \A b \in d.annotations : b[2] \notin {"PRIMARY_FIELD", "PRIMARY_FIELD_FIRST_UID"}
    <3>1. /\ Annotated(d.annotations, "PRIMARY_FIELD") = Listed(d.primaryFields) \ {FIRST_UID_IN_CHAIN_ID}
          /\ Annotated(d.annotations, "PRIMARY_FIELD_FIRST_UID") # {}
               <=> FIRST_UID_IN_CHAIN_ID \in Listed(d.primaryFields)
      BY <1>2 DEF FieldsCollated, KeyAgrees
    <3>2. Listed(d.primaryFields) = {} <=> /\ Annotated(d.annotations, "PRIMARY_FIELD") = {}
                                          /\ Annotated(d.annotations, "PRIMARY_FIELD_FIRST_UID") = {}
      BY <3>1
    <3> QED BY <3>2 DEF Annotated
  <2>6. (\E b \in DeclaredAnnotations(a) : b[2] \in {"PRIMARY_FIELD", "PRIMARY_FIELD_FIRST_UID"})
          <=> \E k \in DOMAIN a.fields : \E o \in a.fields[k].state : o.primary \/ o.firstUid
    <3>1. ASSUME NEW b \in DeclaredAnnotations(a),
                 b[2] \in {"PRIMARY_FIELD", "PRIMARY_FIELD_FIRST_UID"}
          PROVE  \E k \in DOMAIN a.fields : \E o \in a.fields[k].state : o.primary \/ o.firstUid
      BY <1>0, <3>1, DeclaredKey, ZenonT(60) DEF DeclaredAnnotations
    <3>2. ASSUME NEW k \in DOMAIN a.fields, NEW o \in a.fields[k].state, o.primary \/ o.firstUid
          PROVE  \E b \in DeclaredAnnotations(a) : b[2] \in {"PRIMARY_FIELD", "PRIMARY_FIELD_FIRST_UID"}
      <4>1. \E id \in {"PRIMARY_FIELD", "PRIMARY_FIELD_FIRST_UID"} :
               <<a.fields[k].number, id, TRUE>> \in DeclaredFieldAnnotations(a.fields[k])
        <5>1. a.fields[k] \in FieldProtos
          BY <1>0
        <5> QED BY <3>2, <5>1, DeclaredKey
      <4>2. DeclaredFieldAnnotations(a.fields[k]) \subseteq DeclaredAnnotations(a)
        BY DEF DeclaredAnnotations
      <4> QED BY <4>1, <4>2
    <3> QED BY <3>1, <3>2
  <2> QED BY <2>2, <2>3, <2>4, <2>5, <2>6
<1>6. /\ e \in Nat /\ IsDecl(d)
      /\ \A x \in d.annotations : x[1] \in Nat
      /\ d.fields = [k \in 1 .. n |-> java_type(a.fields[k], a.isUintAllowed)]
  BY <1>2 DEF FieldsCollated, Numbered
<1>7. DOMAIN s = 1 .. n
  OBVIOUS
<1> HIDE DEF s
<1> QED BY <1>1, <1>3, <1>4, <1>5, <1>6, <1>7
=============================================================================
