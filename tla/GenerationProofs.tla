-------------------------- MODULE GenerationProofs --------------------------
(***************************************************************************)
(* Theorems about what the writers make of the collated atoms.  They rest  *)
(* on the inductive invariant of CollationProofs: an accepted collation    *)
(* holds exactly the atoms of the module, all of them allowed, and each    *)
(* atom in the table of its kind, under the signature it declares.  The    *)
(* parameters of a signature are its arguments encoded word by word, which *)
(* is what tells the overloads of a generated method apart.  What a method *)
(* logs is found by executing it: the recursion by which FoldLeft runs the *)
(* statements, one block of them for each argument, in whatever order      *)
(* SetToSeq lists the atoms of a position.                                 *)
(***************************************************************************)
EXTENDS CollationProofs, AtomEvents, GeneratedMethods

\* The types a field of an allowed atom can have, and the argument it becomes.
LEMMA AllowedArgument ==
  ASSUME NEW a \in AtomProtos, WellFormed(a), NEW k \in 1 .. Len(a.fields),
         NEW jt, jt = java_type(a.fields[k], a.isUintAllowed)
  PROVE  /\ jt \in ChainedTypes \cup RepeatedJavaTypes
         /\ SignatureType(jt, FALSE) = ArgumentType(a.fields[k])
         /\ jt = "ATTRIBUTION_CHAIN" <=> a.fields[k].type = "AttributionNode"
         /\ jt = "ATTRIBUTION_CHAIN" => k = 1
         /\ jt = FlatType(a.fields[k])
<1> DEFINE f == a.fields[k]
<1>1. f \in FieldProtos /\ k \in DOMAIN a.fields /\ a.isUintAllowed \in BOOLEAN
  BY AtomFacts
<1>2. f.number = k /\ TypeAllowed(a, f) /\ (f.type = "AttributionNode" => f.number = 1)
  BY <1>1 DEF WellFormed, NumberAllowed, PositionAllowed
<1> HIDE DEF f
<1>3. jt \in JavaTypes /\ (jt = "ATTRIBUTION_CHAIN" <=> f.type = "AttributionNode")
  BY <1>1, JavaTypeInTypes, ChainType DEF f
<1>4. jt \notin {"UNKNOWN", "OBJECT"}
  <2>1. TypeError(a, f) = 0
    BY <1>1, <1>2, TypeErrorIffForbidden
  <2> QED BY <2>1 DEF TypeError, Count, f
<1>5. SignatureType(jt, f.bytes) = ArgumentType(f)
  BY <1>1, <1>2, AllowedJavaType DEF f
<1>6. SignatureType(jt, FALSE) = SignatureType(jt, f.bytes)
  BY <1>4 DEF SignatureType
<1>7. jt \in ChainedTypes \cup RepeatedJavaTypes
  BY <1>3, <1>4 DEF JavaTypes, ChainedTypes, PlainTypes
<1>8. jt = FlatType(f)
  <2>1. f.type \in UnsignedProtoTypes => a.isUintAllowed
    BY <1>2 DEF TypeAllowed, UnsignedProtoTypes, ScalarProtoTypes
  <2>2. f.type \in ProtoTypes
    BY <1>1 DEF FieldProtos
  <2> QED BY <1>1, <2>1, <2>2, JavaTypeTable DEF FlatType, ProtoTypes, f
<1> QED BY <1>2, <1>3, <1>5, <1>6, <1>7, <1>8 DEF f

\* The types of the arguments.
ArgumentTypes == (ChainedTypes \cup RepeatedJavaTypes) \ {"ENUM", "ENUM_ARRAY"}

\* The argument that a field of an atom becomes.
LEMMA ArgumentTypesOfFields ==
  \A jt \in ChainedTypes \cup RepeatedJavaTypes :
     /\ SignatureType(jt, FALSE) \in ArgumentTypes
     /\ SignatureType(jt, FALSE) = "ATTRIBUTION_CHAIN" <=> jt = "ATTRIBUTION_CHAIN"
     /\ SignatureType(jt, FALSE) \in RepeatedJavaTypes <=> jt \in RepeatedJavaTypes
BY DEF ChainedTypes, PlainTypes, PrimitiveJavaTypes, RepeatedJavaTypes, SignatureType, ArgumentTypes

\* A signature s and an AtomDecl's fields d, argument by argument.
ArgumentsOf(fields, s, d) ==
  /\ Len(fields) \in Nat
  /\ DOMAIN s = 1 .. Len(fields) /\ Len(s) = Len(fields)
  /\ DOMAIN d = 1 .. Len(fields) /\ Len(d) = Len(fields)
  /\ \A k \in 1 .. Len(fields) :
       /\ s[k] \in ArgumentTypes
       /\ d[k] \in ChainedTypes \cup RepeatedJavaTypes
       /\ s[k] = SignatureType(d[k], FALSE)
       /\ s[k] = "ATTRIBUTION_CHAIN" <=> d[k] = "ATTRIBUTION_CHAIN"
       /\ s[k] = "ATTRIBUTION_CHAIN" => k = 1
       /\ d[k] = FlatType(fields[k])
  /\ s = [k \in DOMAIN d |-> SignatureType(d[k], FALSE)]
  /\ s \in Seq(ArgumentTypes)
  /\ d \in Seq(ChainedTypes \cup RepeatedJavaTypes)

\* The signature and the fields that an allowed atom declares.
LEMMA DeclaredArguments ==
  ASSUME NEW a \in AtomProtos, WellFormed(a), NEW s, s = DeclaredSignature(a),
         NEW d, d = [k \in 1 .. Len(a.fields) |-> java_type(a.fields[k], a.isUintAllowed)]
  PROVE  ArgumentsOf(a.fields, s, d)
<1> DEFINE n == Len(a.fields)
<1>1. n \in Nat /\ DOMAIN a.fields = 1 .. n
  BY AtomFacts
<1>2. DOMAIN s = 1 .. n /\ DOMAIN d = 1 .. n /\ s = [k \in 1 .. n |-> s[k]] /\ d = [k \in 1 .. n |-> d[k]]
  BY <1>1 DEF DeclaredSignature
<1>3. ASSUME NEW k \in 1 .. n
      PROVE  /\ s[k] \in ArgumentTypes
             /\ d[k] \in ChainedTypes \cup RepeatedJavaTypes
             /\ s[k] = SignatureType(d[k], FALSE)
             /\ s[k] = "ATTRIBUTION_CHAIN" <=> d[k] = "ATTRIBUTION_CHAIN"
             /\ s[k] = "ATTRIBUTION_CHAIN" => k = 1
             /\ d[k] = FlatType(a.fields[k])
  <2>1. s[k] = ArgumentType(a.fields[k]) /\ d[k] = java_type(a.fields[k], a.isUintAllowed)
    BY <1>1 DEF DeclaredSignature
  <2>2. /\ d[k] \in ChainedTypes \cup RepeatedJavaTypes
        /\ SignatureType(d[k], FALSE) = s[k]
        /\ d[k] = "ATTRIBUTION_CHAIN" => k = 1
        /\ d[k] = FlatType(a.fields[k])
    BY <2>1, AllowedArgument
  <2> QED BY <2>2, ArgumentTypesOfFields
<1> HIDE DEF n
<1>4. s \in Seq(ArgumentTypes) /\ d \in Seq(ChainedTypes \cup RepeatedJavaTypes)
  <2>1. s \in [1 .. n -> ArgumentTypes]
    <3>1. \A k \in 1 .. n : s[k] \in ArgumentTypes
      BY <1>3
    <3> QED BY <1>2, <3>1
  <2>2. d \in [1 .. n -> ChainedTypes \cup RepeatedJavaTypes]
    <3>1. \A k \in 1 .. n : d[k] \in ChainedTypes \cup RepeatedJavaTypes
      BY <1>3
    <3> QED BY <1>2, <3>1
  <2> QED BY <1>1, <2>1, <2>2
<1>5. Len(s) = n /\ Len(d) = n
  BY <1>1, <1>2, <1>4
<1>6. s = [k \in DOMAIN d |-> SignatureType(d[k], FALSE)]
  BY <1>2, <1>3
<1> QED BY <1>1, <1>2, <1>3, <1>4, <1>5, <1>6 DEF n, ArgumentsOf

\* The kind of atom f has, and the table of that kind.
Kind(f) == IF Pulled(f) THEN "pulled" ELSE "pushed"

\* Every atom of an accepted collation comes from an allowed field of the message,
\* and is in the table of its kind under the signature it declares.
LEMMA InsertedAllowed ==
  ASSUME Inv, Accepted, NEW f \in Inserted
  PROVE  /\ f \in AtomFields /\ AtomAllowed(f)
         /\ AtomOf(f) \in AtomProtos /\ WellFormed(AtomOf(f)) /\ AtomOf(f).fields = f.fields
         /\ AtomOf(f).isUintAllowed = f.isUintAllowed
         /\ f.number \in DOMAIN decls /\ decls[f.number] = DeclOf(f)
         /\ decls[f.number].atomType = Kind(f)
         /\ decls[f.number].restricted = Restricted(f)
         /\ decls[f.number].decl.annotations = DeclaredAtomAnnotations(f)
         /\ decls[f.number].decl.fields
               = [k \in 1 .. Len(AtomOf(f).fields) |-> java_type(AtomOf(f).fields[k], AtomOf(f).isUintAllowed)]
         /\ SignatureOf(f) = DeclaredSignature(AtomOf(f))
<1>1. Position /\ OrderIndependent /\ errorCount = 0
  BY DEF Inv, Tables, Accepted
<1>2. f \in AtomFields /\ AtomAllowed(f)
  <2>1. Inserted = {g \in Taken : InModule(message, g)}
    BY <1>1, ErrorFree
  <2> QED BY <1>1, <2>1, ErrorFree, MessageFacts
<1>3. /\ AtomOf(f) \in AtomProtos /\ WellFormed(AtomOf(f)) /\ AtomOf(f).fields = f.fields
      /\ AtomOf(f).isUintAllowed = f.isUintAllowed
  BY <1>2, AtomOfProto DEF AtomAllowed, AtomOf
<1>4. f.number \in DOMAIN decls /\ decls[f.number] = DeclOf(f)
  BY <1>1 DEF OrderIndependent
<1>5. DeclOf(f).atomType = Kind(f) /\ DeclOf(f).restricted = Restricted(f)
  BY DEF DeclOf, Kind
<1>6. /\ DeclOf(f).decl.annotations = DeclaredAtomAnnotations(f)
      /\ DeclOf(f).decl.fields = [k \in 1 .. Len(f.fields) |-> java_type(f.fields[k], f.isUintAllowed)]
      /\ SignatureOf(f) = DeclaredSignature(AtomOf(f))
  BY <1>2, AllowedAtom
<1> QED BY <1>2, <1>3, <1>4, <1>5, <1>6

\* The signature and the fields of an atom of an accepted collation.
LEMMA InsertedArguments ==
  ASSUME Inv, Accepted, NEW f \in Inserted,
         NEW s, s = SignatureOf(f), NEW d, d = decls[f.number].decl.fields
  PROVE  ArgumentsOf(f.fields, s, d)
<1> DEFINE a == AtomOf(f)
<1>1. /\ a \in AtomProtos /\ WellFormed(a) /\ a.fields = f.fields
      /\ s = DeclaredSignature(a)
      /\ d = [k \in 1 .. Len(a.fields) |-> java_type(a.fields[k], a.isUintAllowed)]
  BY InsertedAllowed
<1> HIDE DEF a
<1>2. ArgumentsOf(a.fields, s, d)
  BY <1>1, DeclaredArguments
<1> QED BY <1>1, <1>2

\* Every atom there is comes from an inserted field.
LEMMA AtomsInserted ==
  ASSUME Inv
  PROVE  /\ \A n \in DOMAIN decls : \E f \in Inserted : f.number = n
         /\ \A s \in DOMAIN signatureInfoMap : \E f \in Inserted : ~Pulled(f) /\ s = SignatureOf(f)
         /\ \A s \in DOMAIN pulledAtomsSignatureInfoMap : \E f \in Inserted : Pulled(f) /\ s = SignatureOf(f)
         /\ \A f \in Inserted : ~Pulled(f) => SignatureOf(f) \in DOMAIN signatureInfoMap
         /\ \A f \in Inserted : Pulled(f) => SignatureOf(f) \in DOMAIN pulledAtomsSignatureInfoMap
         /\ \A f, g \in Inserted : f.number = g.number => f = g
<1>1. Position /\ OrderIndependent
  BY DEF Inv, Tables
<1>2. /\ DOMAIN signatureInfoMap = {SignatureOf(f) : f \in {g \in Inserted : ~Pulled(g)}}
      /\ DOMAIN pulledAtomsSignatureInfoMap = {SignatureOf(f) : f \in {g \in Inserted : Pulled(g)}}
      /\ DOMAIN decls = {f.number : f \in Inserted}
  BY <1>1 DEF OrderIndependent, TableOf
<1>3. \A f, g \in Inserted : f.number = g.number => f = g
  BY <1>1, MessageFacts
<1> QED BY <1>2, <1>3

-----------------------------------------------------------------------------
(* Restricted atoms. *)

\* Whatever atoms share the signature of a restricted one, the method of that
\* signature requires the API level of restricted metrics.
THEOREM RestrictedCorrect == Spec => []RestrictedRequiresU
<1>1. Inv => RestrictedRequiresU
  <2> SUFFICES ASSUME Inv, Accepted, NEW n \in DOMAIN decls, decls[n].restricted
               PROVE  /\ SignatureOfAtom(n) \in DOMAIN signatureInfoMap
                      /\ \A minApiLevel \in {API_Q, API_LEVEL_CURRENT} :
                           RequiresApi(signatureInfoMap, SignatureOfAtom(n), minApiLevel) = API_U
    BY DEF RestrictedRequiresU
  <2>1. PICK f \in Inserted : f.number = n
    BY AtomsInserted
  <2> DEFINE s == SignatureOf(f)
  <2>2. Restricted(f) /\ ~Pulled(f)
    <3>1. Restricted(f)
      BY <2>1, InsertedAllowed
    <3>2. f \in AtomFields /\ AtomAllowed(f)
      BY <2>1, InsertedAllowed
    <3> QED BY <3>1, <3>2, PulledAsDeclared DEF AtomAllowed
  <2>3. SignatureOfAtom(n) = s
    <3> DEFINE d == decls[n].decl.fields
    <3>1. s = [k \in DOMAIN d |-> SignatureType(d[k], FALSE)]
      <4>1. d = decls[f.number].decl.fields
        BY <2>1
      <4> HIDE DEF s, d
      <4>2. ArgumentsOf(f.fields, s, d)
        BY <2>1, <4>1, InsertedArguments DEF s
      <4> QED BY <4>2 DEF ArgumentsOf
    <3> QED BY <3>1 DEF SignatureOfAtom
  <2>4. s \in DOMAIN signatureInfoMap
    BY <2>2, AtomsInserted
  <2>5. <<ATOM_ID_FIELD_NUMBER, n>> \in signatureInfoMap[s]
    <3> DEFINE F == {g \in Inserted : ~Pulled(g)}
    <3>1. signatureInfoMap = TableOf(F) /\ f \in F /\ \A g \in F : g.number = f.number => g = f
      BY <2>2, AtomsInserted DEF Inv, Tables, OrderIndependent
    <3>2. PICK c \in f.category : TRUE
      BY <2>2 DEF Restricted
    <3> DEFINE b == <<ATOM_ID_FIELD_NUMBER, "RESTRICTION_CATEGORY", c>>
    <3>3. b \in DeclaredAtomAnnotations(f)
      BY <3>2 DEF DeclaredAtomAnnotations, AtomIdAnnotations
    <3>4. b[1] = ATOM_ID_FIELD_NUMBER
      OBVIOUS
    <3>5. DeclOf(f).decl.annotations = DeclaredAtomAnnotations(f)
      BY InsertedAllowed
    <3>6. ATOM_ID_FIELD_NUMBER \in {x[1] : x \in DeclOf(f).decl.annotations}
      BY <3>3, <3>4, <3>5
    <3> HIDE DEF F
    <3> QED BY <2>1, <2>4, <3>1, <3>6, EntryInTable
  <2> HIDE DEF s
  <2>6. contains_restricted(AtomDeclSet(signatureInfoMap, s, ATOM_ID_FIELD_NUMBER))
    <3> DEFINE e == <<ATOM_ID_FIELD_NUMBER, n>>
    <3>1. e[1] = ATOM_ID_FIELD_NUMBER /\ e[2] = n
      OBVIOUS
    <3>2. n \in AtomDeclSet(signatureInfoMap, s, ATOM_ID_FIELD_NUMBER)
      BY <2>5, <3>1 DEF AtomDeclSet
    <3> QED BY <3>2 DEF contains_restricted
  <2> QED BY <2>3, <2>4, <2>6 DEF RequiresApi, get_max_requires_api_level
<1> QED BY InvCorrect, <1>1, PTL

-----------------------------------------------------------------------------
(* The hand-over to the tool. *)

\* What an inserted atom is entered under, whether it has errors or not.
LEMMA InsertedTyped ==
  ASSUME NEW f \in AtomFields
  PROVE  /\ SignatureOf(f) \in Seq(JavaTypes)
         /\ DeclOf(f).decl.fields \in Seq(JavaTypes)
         /\ NonChainedSignature(f.fields) \in Seq(JavaTypes)
         /\ \A e \in EntriesOf(f) : e \in Int \X Nat
<1> DEFINE a == AtomOf(f)
           c == collate_atom(a)
           n == Len(f.fields)
<1>1. a \in AtomProtos /\ a.fields = f.fields
  BY AtomOfProto DEF AtomOf
<1>2. /\ n \in Nat /\ DOMAIN f.fields = 1 .. n
      /\ \A k \in 1 .. n : f.fields[k] \in FieldProtos
      /\ a.isUintAllowed \in BOOLEAN /\ f.number \in Nat
  BY <1>1, AtomFacts DEF AtomFields
<1>3. /\ c.signature \in Seq(JavaTypes)
      /\ \A x \in c.decl.annotations : x[1] \in Nat
      /\ c.decl.fields = [k \in 1 .. n |-> java_type(f.fields[k], a.isUintAllowed)]
      /\ IsDecl(c.decl)
  BY <1>1, CollateAtomReturns
<1> DEFINE d == c.decl
<1>4. /\ DeclOf(f).decl.fields = d.fields
      /\ DeclOf(f).decl.annotations = AtomIdAnnotations(f) \cup d.annotations
  <2>1. DeclOf(f).decl = [d EXCEPT !.annotations = AtomIdAnnotations(f) \cup @]
    BY DEF DeclOf
  <2> HIDE DEF d
  <2> QED BY <1>3, <2>1 DEF IsDecl, d
<1>5. SignatureOf(f) \in Seq(JavaTypes)
  BY <1>3 DEF SignatureOf
<1> HIDE DEF a, c, d
<1>6. DeclOf(f).decl.fields \in Seq(JavaTypes)
  <2>1. \A k \in 1 .. n : java_type(f.fields[k], a.isUintAllowed) \in JavaTypes
    BY <1>2, JavaTypeInTypes
  <2> QED BY <1>2, <1>3, <1>4, <2>1 DEF d
<1>7. NonChainedSignature(f.fields) \in Seq(JavaTypes)
  <2> DEFINE parts == [k \in DOMAIN f.fields |->
                          IF FlatType(f.fields[k]) = "ATTRIBUTION_CHAIN" THEN <<"INT", "STRING">>
                          ELSE <<InSignature[FlatType(f.fields[k])]>>]
  <2>1. NonChainedSignature(f.fields) = FlattenSeq(parts)
    BY AttributionNodeCollated DEF NonChainedSignature, Flatten
  <2>2. "INT" \in JavaTypes /\ "STRING" \in JavaTypes
    BY DEF JavaTypes, PrimitiveJavaTypes
  <2>3. ASSUME NEW k \in 1 .. n PROVE InSignature[FlatType(f.fields[k])] \in JavaTypes
    <3>1. FlatType(f.fields[k]) \in JavaTypes
      BY <1>2, JavaTypeInTypes DEF FlatType
    <3> QED BY <2>2, <3>1 DEF InSignature, NonChainedSignatureType
  <2>4. ASSUME NEW k \in 1 .. n PROVE parts[k] \in Seq(JavaTypes)
    <3>1. CASE FlatType(f.fields[k]) = "ATTRIBUTION_CHAIN"
      BY <1>2, <2>2, <3>1
    <3>2. CASE FlatType(f.fields[k]) # "ATTRIBUTION_CHAIN"
      BY <1>2, <2>3, <3>2
    <3> QED BY <3>1, <3>2
  <2>5. parts = [k \in 1 .. n |-> parts[k]]
    BY <1>2
  <2> HIDE DEF parts
  <2>6. parts \in Seq(Seq(JavaTypes))
    BY <1>2, <2>4, <2>5
  <2> QED BY <2>1, <2>6, FlattenedInSeq
<1>8. ASSUME NEW e \in EntriesOf(f) PROVE e \in Int \X Nat
  <2>1. PICK x \in DeclOf(f).decl.annotations : e = <<x[1], f.number>>
    BY DEF EntriesOf
  <2>2. x[1] \in Int
    <3>1. CASE x \in d.annotations
      BY <1>3, <3>1 DEF d
    <3>2. CASE x \in AtomIdAnnotations(f)
      <4>1. PICK id, v : x = <<ATOM_ID_FIELD_NUMBER, id, v>>
        BY <3>2 DEF AtomIdAnnotations, When
      <4> QED BY <4>1 DEF ATOM_ID_FIELD_NUMBER
    <3> QED BY <1>4, <2>1, <3>1, <3>2
  <2> QED BY <1>2, <2>1, <2>2
<1> QED BY <1>5, <1>6, <1>7, <1>8

\* The tables a set of inserted atoms leaves.
LEMMA TableTyped ==
  ASSUME NEW F \in SUBSET AtomFields
  PROVE  IsSignatureInfoMap(TableOf(F))
<1>1. ASSUME NEW s \in DOMAIN TableOf(F)
      PROVE  s \in Seq(JavaTypes) /\ \A e \in TableOf(F)[s] : e \in Int \X Nat
  <2>1. PICK f \in F : s = SignatureOf(f)
    BY DEF TableOf
  <2>2. ASSUME NEW e \in TableOf(F)[s] PROVE \E g \in F : e \in EntriesOf(g)
    BY DEF TableOf
  <2> QED BY <2>1, <2>2, InsertedTyped
<1> QED BY <1>1 DEF IsSignatureInfoMap

\* At every return of the collation, with errors and without, what it has found
\* is of the kind StatsLogApiGen takes of collate_atoms: the assumption of the
\* tool on Collations is met by the collation itself.
THEOREM ToolAssumptionMet == Spec => [](errorCount \in Nat /\ IsAtoms(CollatedAtoms))
<1>1. Inv => errorCount \in Nat /\ IsAtoms(CollatedAtoms)
  <2> SUFFICES ASSUME Inv PROVE errorCount \in Nat /\ IsAtoms(CollatedAtoms)
    OBVIOUS
  <2>1. Inserted \subseteq AtomFields /\ Position /\ OrderIndependent
    BY MessageFacts DEF Inv, Tables
  <2>2. errorCount \in Nat
    <3>1. Taken \subseteq AtomFields /\ IsFiniteSet(Taken) /\ errorCount = ErrorsIn(Taken)
      BY <2>1, MessageFacts DEF Inv, Counted
    <3> QED BY <3>1, ErrorsInAdd
  <2>3. IsSignatureInfoMap(signatureInfoMap) /\ IsSignatureInfoMap(pulledAtomsSignatureInfoMap)
    BY <2>1, TableTyped DEF OrderIndependent
  <2>4. IsSignatureInfoMap(nonChainedSignatureInfoMap)
    <3> DEFINE map == nonChainedSignatureInfoMap
    <3>1. /\ DOMAIN map = {NonChainedSignature(f.fields) : f \in {g \in Inserted : HasChain(g.fields)}}
          /\ \A s \in DOMAIN map : map[s] = {}
      BY DEF Inv, NonChainedTables
    <3>2. ASSUME NEW s \in DOMAIN map PROVE s \in Seq(JavaTypes)
      <4>1. PICK f \in Inserted : s = NonChainedSignature(f.fields)
        BY <3>1
      <4> QED BY <2>1, <4>1, InsertedTyped
    <3> QED BY <3>1, <3>2 DEF IsSignatureInfoMap
  <2>5. ASSUME NEW n \in DOMAIN decls PROVE decls[n].decl.fields \in Seq(JavaTypes)
    <3>1. PICK f \in Inserted : f.number = n
      BY AtomsInserted
    <3>2. decls[n] = DeclOf(f)
      BY <2>1, <3>1 DEF OrderIndependent
    <3> QED BY <2>1, <3>1, <3>2, InsertedTyped
  <2> QED BY <2>2, <2>3, <2>4, <2>5 DEF IsAtoms, CollatedAtoms
<1> QED BY InvCorrect, <1>1, PTL

-----------------------------------------------------------------------------
(* The writers. *)

\* Every signature of an accepted collation is of argument types, its chain first.
LEMMA SignatureFacts ==
  ASSUME Inv, Accepted, NEW s \in Signatures
  PROVE  s \in Seq(ArgumentTypes) /\ TypesIn(s) \subseteq ArgumentTypes /\ ChainFirst(s)
<1>1. PICK f \in Inserted : s = SignatureOf(f)
  BY AtomsInserted DEF Signatures
<1>2. ArgumentsOf(f.fields, s, decls[f.number].decl.fields)
  BY <1>1, InsertedArguments
<1> QED BY <1>2 DEF ArgumentsOf, TypesIn, ChainFirst

\* The AtomDecls of an accepted collation have fields of known types.
LEMMA FieldsFacts ==
  ASSUME Inv, Accepted, NEW n \in DOMAIN decls, NEW d, d = decls[n].decl.fields
  PROVE  d \in Seq(ChainedTypes \cup RepeatedJavaTypes) /\ TypesIn(d) \subseteq ChainedTypes \cup RepeatedJavaTypes
<1>1. PICK f \in Inserted : n = f.number
  BY AtomsInserted
<1>2. ArgumentsOf(f.fields, SignatureOf(f), d)
  BY <1>1, InsertedArguments
<1> QED BY <1>2 DEF ArgumentsOf, TypesIn

\* The signatures of the non-chained variants, each from an atom with a chain.
LEMMA NonChainedFacts ==
  ASSUME Inv, Accepted
  PROVE  /\ \A s \in DOMAIN nonChainedSignatureInfoMap :
              \E f \in Inserted : HasChain(f.fields) /\ s = NonChainedSignature(f.fields)
         /\ \A f \in Inserted : HasChain(f.fields) =>
              NonChainedSignature(f.fields) \in DOMAIN nonChainedSignatureInfoMap
         /\ \A s \in DOMAIN nonChainedSignatureInfoMap : "ATTRIBUTION_CHAIN" \notin TypesIn(s)
<1>1. DOMAIN nonChainedSignatureInfoMap
        = {NonChainedSignature(f.fields) : f \in {g \in Inserted : HasChain(g.fields)}}
  BY DEF Inv, NonChainedTables
<1>2. ASSUME NEW s \in DOMAIN nonChainedSignatureInfoMap PROVE "ATTRIBUTION_CHAIN" \notin TypesIn(s)
  <2>1. PICK f \in Inserted : HasChain(f.fields) /\ s = NonChainedSignature(f.fields)
    BY <1>1
  <2> DEFINE a == AtomOf(f)
  <2>2. a \in AtomProtos /\ WellFormed(a) /\ a.fields = f.fields
    BY InsertedAllowed
  <2> HIDE DEF a
  <2>3. \A k \in DOMAIN s : s[k] # "ATTRIBUTION_CHAIN"
    BY <2>1, <2>2, ChainedSignature
  <2> QED BY <2>3 DEF TypesIn
<1> QED BY <1>1, <1>2

\* The switches of the writers for signatures as the collation makes them.
LEMMA WritersKnow ==
  ASSUME NEW s, s \in Seq(ArgumentTypes), TypesIn(s) \subseteq ArgumentTypes, ChainFirst(s)
  PROVE  /\ HasRepeated(s) <=> ~(TypesIn(s) \subseteq ChainedTypes)
         /\ \A l \in Int : l >= API_T \/ ~HasRepeated(s) => write_native_method_body(s, l) = 0
         /\ ~HasRepeated(s) => CompatErrors(s) = 0
         /\ write_method_body(s) = 0
         /\ \A k \in 2 .. Len(s) : s[k] \in VendorTypes
         /\ write_method_body_vendor(s) = 0
         /\ \A j, k \in DOMAIN s : s[j] = "ATTRIBUTION_CHAIN" /\ s[k] = "ATTRIBUTION_CHAIN" => j = k
<1>1. /\ ArgumentTypes \subseteq ChainedTypes \cup RepeatedJavaTypes
      /\ ArgumentTypes \subseteq ChainedTypes \cup (RepeatedJavaTypes \ {"ENUM_ARRAY"})
      /\ ArgumentTypes \ {"ATTRIBUTION_CHAIN"} \subseteq VendorTypes
      /\ ChainedTypes \cap RepeatedJavaTypes = {}
  BY DEF ArgumentTypes, VendorTypes, ChainedTypes, PlainTypes, PrimitiveJavaTypes, RepeatedJavaTypes
<1>2. HasRepeated(s) <=> ~(TypesIn(s) \subseteq ChainedTypes)
  BY <1>1 DEF HasRepeated, is_repeated_field
<1>3. \A l \in Int : l >= API_T \/ ~HasRepeated(s) => write_native_method_body(s, l) = 0
  BY <1>1 DEF write_native_method_body, Count, API_T
<1>4. ~HasRepeated(s) => CompatErrors(s) = 0
  BY <1>2 DEF CompatErrors, Count
<1>5. write_method_body(s) = 0
  BY <1>1 DEF write_method_body, Count
<1>6. \A k \in 2 .. Len(s) : s[k] \in VendorTypes
  <2>1. \A k \in 2 .. Len(s) : k \in DOMAIN s /\ k # 1 /\ s[k] \in ArgumentTypes
    <3>1. DOMAIN s = 1 .. Len(s) /\ Len(s) \in Nat
      OBVIOUS
    <3>2. \A k \in 2 .. Len(s) : k \in DOMAIN s /\ k # 1
      BY <3>1
    <3> QED BY <3>2
  <2> QED BY <1>1, <2>1 DEF ChainFirst
<1>7. write_method_body_vendor(s) = 0
  BY <1>6 DEF write_method_body_vendor, Count
<1>8. \A j, k \in DOMAIN s : s[j] = "ATTRIBUTION_CHAIN" /\ s[k] = "ATTRIBUTION_CHAIN" => j = k
  BY DEF ChainFirst
<1> QED BY <1>2, <1>3, <1>4, <1>5, <1>6, <1>7, <1>8

\* Without errors in the atoms a writer fails only for what it says it does not
\* support: every type the collation lets pass is known to its switch.
THEOREM WritersCorrect == Spec => []WritersTakeCollated
<1>1. Inv => WritersTakeCollated
  <2> SUFFICES ASSUME Inv, Accepted, NEW l \in {API_Q, 30, API_T, API_LEVEL_CURRENT}
               PROVE  /\ l >= API_T \/ (\A s \in Signatures : ~HasRepeated(s)) =>
                           /\ write_stats_log_cpp(CollatedAtoms, l, FALSE) = 0
                           /\ \A ws \in BOOLEAN : write_stats_log_java(CollatedAtoms, l, ws) = 0
                      /\ l # API_Q => write_stats_log_rust(CollatedAtoms, l) = 0
                      /\ write_stats_log_cpp_vendor(CollatedAtoms) = 0
                      /\ ~Chained => write_stats_log_java_vendor(CollatedAtoms) = 0
    BY DEF WritersTakeCollated
  <2> DEFINE supported == l >= API_T \/ (\A s \in Signatures : ~HasRepeated(s))
  <2>1. l \in Int /\ (l = API_Q => ~(l >= API_T))
    BY DEF API_Q, API_T, API_LEVEL_CURRENT
  <2>2. \A s \in Signatures :
          /\ l >= API_T \/ ~HasRepeated(s) => write_native_method_body(s, l) = 0
          /\ ~HasRepeated(s) => CompatErrors(s) = 0
          /\ write_method_body(s) = 0
          /\ write_method_body_vendor(s) = 0
          /\ \A k \in 2 .. Len(s) : s[k] \in VendorTypes
          /\ \A j, k \in DOMAIN s : s[j] = "ATTRIBUTION_CHAIN" /\ s[k] = "ATTRIBUTION_CHAIN" => j = k
    <3> SUFFICES ASSUME NEW s \in Signatures
                 PROVE  /\ l >= API_T \/ ~HasRepeated(s) => write_native_method_body(s, l) = 0
                        /\ ~HasRepeated(s) => CompatErrors(s) = 0
                        /\ write_method_body(s) = 0
                        /\ write_method_body_vendor(s) = 0
                        /\ \A k \in 2 .. Len(s) : s[k] \in VendorTypes
                        /\ \A j, k \in DOMAIN s :
                              s[j] = "ATTRIBUTION_CHAIN" /\ s[k] = "ATTRIBUTION_CHAIN" => j = k
      OBVIOUS
    <3>1. s \in Seq(ArgumentTypes) /\ TypesIn(s) \subseteq ArgumentTypes /\ ChainFirst(s)
      BY SignatureFacts
    <3> QED BY <2>1, <3>1, WritersKnow
  <2>3. /\ CollatedAtoms.signatureInfoMap = signatureInfoMap
        /\ CollatedAtoms.pulledAtomsSignatureInfoMap = pulledAtomsSignatureInfoMap
        /\ CollatedAtoms.nonChainedSignatureInfoMap = nonChainedSignatureInfoMap
        /\ CollatedAtoms.decls = {decls[n].decl.fields : n \in DOMAIN decls}
    BY DEF CollatedAtoms
  <2>4. /\ \A s \in DOMAIN signatureInfoMap : s \in Signatures
        /\ \A s \in DOMAIN pulledAtomsSignatureInfoMap : s \in Signatures
    BY DEF Signatures
  <2>5. ASSUME supported PROVE write_stats_log_cpp(CollatedAtoms, l, FALSE) = 0
    <3>1. write_native_stats_write_methods(signatureInfoMap, l, FALSE) = 0
      BY <2>1, <2>2, <2>4, <2>5 DEF write_native_stats_write_methods, Count
    <3>2. write_native_build_stats_event_methods(pulledAtomsSignatureInfoMap, l) = 0
      BY <2>2, <2>4, <2>5 DEF write_native_build_stats_event_methods, Count
    <3> QED BY <2>3, <3>1, <3>2 DEF write_stats_log_cpp, Count
  <2>6. ASSUME supported, NEW ws \in BOOLEAN PROVE write_stats_log_java(CollatedAtoms, l, ws) = 0
    <3>1. write_java_pushed_methods(signatureInfoMap, l) = 0
      BY <2>1, <2>2, <2>4, <2>6 DEF write_java_pushed_methods, Count
    <3>2. write_java_non_chained_methods(nonChainedSignatureInfoMap) = 0
      BY NonChainedFacts DEF write_java_non_chained_methods, Count
    <3>3. write_java_pulled_methods(pulledAtomsSignatureInfoMap) = 0
      BY <2>2, <2>4 DEF write_java_pulled_methods, Count
    <3>4. write_java_work_source_methods(signatureInfoMap) = 0
      BY <2>2, <2>4 DEF write_java_work_source_methods, Count
    <3>5. write_java_q_logger_class(signatureInfoMap) = 0
      BY DEF write_java_q_logger_class
    <3> QED BY <2>3, <3>1, <3>2, <3>3, <3>4, <3>5 DEF write_stats_log_java
  <2>7. ASSUME l # API_Q PROVE write_stats_log_rust(CollatedAtoms, l) = 0
    <3>1. ASSUME NEW n \in DOMAIN decls, ~HasRepeated(decls[n].decl.fields)
          PROVE  write_rust_method_body(decls[n].decl.fields, l) = 0
      <4>1. TypesIn(decls[n].decl.fields) \subseteq ChainedTypes \cup RepeatedJavaTypes
        BY FieldsFacts
      <4>2. TypesIn(decls[n].decl.fields) \subseteq ChainedTypes
        BY <3>1, <4>1 DEF HasRepeated, is_repeated_field
      <4> QED BY <2>7, <4>2 DEF write_rust_method_body, Count
    <3> QED BY <2>3, <3>1 DEF write_stats_log_rust, write_rust_stats_write_atoms, Count
  <2>8. write_stats_log_cpp_vendor(CollatedAtoms) = 0
    BY <2>2, <2>3, <2>4 DEF write_stats_log_cpp_vendor, write_native_create_vendor_atom_methods, Count
  <2>9. ASSUME ~Chained PROVE write_stats_log_java_vendor(CollatedAtoms) = 0
    <3>1. \A s \in DOMAIN signatureInfoMap : write_java_method_signature(s, <<>>) = 0
      BY <2>9 DEF Chained, write_java_method_signature, Count
    <3> QED BY <2>2, <2>3, <2>4, <3>1
            DEF write_stats_log_java_vendor, write_java_pushed_methods_vendor, Count
  <2> QED BY <2>5, <2>6, <2>7, <2>8, <2>9
<1> QED BY InvCorrect, <1>1, PTL

\* The signatures of the class for level Q: if the writer finds no error they are
\* those QLogger takes, with at most one chain, before everything else.
THEOREM QLoggerFedCorrect == Spec => []QLoggerSignatures
<1>1. Inv => QLoggerSignatures
  <2> SUFFICES ASSUME Inv, Accepted, write_java_methods_q_schema(signatureInfoMap) = 0,
                      NEW s \in DOMAIN signatureInfoMap
               PROVE  s \in Seq(QTypes) /\ ChainFirst(s)
    BY DEF QLoggerSignatures
  <2>1. s \in Seq(ArgumentTypes) /\ ChainFirst(s)
    BY SignatureFacts DEF Signatures
  <2>2. TypesIn(s) \subseteq QTypes
    BY DEF write_java_methods_q_schema, Count
  <2>3. Len(s) \in Nat /\ DOMAIN s = 1 .. Len(s) /\ s = [k \in 1 .. Len(s) |-> s[k]]
    BY <2>1
  <2>4. \A k \in 1 .. Len(s) : s[k] \in QTypes
    BY <2>2, <2>3 DEF TypesIn
  <2> QED BY <2>1, <2>3, <2>4
<1> QED BY InvCorrect, <1>1, PTL

-----------------------------------------------------------------------------
(* The annotation constants. *)

\* The annotations a field may have.
FieldIds == (AnnotationIdsFromS \ {"TRUNCATE_TIMESTAMP"}) \cup FieldRestrictions

\* The annotations that collate_field gives a field are among those.
LEMMA DeclaredFieldIds ==
  ASSUME NEW f \in FieldProtos, NEW b \in DeclaredFieldAnnotations(f)
  PROVE  b[2] \in FieldIds
<1>0. FieldIds = {"IS_UID", "PRIMARY_FIELD", "EXCLUSIVE_STATE", "PRIMARY_FIELD_FIRST_UID",
                  "DEFAULT_STATE", "TRIGGER_STATE_RESET", "STATE_NESTED"} \cup FieldRestrictions
  BY DEF FieldIds, AnnotationIdsFromS
<1>1. ASSUME NEW o \in f.state, b \in DeclaredStateAnnotations(f.number, o)
      PROVE  b[2] \in FieldIds
  <2> DEFINE n == f.number
             D == {<<n, "DEFAULT_STATE", v>> : v \in o.default}
             T == {<<n, "TRIGGER_STATE_RESET", v>> : v \in o.reset}
             N == {<<n, "STATE_NESTED", v>> : v \in o.nested}
  <2>1. \/ b = <<n, "PRIMARY_FIELD", TRUE>> \/ b = <<n, "PRIMARY_FIELD_FIRST_UID", TRUE>>
        \/ b = <<n, "EXCLUSIVE_STATE", TRUE>> \/ b \in D \/ b \in T \/ b \in N
    BY <1>1 DEF DeclaredStateAnnotations, When
  <2>2. /\ b \in D => b[2] = "DEFAULT_STATE"
        /\ b \in T => b[2] = "TRIGGER_STATE_RESET"
        /\ b \in N => b[2] = "STATE_NESTED"
    OBVIOUS
  <2>3. \A id : b = <<n, id, TRUE>> => b[2] = id
    OBVIOUS
  <2> HIDE DEF D, T, N
  <2> QED BY <1>0, <2>1, <2>2, <2>3
<1>2. ASSUME b \in {<<f.number, r, TRUE>> : r \in UNION f.restriction}
      PROVE  b[2] \in FieldIds
  <2>1. PICK r \in UNION f.restriction : b = <<f.number, r, TRUE>>
    BY <1>2
  <2>2. f.restriction \in Optional(SUBSET FieldRestrictions)
    BY DEF FieldProtos
  <2>3. r \in FieldRestrictions
    BY <2>2 DEF Optional
  <2> QED BY <1>0, <2>1, <2>3
<1>3. ASSUME b \in When(f.isUid, {<<f.number, "IS_UID", TRUE>>})
      PROVE  b[2] \in FieldIds
  <2>1. b = <<f.number, "IS_UID", TRUE>>
    BY <1>3 DEF When
  <2> QED BY <1>0, <2>1
<1>4. \/ \E o \in f.state : b \in DeclaredStateAnnotations(f.number, o)
      \/ b \in {<<f.number, r, TRUE>> : r \in UNION f.restriction}
      \/ b \in When(f.isUid, {<<f.number, "IS_UID", TRUE>>})
  BY DEF DeclaredFieldAnnotations
<1> QED BY <1>1, <1>2, <1>3, <1>4

\* The annotations an atom may have; only restricted ones have a category.
LEMMA DeclaredAtomIds ==
  ASSUME NEW f \in AtomFields, NEW b \in DeclaredAtomAnnotations(f)
  PROVE  /\ b[2] \in DOMAIN AnnotationMinApiLevel
         /\ b[2] = "RESTRICTION_CATEGORY" => Restricted(f)
<1>0. DOMAIN AnnotationMinApiLevel = AnnotationIdsFromS \cup FieldRestrictions \cup {"RESTRICTION_CATEGORY"}
  BY DEF AnnotationMinApiLevel
<1>1. CASE b \in AtomIdAnnotations(f)
  <2>1. \/ b = <<ATOM_ID_FIELD_NUMBER, "TRUNCATE_TIMESTAMP", TRUE>>
        \/ \E v \in f.category : b = <<ATOM_ID_FIELD_NUMBER, "RESTRICTION_CATEGORY", v>>
    BY <1>1 DEF AtomIdAnnotations, When
  <2>2. CASE b = <<ATOM_ID_FIELD_NUMBER, "TRUNCATE_TIMESTAMP", TRUE>>
    <3>1. b[2] = "TRUNCATE_TIMESTAMP"
      BY <2>2
    <3> QED BY <1>0, <3>1 DEF AnnotationIdsFromS
  <2>3. ASSUME NEW v \in f.category, b = <<ATOM_ID_FIELD_NUMBER, "RESTRICTION_CATEGORY", v>>
        PROVE  b[2] = "RESTRICTION_CATEGORY" /\ Restricted(f)
    BY <2>3 DEF Restricted
  <2> QED BY <1>0, <2>1, <2>2, <2>3
<1>2. CASE b \in DeclaredAnnotations(AtomOf(f))
  <2>1. AtomOf(f) \in AtomProtos
    BY AtomOfProto
  <2>2. PICK k \in DOMAIN AtomOf(f).fields : b \in DeclaredFieldAnnotations(AtomOf(f).fields[k])
    BY <1>2 DEF DeclaredAnnotations
  <2>3. AtomOf(f).fields[k] \in FieldProtos
    BY <2>1, <2>2, AtomFacts
  <2>4. b[2] \in FieldIds
    BY <2>2, <2>3, DeclaredFieldIds
  <2>5. FieldIds \subseteq AnnotationIdsFromS \cup FieldRestrictions
        /\ "RESTRICTION_CATEGORY" \notin FieldIds
    BY DEF FieldIds, AnnotationIdsFromS, FieldRestrictions
  <2> QED BY <1>0, <2>4, <2>5
<1> QED BY <1>1, <1>2 DEF DeclaredAtomAnnotations

\* Every annotation constant the methods name is defined where they are
\* generated, whichever atoms there are.
THEOREM ConstantsCorrect == Spec => []ConstantsDefined
<1>1. Inv => ConstantsDefined
  <2> SUFFICES ASSUME Inv, Accepted PROVE ConstantsDefined
    BY DEF ConstantsDefined
  <2>1. ASSUME NEW id \in AllIdsAdded
        PROVE  /\ id \in DOMAIN AnnotationMinApiLevel
               /\ id = "RESTRICTION_CATEGORY" => \E n \in DOMAIN decls : decls[n].restricted
    <3>1. PICK n \in DOMAIN decls : id \in IdsAdded(decls[n].decl)
      BY DEF AllIdsAdded
    <3>2. PICK b \in decls[n].decl.annotations : id = b[2]
      BY <3>1 DEF IdsAdded
    <3>3. PICK f \in Inserted : n = f.number
      BY AtomsInserted
    <3>4. /\ f \in AtomFields /\ decls[n].decl.annotations = DeclaredAtomAnnotations(f)
          /\ decls[n].restricted = Restricted(f)
      BY <3>3, InsertedAllowed
    <3>5. b \in DeclaredAtomAnnotations(f)
      BY <3>2, <3>4
    <3> QED BY <3>2, <3>4, <3>5, DeclaredAtomIds
  <2>2. ASSUME NEW l \in {API_Q, API_R, API_S, API_LEVEL_CURRENT},
               l > API_R \/ (\A n \in DOMAIN decls : ~decls[n].restricted)
        PROVE  CppNames(l) \subseteq HeaderConstants(l) \cup PlatformConstants(l)
    <3> SUFFICES ASSUME NEW x \in CppNames(l) PROVE x \in HeaderConstants(l) \cup PlatformConstants(l)
      OBVIOUS
    <3>0. l \in Int /\ API_R \in Int
      BY DEF API_Q, API_R, API_S, API_LEVEL_CURRENT
    <3>1. PICK id \in AllIdsAdded : x \in NamesOf(id, IF l > API_R THEN "ASTATSLOG_" ELSE "")
      BY DEF CppNames
    <3>2. CASE l > API_R
      <4>1. x \in NamesOf(id, "ASTATSLOG_")
        BY <3>1, <3>2
      <4> QED BY <2>1, <3>2, <4>1 DEF PlatformConstants, When
    <3>3. CASE ~(l > API_R)
      <4>1. x \in NamesOf(id, "") /\ id # "RESTRICTION_CATEGORY"
        BY <2>1, <2>2, <3>1, <3>3
      <4>2. x = <<"", id>> /\ id \in DOMAIN AnnotationMinApiLevel
        BY <2>1, <4>1 DEF NamesOf, When
      <4>3. l <= API_R
        BY <3>0, <3>3
      <4> QED BY <4>2, <4>3 DEF HeaderConstants, When
    <3> QED BY <3>2, <3>3
  <2>3. ASSUME NEW x \in JavaNames, x[1] = "" PROVE x \in write_java_annotation_constants
    <3>1. PICK id \in AllIdsAdded :
            x \in NamesOf(id, IF AnnotationMinApiLevel[id] >= API_U THEN "StatsLog." ELSE "")
      BY DEF JavaNames
    <3> DEFINE prefix == IF AnnotationMinApiLevel[id] >= API_U THEN "StatsLog." ELSE ""
    <3>2. x = <<prefix, id>> \/ (id = "RESTRICTION_CATEGORY" /\ x = <<prefix, "CATEGORY_VALUE">>)
      BY <3>1 DEF NamesOf, When
    <3>3. x[1] = prefix
      <4>1. \A p, y : x = <<p, y>> => x[1] = p
        OBVIOUS
      <4> HIDE DEF prefix
      <4> QED BY <3>2, <4>1
    <3>4. ~(AnnotationMinApiLevel[id] >= API_U)
      <4>1. prefix = ""
        BY <2>3, <3>3
      <4> QED BY <4>1
    <3>5. id \in DOMAIN AnnotationMinApiLevel
      BY <2>1
    <3>6. AnnotationMinApiLevel[id] = IF id \in AnnotationIdsFromS THEN API_S ELSE API_U
      BY <3>5 DEF AnnotationMinApiLevel
    <3>7. id \in AnnotationIdsFromS
      BY <3>4, <3>6 DEF API_U
    <3>8. AnnotationMinApiLevel[id] < API_U /\ prefix = "" /\ id # "RESTRICTION_CATEGORY"
      BY <3>6, <3>7 DEF API_S, API_U, AnnotationIdsFromS
    <3>9. x = <<"", id>>
      BY <3>2, <3>8
    <3> QED BY <3>5, <3>8, <3>9 DEF write_java_annotation_constants
  <2> QED BY <2>2, <2>3 DEF ConstantsDefined
<1> QED BY InvCorrect, <1>1, PTL

-----------------------------------------------------------------------------
(* The parameters of a signature are its encoding. *)

\* The word of each argument type: that of a chain, and the others' parameters.
Words(chain, parameters) ==
    [t \in JavaTypes |-> IF t = "ATTRIBUTION_CHAIN" THEN chain ELSE parameters[t]]

\* The parameters of a signature are the encoding of it.
LEMMA ParametersEncode ==
  ASSUME NEW s \in Seq(JavaTypes), NEW chain, NEW parameters
  PROVE  Parameters(s, chain, parameters) = Encode(Words(chain, parameters), s)
<1>1. \A k \in DOMAIN s : s[k] \in JavaTypes
  OBVIOUS
<1>2. \A k \in DOMAIN s : Words(chain, parameters)[s[k]]
                            = IF s[k] = "ATTRIBUTION_CHAIN" THEN chain ELSE parameters[s[k]]
  BY <1>1 DEF Words
<1>3. [k \in DOMAIN s |-> Words(chain, parameters)[s[k]]]
        = [k \in DOMAIN s |-> IF s[k] = "ATTRIBUTION_CHAIN" THEN chain ELSE parameters[s[k]]]
  BY <1>2
<1> QED BY <1>3 DEF Parameters, Encode

\* The argument types, one by one.
LEMMA ArgumentTypesListed ==
  /\ ArgumentTypes = {"FLOAT", "LONG", "INT", "BOOLEAN", "STRING", "BYTE_ARRAY", "ATTRIBUTION_CHAIN",
                      "FLOAT_ARRAY", "LONG_ARRAY", "INT_ARRAY", "BOOLEAN_ARRAY", "STRING_ARRAY"}
  /\ ArgumentTypes \subseteq JavaTypes
BY DEF ArgumentTypes, ChainedTypes, PlainTypes, PrimitiveJavaTypes, RepeatedJavaTypes, JavaTypes

\* The words of the C++ writer.
CppWords(isVendorAtomLogging) == Words(CppChain, [t \in JavaTypes |-> CppParameter(t, isVendorAtomLogging)])

\* The names of types that have a blank.
CppString == "char const*"
CppStrings == "vector<char const*>"

\* Types of parameters, and that of a WorkSource.
CppTypeNames == {"bool", "int32_t", "int64_t", "float", CppString, "vector<uint8_t>", "BytesField",
                 "vector<bool>", "bool*", "vector<int32_t>", "vector<int64_t>", "vector<float>",
                 CppStrings, "int32_t*", "size_t"}

\* Type names with a blank, told apart.
LEMMA BlankNames ==
  /\ CppString # CppStrings
  /\ \A name \in {"bool", "int32_t", "int64_t", "float", "vector<uint8_t>", "BytesField",
                   "vector<bool>", "bool*", "vector<int32_t>", "vector<int64_t>", "vector<float>",
                   "int32_t*", "size_t"} : name # CppString /\ name # CppStrings
<1>1. CppString # CppStrings
  BY Zenon DEF CppString, CppStrings
<1>2. \A name \in {"bool", "int32_t", "int64_t", "float", "vector<uint8_t>", "BytesField",
                   "vector<bool>", "bool*", "vector<int32_t>", "vector<int64_t>", "vector<float>",
                   "int32_t*", "size_t"} : name # CppString /\ name # CppStrings
  BY Zenon DEF CppString, CppStrings
<1> QED BY <1>1, <1>2

\* The types of Java parameters.
JavaTypeNames == {"boolean", "int", "long", "float", "String", "byte[]", "boolean[]", "int[]", "long[]",
                  "float[]", "String[]", "WorkSource"}

\* The types of arguments that are no chain.
PlainArguments == ArgumentTypes \ {"ATTRIBUTION_CHAIN"}

\* The plain argument types, one by one.
LEMMA PlainArgumentsListed ==
  /\ PlainArguments = {"FLOAT", "LONG", "INT", "BOOLEAN", "STRING", "BYTE_ARRAY",
                       "FLOAT_ARRAY", "LONG_ARRAY", "INT_ARRAY", "BOOLEAN_ARRAY", "STRING_ARRAY"}
  /\ PlainArguments \subseteq JavaTypes
  /\ ArgumentTypes = PlainArguments \cup {"ATTRIBUTION_CHAIN"}
BY ArgumentTypesListed DEF PlainArguments

\* cpp_type_name, type by type.
LEMMA CppNames1 ==
  ASSUME NEW v \in BOOLEAN
  PROVE  /\ cpp_type_name("FLOAT", v) = "float"
         /\ cpp_type_name("LONG", v) = "int64_t"
         /\ cpp_type_name("INT", v) = "int32_t"
         /\ cpp_type_name("BOOLEAN", v) = "bool"
         /\ cpp_type_name("STRING", v) = CppString
         /\ cpp_type_name("BYTE_ARRAY", v) = (IF v THEN "vector<uint8_t>" ELSE "BytesField")
         /\ cpp_type_name("FLOAT_ARRAY", v) = "vector<float>"
         /\ cpp_type_name("LONG_ARRAY", v) = "vector<int64_t>"
         /\ cpp_type_name("INT_ARRAY", v) = "vector<int32_t>"
         /\ cpp_type_name("ENUM_ARRAY", v) = "vector<int32_t>"
         /\ cpp_type_name("BOOLEAN_ARRAY", v) = (IF v THEN "vector<bool>" ELSE "bool*")
         /\ cpp_type_name("STRING_ARRAY", v) = CppStrings
<1>1. cpp_type_name("FLOAT", v) = "float"
  BY DEF cpp_type_name
<1>2. cpp_type_name("LONG", v) = "int64_t"
  BY DEF cpp_type_name
<1>3. cpp_type_name("INT", v) = "int32_t"
  BY DEF cpp_type_name
<1>4. cpp_type_name("BOOLEAN", v) = "bool"
  BY DEF cpp_type_name
<1>5. cpp_type_name("STRING", v) = CppString
  BY Zenon DEF cpp_type_name, CppString
<1>6. cpp_type_name("BYTE_ARRAY", v) = (IF v THEN "vector<uint8_t>" ELSE "BytesField")
  BY DEF cpp_type_name
<1>7. cpp_type_name("FLOAT_ARRAY", v) = "vector<float>"
  BY DEF cpp_type_name
<1>8. cpp_type_name("LONG_ARRAY", v) = "vector<int64_t>"
  BY DEF cpp_type_name
<1>9. cpp_type_name("INT_ARRAY", v) = "vector<int32_t>"
  BY DEF cpp_type_name
<1>10. cpp_type_name("ENUM_ARRAY", v) = "vector<int32_t>"
  BY DEF cpp_type_name
<1>11. cpp_type_name("BOOLEAN_ARRAY", v) = (IF v THEN "vector<bool>" ELSE "bool*")
  BY DEF cpp_type_name
<1>12. cpp_type_name("STRING_ARRAY", v) = CppStrings
  BY Zenon DEF cpp_type_name, CppStrings
<1> QED BY <1>1, <1>2, <1>3, <1>4, <1>5, <1>6, <1>7, <1>8, <1>9, <1>10, <1>11, <1>12

\* java_type_name, type by type.
LEMMA JavaNames1 ==
  /\ java_type_name("FLOAT") = "float"
  /\ java_type_name("LONG") = "long"
  /\ java_type_name("INT") = "int"
  /\ java_type_name("BOOLEAN") = "boolean"
  /\ java_type_name("STRING") = "String"
  /\ java_type_name("BYTE_ARRAY") = "byte[]"
  /\ java_type_name("FLOAT_ARRAY") = "float[]"
  /\ java_type_name("LONG_ARRAY") = "long[]"
  /\ java_type_name("INT_ARRAY") = "int[]"
  /\ java_type_name("ENUM_ARRAY") = "int[]"
  /\ java_type_name("BOOLEAN_ARRAY") = "boolean[]"
  /\ java_type_name("STRING_ARRAY") = "String[]"
<1>1. java_type_name("FLOAT") = "float"
  BY DEF java_type_name
<1>2. java_type_name("LONG") = "long"
  BY DEF java_type_name
<1>3. java_type_name("INT") = "int"
  BY DEF java_type_name
<1>4. java_type_name("BOOLEAN") = "boolean"
  BY DEF java_type_name
<1>5. java_type_name("STRING") = "String"
  BY DEF java_type_name
<1>6. java_type_name("BYTE_ARRAY") = "byte[]"
  BY DEF java_type_name
<1>7. java_type_name("FLOAT_ARRAY") = "float[]"
  BY DEF java_type_name
<1>8. java_type_name("LONG_ARRAY") = "long[]"
  BY DEF java_type_name
<1>9. java_type_name("INT_ARRAY") = "int[]"
  BY DEF java_type_name
<1>10. java_type_name("ENUM_ARRAY") = "int[]"
  BY DEF java_type_name
<1>11. java_type_name("BOOLEAN_ARRAY") = "boolean[]"
  BY DEF java_type_name
<1>12. java_type_name("STRING_ARRAY") = "String[]"
  BY DEF java_type_name
<1> QED BY <1>1, <1>2, <1>3, <1>4, <1>5, <1>6, <1>7, <1>8, <1>9, <1>10, <1>11, <1>12

\* The names of the types of plain arguments tell the types.
LEMMA CppNamesDistinct ==
  ASSUME NEW v \in BOOLEAN
  PROVE  /\ \A t \in PlainArguments : cpp_type_name(t, v) \in CppTypeNames
         /\ \A t, u \in PlainArguments : cpp_type_name(t, v) = cpp_type_name(u, v) => t = u
         /\ \A t \in PlainArguments : cpp_type_name(t, v) # "int32_t*"
<1> USE CppNames1, PlainArgumentsListed, BlankNames
<1>1. \A t \in PlainArguments : cpp_type_name(t, v) \in CppTypeNames
  BY DEF CppTypeNames
<1>2. \A t, u \in PlainArguments : cpp_type_name(t, v) = cpp_type_name(u, v) => t = u
  OBVIOUS
<1>3. \A t \in PlainArguments : cpp_type_name(t, v) # "int32_t*"
  OBVIOUS
<1> QED BY <1>1, <1>2, <1>3

\* Different plain arguments have different Java types.
LEMMA JavaNamesDistinct ==
  /\ \A t \in PlainArguments : java_type_name(t) \in JavaTypeNames \ {"WorkSource"}
  /\ \A t, u \in PlainArguments : java_type_name(t) = java_type_name(u) => t = u
  /\ \A t \in PlainArguments : java_type_name(t) = "int[]" => t = "INT_ARRAY"
  /\ \A t \in PlainArguments : java_type_name(t) = "String[]" => t = "STRING_ARRAY"
<1> USE JavaNames1, PlainArgumentsListed
<1>1. \A t \in PlainArguments : java_type_name(t) \in JavaTypeNames \ {"WorkSource"}
  BY DEF JavaTypeNames
<1>2. \A t, u \in PlainArguments : java_type_name(t) = java_type_name(u) => t = u
  OBVIOUS
<1>3. \A t \in PlainArguments : java_type_name(t) = "int[]" => t = "INT_ARRAY"
  OBVIOUS
<1>4. \A t \in PlainArguments : java_type_name(t) = "String[]" => t = "STRING_ARRAY"
  OBVIOUS
<1> QED BY <1>1, <1>2, <1>3, <1>4

\* The words of the C++ writer, argument by argument.
LEMMA CppWordsOf ==
  ASSUME NEW v \in BOOLEAN
  PROVE  /\ CppWords(v)["ATTRIBUTION_CHAIN"] = CppChain
         /\ \A t \in PlainArguments : CppWords(v)[t] = CppParameter(t, v)
<1>1. "ATTRIBUTION_CHAIN" \in JavaTypes /\ PlainArguments \subseteq JavaTypes
  BY ArgumentTypesListed DEF JavaTypes, PlainArguments
<1> QED BY <1>1 DEF CppWords, Words, PlainArguments

\* The types of C++ parameters tell the types of the arguments.
LEMMA CppDecodable ==
  ASSUME NEW v \in BOOLEAN
  PROVE  Decodable(CppWords(v), ArgumentTypes, CppTypeNames)
<1> DEFINE w == CppWords(v)
<1>1. ASSUME NEW t \in PlainArguments
      PROVE  w[t] \in Seq(CppTypeNames) /\ w[t] # <<>> /\ w[t][1] = cpp_type_name(t, v)
  <2> DEFINE c == cpp_type_name(t, v)
             size == IF t = "BOOLEAN_ARRAY" /\ ~v THEN <<"size_t">> ELSE <<>>
  <2>1. c \in CppTypeNames
    BY CppNamesDistinct
  <2>2. size \in Seq(CppTypeNames)
    <3>1. <<"size_t">> \in Seq(CppTypeNames) /\ <<>> \in Seq(CppTypeNames)
      BY DEF CppTypeNames
    <3> QED BY <3>1
  <2>3. w[t] = <<c>> \o size
    BY CppWordsOf DEF CppParameter
  <2> HIDE DEF c, size, w
  <2>4. <<c>> \o size \in Seq(CppTypeNames) /\ <<c>> \o size # <<>> /\ (<<c>> \o size)[1] = c
    BY <2>1, <2>2
  <2> QED BY <2>3, <2>4 DEF c
<1>2. /\ w["ATTRIBUTION_CHAIN"] \in Seq(CppTypeNames)
      /\ w["ATTRIBUTION_CHAIN"] # <<>>
      /\ w["ATTRIBUTION_CHAIN"][1] = "int32_t*"
  <2>1. CppChain = <<"int32_t*", "size_t", CppStrings>>
    BY Zenon DEF CppChain, CppStrings
  <2>2. CppChain \in Seq(CppTypeNames) /\ CppChain # <<>> /\ CppChain[1] = "int32_t*"
    BY <2>1 DEF CppTypeNames
  <2> QED BY <2>2, CppWordsOf
<1> HIDE DEF w
<1>3. \A t \in ArgumentTypes : w[t] \in Seq(CppTypeNames) /\ w[t] # <<>>
  BY <1>1, <1>2, PlainArgumentsListed
<1>4. \A t, u \in ArgumentTypes : w[t][1] = w[u][1] => t = u
  <2>1. \A t \in PlainArguments : w[t][1] = cpp_type_name(t, v) /\ w[t][1] # w["ATTRIBUTION_CHAIN"][1]
    BY <1>1, <1>2, CppNamesDistinct
  <2>2. \A t, u \in PlainArguments : w[t][1] = w[u][1] => t = u
    BY <2>1, CppNamesDistinct
  <2> QED BY <2>1, <2>2, PlainArgumentsListed
<1> QED BY <1>3, <1>4 DEF Decodable, Code, w

\* The words of the Java writers.
JavaWords(chain) == Words(chain, JavaParameter)

\* The words of the Java writers, argument by argument.
LEMMA JavaWordsOf ==
  ASSUME NEW chain
  PROVE  /\ JavaWords(chain)["ATTRIBUTION_CHAIN"] = chain
         /\ \A t \in PlainArguments : JavaWords(chain)[t] = <<java_type_name(t)>>
<1>1. "ATTRIBUTION_CHAIN" \in JavaTypes /\ PlainArguments \subseteq JavaTypes
  BY ArgumentTypesListed DEF JavaTypes, PlainArguments
<1> QED BY <1>1 DEF JavaWords, Words, JavaParameter, PlainArguments

\* The plain arguments can be told from their Java parameters.
LEMMA JavaDecodable ==
  ASSUME NEW chain
  PROVE  /\ Decodable(JavaWords(chain), PlainArguments, JavaTypeNames)
         /\ chain = <<"WorkSource">> => Decodable(JavaWords(chain), ArgumentTypes, JavaTypeNames)
         /\ chain \in Seq(JavaTypeNames) => Code(JavaWords(chain), ArgumentTypes, JavaTypeNames)
<1> DEFINE w == JavaWords(chain)
<1>1. ASSUME NEW t \in PlainArguments
      PROVE  w[t] \in Seq(JavaTypeNames) /\ w[t] # <<>> /\ w[t][1] = java_type_name(t)
  <2> DEFINE c == java_type_name(t)
  <2>1. w[t] = <<c>> /\ c \in JavaTypeNames
    BY JavaWordsOf, JavaNamesDistinct
  <2> HIDE DEF c, w
  <2> QED BY <2>1 DEF c
<1>2. ArgumentTypes = PlainArguments \cup {"ATTRIBUTION_CHAIN"}
  BY PlainArgumentsListed
<1>3. w["ATTRIBUTION_CHAIN"] = chain
  BY JavaWordsOf
<1> HIDE DEF w
<1>4. Decodable(w, PlainArguments, JavaTypeNames)
  BY <1>1, JavaNamesDistinct DEF Decodable, Code
<1>5. ASSUME chain = <<"WorkSource">> PROVE Decodable(w, ArgumentTypes, JavaTypeNames)
  <2>1. chain \in Seq(JavaTypeNames) /\ chain # <<>> /\ chain[1] = "WorkSource"
    BY <1>5 DEF JavaTypeNames
  <2>2. \A t \in PlainArguments : w[t][1] # "WorkSource"
    BY <1>1, JavaNamesDistinct
  <2>3. \A t, u \in ArgumentTypes : w[t][1] = w[u][1] => t = u
    BY <1>2, <1>3, <1>4, <2>1, <2>2 DEF Decodable
  <2> QED BY <1>1, <1>2, <1>3, <2>1, <2>3 DEF Decodable, Code
<1>6. ASSUME chain \in Seq(JavaTypeNames) PROVE Code(w, ArgumentTypes, JavaTypeNames)
  BY <1>1, <1>2, <1>3, <1>6 DEF Code
<1> QED BY <1>4, <1>5, <1>6 DEF w

\* In a signature with a chain no other argument is one.
LEMMA ChainThenPlain ==
  ASSUME NEW s \in Seq(ArgumentTypes), ChainFirst(s)
  PROVE  /\ "ATTRIBUTION_CHAIN" \notin TypesIn(s) => s \in Seq(PlainArguments)
         /\ "ATTRIBUTION_CHAIN" \in TypesIn(s) =>
              s # <<>> /\ s[1] = "ATTRIBUTION_CHAIN" /\ Tail(s) \in Seq(PlainArguments)
<1>1. Len(s) \in Nat /\ DOMAIN s = 1 .. Len(s) /\ s = [k \in 1 .. Len(s) |-> s[k]]
      /\ \A k \in 1 .. Len(s) : s[k] \in ArgumentTypes
  OBVIOUS
<1>2. ASSUME "ATTRIBUTION_CHAIN" \notin TypesIn(s) PROVE s \in Seq(PlainArguments)
  <2>1. \A k \in 1 .. Len(s) : s[k] \in PlainArguments
    BY <1>1, <1>2 DEF TypesIn, PlainArguments
  <2> QED BY <1>1, <2>1
<1>3. ASSUME "ATTRIBUTION_CHAIN" \in TypesIn(s)
      PROVE  s # <<>> /\ s[1] = "ATTRIBUTION_CHAIN" /\ Tail(s) \in Seq(PlainArguments)
  <2>1. PICK k \in 1 .. Len(s) : s[k] = "ATTRIBUTION_CHAIN"
    BY <1>1, <1>3 DEF TypesIn
  <2>2. s # <<>> /\ s[1] = "ATTRIBUTION_CHAIN"
    BY <1>1, <2>1 DEF ChainFirst
  <2> DEFINE r == Tail(s)
  <2>3. r \in Seq(ArgumentTypes) /\ Len(s) = Len(r) + 1 /\ \A j \in 1 .. Len(r) : r[j] = s[j + 1]
    BY <2>2, RestExists DEF RestOf
  <2> HIDE DEF r
  <2>4. ASSUME NEW j \in 1 .. Len(r) PROVE r[j] \in PlainArguments
    <3>1. Len(r) \in Nat /\ j + 1 \in 1 .. Len(s) /\ j + 1 # 1 /\ r[j] = s[j + 1]
      BY <2>3
    <3>2. s[j + 1] # "ATTRIBUTION_CHAIN"
      BY <1>1, <3>1 DEF ChainFirst
    <3> QED BY <1>1, <3>1, <3>2 DEF PlainArguments
  <2>5. r \in Seq(PlainArguments)
    BY <2>3, <2>4
  <2> QED BY <2>2, <2>5 DEF r
<1> QED BY <1>2, <1>3

-----------------------------------------------------------------------------
(* Overloads. *)

\* The fields of a chain, spelled out in a signature.
ChainSpelled(s) == \E k \in 1 .. Len(s) - 1 : s[k] = "INT_ARRAY" /\ s[k + 1] = "STRING_ARRAY"

\* The first two words of a plain signature that starts as a chain does.
LEMMA StartsAsChain ==
  ASSUME NEW s \in Seq(PlainArguments), NEW rest \in Seq(JavaTypeNames),
         Encode(JavaWords(JavaChain), s) = JavaChain \o rest
  PROVE  ChainSpelled(s)
<1> DEFINE w == JavaWords(JavaChain)
           a == "int[]"
           b == "String[]"
<1>1. Decodable(w, PlainArguments, JavaTypeNames)
  BY JavaDecodable
<1>2. \A t \in PlainArguments : w[t] = <<java_type_name(t)>> /\ java_type_name(t) \in JavaTypeNames
  BY JavaWordsOf, JavaNamesDistinct
<1>3. JavaChain = <<a, b>> /\ a \in JavaTypeNames /\ b \in JavaTypeNames
  BY DEF JavaChain, JavaTypeNames
<1>4. \A t \in PlainArguments : /\ java_type_name(t) = a => t = "INT_ARRAY"
                                /\ java_type_name(t) = b => t = "STRING_ARRAY"
  BY JavaNamesDistinct
<1>5. Encode(w, s) = JavaChain \o rest
  OBVIOUS
<1> HIDE DEF w, a, b
<1> DEFINE q == <<b>> \o rest
<1>6. JavaChain \o rest = FirstThen(a, q) /\ q # <<>> /\ JavaChain \o rest # <<>> /\ q \in Seq(JavaTypeNames)
  <2> DEFINE x == <<a>>
             y == <<b>>
  <2>0a. x \in Seq(JavaTypeNames) /\ y \in Seq(JavaTypeNames)
    BY <1>3
  <2>0b. x \o y = <<a, b>>
    <3> DEFINE u == x \o y
               v == <<a, b>>
    <3>1. u \in Seq(JavaTypeNames) /\ Len(u) = 2 /\ u[1] = a /\ u[2] = b
      BY <1>3
    <3>2. v \in Seq(JavaTypeNames) /\ Len(v) = 2 /\ v[1] = a /\ v[2] = b
      BY <1>3
    <3> HIDE DEF u, v
    <3>3. \A k \in 1 .. Len(u) : u[k] = v[k]
      BY <3>1, <3>2
    <3>4. u = v
      BY <3>1, <3>2, <3>3, SeqEqual
    <3> QED BY <3>4 DEF u, v
  <2>1. x \in Seq(JavaTypeNames) /\ y \in Seq(JavaTypeNames) /\ JavaChain = x \o y
    BY <1>3, <2>0a, <2>0b
  <2> HIDE DEF x, y
  <2>2a. (x \o y) \o rest = x \o (y \o rest)
    BY <2>1, ConcatStep, SMTT(30)
  <2>2. JavaChain \o rest = x \o (y \o rest)
    BY <2>1, <2>2a
  <2> USE DEF x, y
  <2>3. Len(q) = 1 + Len(rest) /\ Len(JavaChain \o rest) = 2 + Len(rest) /\ Len(rest) \in Nat
        /\ q \in Seq(JavaTypeNames)
    BY <1>3
  <2> QED BY <2>2, <2>3 DEF FirstThen
<1> HIDE DEF q
<1>7. s # <<>>
  BY <1>5, <1>6, EncodeEmpty
<1>8. /\ Encode(w, s) = w[s[1]] \o Encode(w, Tail(s)) /\ Encode(w, Tail(s)) \in Seq(JavaTypeNames)
      /\ s[1] \in PlainArguments /\ Tail(s) \in Seq(PlainArguments)
  BY <1>1, <1>7, EncodeUnfold, RestExists
<1> DEFINE r == Tail(s)
           e == Encode(w, r)
           n == java_type_name(s[1])
<1>9. FirstThen(n, e) = FirstThen(a, q) /\ n \in JavaTypeNames /\ e \in Seq(JavaTypeNames)
  <2>1. Encode(w, s) = FirstThen(n, e)
    BY <1>2, <1>8 DEF FirstThen
  <2> QED BY <1>2, <1>5, <1>6, <1>8, <2>1
<1> HIDE DEF e, n
<1>10. n = a /\ e = q
  BY <1>3, <1>6, <1>9, HeadTailOne
<1>11. r # <<>>
  BY <1>6, <1>10, EncodeEmpty DEF e
<1>12. r \in Seq(PlainArguments) /\ RestOf(s, r)
  BY <1>7, RestExists
<1> HIDE DEF r
<1>13. /\ Encode(w, r) = w[r[1]] \o Encode(w, Tail(r)) /\ Encode(w, Tail(r)) \in Seq(JavaTypeNames)
       /\ r[1] \in PlainArguments
  BY <1>1, <1>11, <1>12, EncodeUnfold, RestExists
<1> DEFINE m == java_type_name(r[1])
           g == Encode(w, Tail(r))
<1>14. FirstThen(m, g) = FirstThen(b, rest) /\ m \in JavaTypeNames /\ g \in Seq(JavaTypeNames)
  BY <1>2, <1>10, <1>13 DEF e, q, FirstThen
<1> HIDE DEF m, g
<1>15. m = b
  BY <1>3, <1>14, HeadTailOne
<1>16. s[1] = "INT_ARRAY" /\ r[1] = "STRING_ARRAY"
  BY <1>4, <1>8, <1>10, <1>13, <1>15 DEF n, m
<1>17. 1 \in 1 .. Len(r) /\ Len(r) \in Nat
  BY <1>11, <1>12
<1>18. 1 \in 1 .. Len(s) - 1 /\ s[1 + 1] = r[1]
  BY <1>12, <1>17 DEF RestOf
<1> QED BY <1>16, <1>18 DEF ChainSpelled

\* The parameters of a Java method tell its signature, unless they may be those of
\* a chain or of the fields of one.
LEMMA JavaParametersTell ==
  ASSUME NEW s \in Seq(ArgumentTypes), ChainFirst(s), ~ChainSpelled(s),
         NEW t \in Seq(ArgumentTypes), ChainFirst(t), ~ChainSpelled(t),
         Parameters(s, JavaChain, JavaParameter) = Parameters(t, JavaChain, JavaParameter)
  PROVE  s = t
<1> DEFINE w == JavaWords(JavaChain)
           Plain(x) == x \in Seq(PlainArguments)
           Unplain(x) == /\ x # <<>> /\ x[1] = "ATTRIBUTION_CHAIN" /\ Tail(x) \in Seq(PlainArguments)
                         /\ Encode(w, x) = JavaChain \o Encode(w, Tail(x))
                         /\ Encode(w, Tail(x)) \in Seq(JavaTypeNames)
<1>1. JavaChain \in Seq(JavaTypeNames)
  BY DEF JavaChain, JavaTypeNames
<1>2. /\ Decodable(w, PlainArguments, JavaTypeNames) /\ Code(w, ArgumentTypes, JavaTypeNames)
      /\ Code(w, PlainArguments, JavaTypeNames)
      /\ w["ATTRIBUTION_CHAIN"] = JavaChain
  BY <1>1, JavaDecodable, JavaWordsOf DEF Decodable
<1>3. Encode(w, s) = Encode(w, t)
  <2>1. s \in Seq(JavaTypes) /\ t \in Seq(JavaTypes)
    BY ArgumentTypesListed
  <2> QED BY <2>1, ParametersEncode DEF JavaWords
<1> HIDE DEF w
<1>4. ASSUME NEW x \in Seq(ArgumentTypes), ChainFirst(x) PROVE Plain(x) \/ Unplain(x)
  <2>1. CASE "ATTRIBUTION_CHAIN" \notin TypesIn(x)
    BY <2>1, <1>4, ChainThenPlain
  <2>2. CASE "ATTRIBUTION_CHAIN" \in TypesIn(x)
    <3>1. x # <<>> /\ x[1] = "ATTRIBUTION_CHAIN" /\ Tail(x) \in Seq(PlainArguments)
      BY <2>2, <1>4, ChainThenPlain
    <3>2. Encode(w, x) = w[x[1]] \o Encode(w, Tail(x))
      BY <1>2, <3>1, EncodeTail
    <3> DEFINE r == Tail(x)
    <3> HIDE DEF r
    <3>3. Encode(w, r) \in Seq(JavaTypeNames)
      BY <1>2, <3>1, EncodeInSeq DEF r
    <3> QED BY <1>2, <3>1, <3>2, <3>3 DEF r
  <2> QED BY <2>1, <2>2
<1>5. ASSUME NEW x \in Seq(PlainArguments), ~ChainSpelled(x), NEW y, Unplain(y), Encode(w, x) = Encode(w, y)
      PROVE  FALSE
  <2> DEFINE rest == Encode(w, Tail(y))
  <2>1. rest \in Seq(JavaTypeNames) /\ Encode(w, x) = JavaChain \o rest
    BY <1>5
  <2> HIDE DEF rest
  <2> QED BY <1>5, <2>1, StartsAsChain DEF w
<1>6. CASE Plain(s) /\ Plain(t)
  BY <1>2, <1>3, <1>6, EncodeInjective
<1>7. CASE Unplain(s) /\ Unplain(t)
  <2> DEFINE p == Tail(s)
             q == Tail(t)
  <2>1. /\ JavaChain \o Encode(w, p) = JavaChain \o Encode(w, q)
        /\ Encode(w, p) \in Seq(JavaTypeNames) /\ Encode(w, q) \in Seq(JavaTypeNames)
        /\ p \in Seq(PlainArguments) /\ q \in Seq(PlainArguments)
        /\ s # <<>> /\ t # <<>> /\ s[1] = t[1]
    BY <1>3, <1>7
  <2> HIDE DEF p, q
  <2>2. Encode(w, p) = Encode(w, q)
    BY <1>1, <2>1, CancelFirst
  <2>3. p = q
    BY <1>2, <2>1, <2>2, EncodeInjective
  <2> QED BY <2>1, <2>3, FirstAndRest DEF p, q
<1> HIDE DEF Unplain
<1> QED BY <1>3, <1>4, <1>5, <1>6, <1>7

\* The parameters of a C++ method tell its signature.
LEMMA CppParametersTell ==
  ASSUME NEW v \in BOOLEAN, NEW s \in Seq(ArgumentTypes), NEW t \in Seq(ArgumentTypes),
         NEW name, native_method_signature(name, s, v).params = native_method_signature(name, t, v).params
  PROVE  s = t
<1>1. s \in Seq(JavaTypes) /\ t \in Seq(JavaTypes)
  BY ArgumentTypesListed
<1> DEFINE parameter == [u \in JavaTypes |-> CppParameter(u, v)]
<1>2. /\ native_method_signature(name, s, v).params = Parameters(s, CppChain, parameter)
      /\ native_method_signature(name, t, v).params = Parameters(t, CppChain, parameter)
  BY DEF native_method_signature, Method
<1>3. CppWords(v) = Words(CppChain, parameter)
  BY DEF CppWords
<1> HIDE DEF parameter
<1>4. Encode(CppWords(v), s) = Encode(CppWords(v), t)
  BY <1>1, <1>2, <1>3, ParametersEncode
<1> QED BY <1>4, CppDecodable, EncodeInjective

\* The parameters of a method that takes a WorkSource tell its signature.
LEMMA WorkSourceParametersTell ==
  ASSUME NEW s \in Seq(ArgumentTypes), NEW t \in Seq(ArgumentTypes),
         Parameters(s, <<"WorkSource">>, JavaParameter) = Parameters(t, <<"WorkSource">>, JavaParameter)
  PROVE  s = t
<1> DEFINE c == <<"WorkSource">>
<1>1. s \in Seq(JavaTypes) /\ t \in Seq(JavaTypes)
  BY ArgumentTypesListed
<1>2. Decodable(JavaWords(c), ArgumentTypes, JavaTypeNames)
  BY JavaDecodable
<1> HIDE DEF c
<1>3. Encode(JavaWords(c), s) = Encode(JavaWords(c), t)
  BY <1>1, ParametersEncode DEF JavaWords, c
<1> QED BY <1>2, <1>3, EncodeInjective

\* A WorkSource is the first parameter of its method, and of no other method.
LEMMA WorkSourceTold ==
  ASSUME NEW s \in Seq(ArgumentTypes), ChainFirst(s), "ATTRIBUTION_CHAIN" \in TypesIn(s),
         NEW t \in Seq(ArgumentTypes)
  PROVE  Parameters(s, <<"WorkSource">>, JavaParameter) # Parameters(t, JavaChain, JavaParameter)
<1> DEFINE c == <<"WorkSource">>
           w == JavaWords(c)
           u == JavaWords(JavaChain)
<1>1. s \in Seq(JavaTypes) /\ t \in Seq(JavaTypes)
  BY ArgumentTypesListed
<1>2. Decodable(w, ArgumentTypes, JavaTypeNames) /\ w["ATTRIBUTION_CHAIN"][1] = "WorkSource"
  <2>1. c[1] = "WorkSource" /\ w["ATTRIBUTION_CHAIN"] = c
    BY JavaWordsOf
  <2> QED BY <2>1, JavaDecodable
<1>3. JavaChain \in Seq(JavaTypeNames) /\ JavaChain # <<>> /\ JavaChain[1] # "WorkSource"
  BY DEF JavaChain, JavaTypeNames
<1>4. \A x \in ArgumentTypes : u[x] \in Seq(JavaTypeNames) /\ u[x] # <<>> /\ u[x][1] # "WorkSource"
  <2>1. ASSUME NEW x \in PlainArguments
        PROVE  u[x] \in Seq(JavaTypeNames) /\ u[x] # <<>> /\ u[x][1] # "WorkSource"
    <3> DEFINE n == java_type_name(x)
    <3>1. u[x] = <<n>> /\ n \in JavaTypeNames /\ n # "WorkSource"
      BY JavaWordsOf, JavaNamesDistinct
    <3> HIDE DEF n, u
    <3> QED BY <3>1
  <2>2. u["ATTRIBUTION_CHAIN"] = JavaChain
    BY JavaWordsOf
  <2> HIDE DEF u
  <2> QED BY <1>3, <2>1, <2>2, PlainArgumentsListed
<1> HIDE DEF c, w, u
<1>5. Parameters(s, c, JavaParameter) = Encode(w, s) /\ Parameters(t, JavaChain, JavaParameter) = Encode(u, t)
  BY <1>1, ParametersEncode DEF JavaWords, w, u
<1>6. Encode(w, s) # <<>> /\ Encode(w, s)[1] = "WorkSource"
  <2>1. s # <<>> /\ s[1] = "ATTRIBUTION_CHAIN"
    BY ChainThenPlain
  <2> QED BY <1>2, <2>1, EncodeUnfold
<1>7. CASE t = <<>>
  BY <1>5, <1>6, <1>7, EncodeEmpty DEF c
<1>8. CASE t # <<>>
  <2> DEFINE e == Encode(u, Tail(t))
             x == u[t[1]]
  <2>1. Code(u, ArgumentTypes, JavaTypeNames)
    BY <1>4 DEF Code
  <2>2. Tail(t) \in Seq(ArgumentTypes) /\ t[1] \in ArgumentTypes
    BY <1>8, RestExists
  <2>3. Encode(u, t) = x \o e
    BY <1>8, <2>1, EncodeTail
  <2>4. e \in Seq(JavaTypeNames)
    <3> DEFINE r == Tail(t)
    <3>1. r \in Seq(ArgumentTypes)
      BY <2>2
    <3> HIDE DEF r
    <3>2. Encode(u, r) \in Seq(JavaTypeNames)
      BY <2>1, <3>1, EncodeInSeq
    <3> QED BY <3>2 DEF r
  <2>5. x \in Seq(JavaTypeNames) /\ x # <<>> /\ x[1] # "WorkSource"
    BY <1>4, <2>2
  <2> HIDE DEF x, e
  <2>6. (x \o e)[1] = x[1]
    BY <2>4, <2>5
  <2> QED BY <1>5, <1>6, <2>3, <2>5, <2>6 DEF c
<1> QED BY <1>7, <1>8

\* Without a repeated enum behind a chain the non-chained signatures are like others.
LEMMA NonChainedPlain ==
  ASSUME Inv, Accepted, ~ChainWithEnums, NEW s \in DOMAIN nonChainedSignatureInfoMap
  PROVE  s \in Seq(PlainArguments)
<1>1. PICK f \in Inserted : HasChain(f.fields) /\ s = NonChainedSignature(f.fields)
  BY NonChainedFacts
<1> DEFINE a == AtomOf(f)
           n == Len(a.fields)
           d == NonChainedFields(a.fields)
<1>2. a \in AtomProtos /\ WellFormed(a) /\ a.fields = f.fields
  BY InsertedAllowed
<1>3. f.number \in DOMAIN non_chained_decls /\ non_chained_decls[f.number] = d
  BY <1>1, <1>2 DEF Inv, NonChainedTables
<1>4. "ENUM_ARRAY" \notin TypesIn(d)
  BY <1>3 DEF ChainWithEnums
<1> HIDE DEF a
<1>5. /\ n \in Nat \ {0} /\ s \in Seq(JavaTypes) /\ Len(s) = n + 1 /\ DOMAIN s = 1 .. n + 1 /\ DOMAIN d = 1 .. n + 1
      /\ s[1] = "INT" /\ s[2] = "STRING"
      /\ \A k \in 2 .. n : s[k + 1] = NonChainedSignatureType(FlatType(a.fields[k]))
      /\ \A k \in 2 .. n : d[k + 1] = FlatType(a.fields[k])
  BY <1>1, <1>2, NonChainedVariant
<1>6. \A k \in 1 .. n : FlatType(a.fields[k]) \in ChainedTypes \cup RepeatedJavaTypes
  BY <1>2, AllowedArgument
<1>6a. \A k \in 2 .. n : FlatType(a.fields[k]) # "ATTRIBUTION_CHAIN"
  BY <1>1, <1>2, NonChainedVariant
<1>7. \A jt \in ChainedTypes \cup RepeatedJavaTypes :
        jt # "ENUM_ARRAY" /\ jt # "ATTRIBUTION_CHAIN" => NonChainedSignatureType(jt) \in PlainArguments
  BY PlainArgumentsListed
     DEF ChainedTypes, PlainTypes, PrimitiveJavaTypes, RepeatedJavaTypes, NonChainedSignatureType
<1> HIDE DEF n, d
<1>8. ASSUME NEW k \in 2 .. n PROVE s[k + 1] \in PlainArguments
  <2>1. k \in 1 .. n /\ k + 1 \in 1 .. n + 1
    BY <1>5
  <2>2. d[k + 1] # "ENUM_ARRAY"
    BY <1>4, <1>5, <2>1 DEF TypesIn
  <2> QED BY <1>5, <1>6, <1>6a, <1>7, <2>1, <2>2
<1>9. ASSUME NEW j \in 1 .. n + 1 PROVE s[j] \in PlainArguments
  <2>1. CASE j \in {1, 2}
    BY <1>5, <2>1, PlainArgumentsListed
  <2>2. CASE j \notin {1, 2}
    <3>1. j - 1 \in 2 .. n /\ (j - 1) + 1 = j
      BY <1>5, <2>2
    <3> QED BY <1>8, <3>1
  <2> QED BY <2>1, <2>2
<1> QED BY <1>5, <1>9

\* No file declares a method twice, whatever the atoms.
THEOREM OverloadsCorrect == Spec => []OverloadsDistinct
<1>1. ASSUME Inv, Accepted, NEW s \in Signatures
      PROVE  s \in Seq(ArgumentTypes) /\ ChainFirst(s)
  BY <1>1, SignatureFacts
<1>2. ASSUME Inv, Accepted, ~ChainWithEnums, NEW s \in DOMAIN nonChainedSignatureInfoMap
      PROVE  s \in Seq(PlainArguments) /\ s \in Seq(ArgumentTypes) /\ ChainFirst(s)
  <2>1. s \in Seq(PlainArguments)
    BY <1>2, NonChainedPlain
  <2>2. \A k \in DOMAIN s : s[k] \in PlainArguments
    BY <2>1
  <2> QED BY <2>1, <2>2, PlainArgumentsListed DEF ChainFirst, PlainArguments
<1>3. ASSUME Inv, Accepted, ~ChainWithEnums PROVE Distinct(CppMethods)
  <2> SUFFICES ASSUME NEW m \in CppMethods, NEW o \in CppMethods, m.name = o.name, m.params = o.params
               PROVE  m = o
    BY DEF Distinct
  <2>1. ASSUME NEW x \in CppMethods
        PROVE  \E s \in Seq(ArgumentTypes) : x = native_method_signature(x.name, s, FALSE)
    <3>1. \A name, s : native_method_signature(name, s, FALSE).name = name
      BY DEF native_method_signature, Method
    <3>2. \/ \E s \in DOMAIN signatureInfoMap : x = native_method_signature("stats_write", s, FALSE)
          \/ \E s \in DOMAIN nonChainedSignatureInfoMap :
               x = native_method_signature("stats_write_non_chained", s, FALSE)
          \/ \E s \in DOMAIN pulledAtomsSignatureInfoMap : x = native_method_signature("addAStatsEvent", s, FALSE)
      BY DEF CppMethods
    <3> QED BY <1>1, <1>2, <1>3, <3>1, <3>2 DEF Signatures
  <2>2. PICK s \in Seq(ArgumentTypes) : m = native_method_signature(m.name, s, FALSE)
    BY <2>1
  <2>3. PICK t \in Seq(ArgumentTypes) : o = native_method_signature(o.name, t, FALSE)
    BY <2>1
  <2> DEFINE n == m.name
             v == FALSE
  <2>4. m = native_method_signature(n, s, v) /\ o = native_method_signature(n, t, v) /\ v \in BOOLEAN
    BY <2>2, <2>3
  <2> HIDE DEF n, v
  <2>5. s = t
    BY <2>4, CppParametersTell
  <2> QED BY <2>4, <2>5
<1>4. ASSUME Inv, Accepted PROVE Distinct(CppVendorMethods)
  <2> SUFFICES ASSUME NEW m \in CppVendorMethods, NEW o \in CppVendorMethods, m.params = o.params
               PROVE  m = o
    BY DEF Distinct
  <2> DEFINE n == "createVendorAtom"
             v == TRUE
  <2>1. PICK s \in DOMAIN signatureInfoMap : m = native_method_signature(n, s, v)
    BY DEF CppVendorMethods
  <2>2. PICK t \in DOMAIN signatureInfoMap : o = native_method_signature(n, t, v)
    BY DEF CppVendorMethods
  <2>3. s \in Seq(ArgumentTypes) /\ t \in Seq(ArgumentTypes) /\ v \in BOOLEAN
    BY <1>1, <1>4 DEF Signatures
  <2> HIDE DEF n, v
  <2>4. s = t
    BY <2>1, <2>2, <2>3, CppParametersTell
  <2> QED BY <2>1, <2>2, <2>4
<1>5. ASSUME Inv, Accepted, ~ChainWithEnums, ~LooksChained, NEW ws \in BOOLEAN
      PROVE  Distinct(AllJavaMethods(ws, API_Q))
  <2> DEFINE w == "write"
             u == "write_non_chained"
             c == <<"WorkSource">>
             Ordinary(s) == s \in Seq(ArgumentTypes) /\ ChainFirst(s) /\ ~ChainSpelled(s)
             HasChains(s) == "ATTRIBUTION_CHAIN" \in TypesIn(s)
             A(x) == \E s : Ordinary(s) /\ x = java_method_signature(x.name, s) /\ x.name # u
             B(x) == \E s : s \in Seq(PlainArguments) /\ x = java_method_signature(u, s)
             C(x) == \E s : Ordinary(s) /\ HasChains(s) /\ x = Method(w, Parameters(s, c, JavaParameter), s)
  <2> SUFFICES ASSUME NEW m \in AllJavaMethods(ws, API_Q), NEW o \in AllJavaMethods(ws, API_Q),
                      m.name = o.name, m.params = o.params
               PROVE  m = o
    BY DEF Distinct
  <2>1. \A s \in Signatures : Ordinary(s)
    BY <1>1, <1>5 DEF LooksChained, ChainSpelled
  <2>2. \A s \in DOMAIN nonChainedSignatureInfoMap : s \in Seq(PlainArguments)
    BY <1>2, <1>5
  <2>3. \A name, s : /\ java_method_signature(name, s).name = name
                     /\ java_method_signature(name, s).params = Parameters(s, JavaChain, JavaParameter)
    BY DEF java_method_signature, Method
  <2>4. \A s : /\ Method(w, Parameters(s, c, JavaParameter), s).name = w
               /\ Method(w, Parameters(s, c, JavaParameter), s).params = Parameters(s, c, JavaParameter)
    BY DEF Method
  <2>5. w # u /\ "buildStatsEvent" # u /\ "QLogger.write" # u
    OBVIOUS
  <2>6. ASSUME NEW x \in AllJavaMethods(ws, API_Q) PROVE A(x) \/ B(x) \/ C(x)
    <3>1. \/ \E s \in DOMAIN signatureInfoMap : x = java_method_signature(w, s)
          \/ \E s \in DOMAIN nonChainedSignatureInfoMap : x = java_method_signature(u, s)
          \/ \E s \in DOMAIN pulledAtomsSignatureInfoMap : x = java_method_signature("buildStatsEvent", s)
          \/ \E s \in DOMAIN signatureInfoMap :
               HasChains(s) /\ x = Method(w, Parameters(s, c, JavaParameter), s)
          \/ \E s \in DOMAIN signatureInfoMap : x = java_method_signature("QLogger.write", s)
      BY DEF AllJavaMethods, JavaMethods, WorkSourceMethods, QLoggerMethods, WithChain
    <3>2. \A s \in DOMAIN signatureInfoMap \cup DOMAIN pulledAtomsSignatureInfoMap : Ordinary(s)
      BY <2>1 DEF Signatures
    <3> HIDE DEF w, u, c, Ordinary, HasChains
    <3>3. ASSUME NEW s, NEW name, Ordinary(s), x = java_method_signature(name, s), name # u PROVE A(x)
      BY <2>3, <3>3
    <3>4. ASSUME NEW s \in DOMAIN nonChainedSignatureInfoMap, x = java_method_signature(u, s) PROVE B(x)
      BY <2>2, <3>4
    <3>5. ASSUME NEW s \in DOMAIN signatureInfoMap, HasChains(s), x = Method(w, Parameters(s, c, JavaParameter), s)
          PROVE  C(x)
      BY <3>2, <3>5
    <3> HIDE DEF A, B, C
    <3> QED BY <2>5, <3>1, <3>2, <3>3, <3>4, <3>5
  <2>7. /\ A(m) \/ B(m) \/ C(m)
        /\ A(o) \/ B(o) \/ C(o)
    BY <2>6
  <2> HIDE DEF w, u, c
  <2>8. ASSUME A(m), A(o) PROVE m = o
    <3> DEFINE n == m.name
    <3>1. PICK s : Ordinary(s) /\ m = java_method_signature(n, s)
      BY <2>8
    <3>2. PICK t : Ordinary(t) /\ o = java_method_signature(n, t)
      BY <2>8
    <3> HIDE DEF n
    <3>3. Parameters(s, JavaChain, JavaParameter) = Parameters(t, JavaChain, JavaParameter)
      BY <2>3, <3>1, <3>2
    <3>4. s = t
      BY <3>1, <3>2, <3>3, JavaParametersTell
    <3> QED BY <3>1, <3>2, <3>4
  <2>9. ASSUME B(m), B(o) PROVE m = o
    <3>1. PICK s \in Seq(PlainArguments) : m = java_method_signature(u, s)
      BY <2>9
    <3>2. PICK t \in Seq(PlainArguments) : o = java_method_signature(u, t)
      BY <2>9
    <3>3. Parameters(s, JavaChain, JavaParameter) = Parameters(t, JavaChain, JavaParameter)
      BY <2>3, <3>1, <3>2
    <3>4. s = t
      <4>1. s \in Seq(JavaTypes) /\ t \in Seq(JavaTypes)
        BY PlainArgumentsListed
      <4>2. Encode(JavaWords(JavaChain), s) = Encode(JavaWords(JavaChain), t)
        BY <3>3, <4>1, ParametersEncode DEF JavaWords
      <4>3. Decodable(JavaWords(JavaChain), PlainArguments, JavaTypeNames)
        BY JavaDecodable
      <4> QED BY <4>2, <4>3, EncodeInjective
    <3> QED BY <3>1, <3>2, <3>4
  <2>10. ASSUME C(m), C(o) PROVE m = o
    <3>1. PICK s : Ordinary(s) /\ m = Method(w, Parameters(s, c, JavaParameter), s)
      BY <2>10
    <3>2. PICK t : Ordinary(t) /\ o = Method(w, Parameters(t, c, JavaParameter), t)
      BY <2>10
    <3>3. Parameters(s, c, JavaParameter) = Parameters(t, c, JavaParameter)
      BY <2>4, <3>1, <3>2
    <3>4. s = t
      BY <3>1, <3>2, <3>3, WorkSourceParametersTell DEF c
    <3> QED BY <3>1, <3>2, <3>4
  <2>11. ASSUME NEW x, NEW y, A(x), C(y) PROVE x.params # y.params
    <3>1. PICK t : Ordinary(t) /\ x = java_method_signature(x.name, t)
      BY <2>11
    <3>2. PICK s : Ordinary(s) /\ HasChains(s) /\ y = Method(w, Parameters(s, c, JavaParameter), s)
      BY <2>11
    <3>3. x.params = Parameters(t, JavaChain, JavaParameter) /\ y.params = Parameters(s, c, JavaParameter)
      BY <2>3, <2>4, <3>1, <3>2
    <3>4. Parameters(s, c, JavaParameter) # Parameters(t, JavaChain, JavaParameter)
      BY <3>1, <3>2, WorkSourceTold DEF c
    <3> QED BY <3>3, <3>4
  <2>12. /\ \A x : A(x) => x.name # u
         /\ \A x : B(x) => x.name = u
         /\ \A x : C(x) => x.name # u
    BY <2>3, <2>4, <2>5
  <2> HIDE DEF A, B, C
  <2> QED BY <2>7, <2>8, <2>9, <2>10, <2>11, <2>12
<1>6. Inv => OverloadsDistinct
  BY <1>3, <1>4, <1>5 DEF OverloadsDistinct
<1> QED BY <1>6, InvCorrect, PTL

-----------------------------------------------------------------------------
(* Calls of the non-chained variants. *)

\* The types of arguments of non-chained variants.
VariantArguments == PlainArguments \cup {"ENUM_ARRAY"}

\* ns is the signature of the non-chained variant of signature s.
VariantOf(ns, s) ==
  /\ s \in Seq(ArgumentTypes) /\ ns \in Seq(VariantArguments)
  /\ Len(ns) \in Nat /\ Len(ns) >= 2 /\ Len(s) = Len(ns) - 1
  /\ s[1] = "ATTRIBUTION_CHAIN" /\ ns[1] = "INT" /\ ns[2] = "STRING"
  /\ \A k \in 1 .. Len(ns) - 2 : s[k + 1] = PassedOnAs(ns[k + 2])

\* The variant of an atom with a chain, and the method it calls.
LEMMA VariantCallsChained ==
  ASSUME Inv, Accepted, NEW f \in Inserted, HasChain(f.fields),
         NEW ns, ns = NonChainedSignature(f.fields)
  PROVE  /\ VariantOf(ns, SignatureOf(f))
         /\ ns \in DOMAIN nonChainedSignatureInfoMap
         /\ ChainedAtoms("pulled") = {} => ~Pulled(f) /\ SignatureOf(f) \in DOMAIN signatureInfoMap
<1> DEFINE a == AtomOf(f)
           n == Len(a.fields)
           s == SignatureOf(f)
<1>1. a \in AtomProtos /\ WellFormed(a) /\ a.fields = f.fields /\ s = DeclaredSignature(a)
  BY InsertedAllowed
<1> DEFINE r == [k \in 1 .. Len(ns) - 2 |-> PassedOnAs(ns[k + 2])]
<1> HIDE DEF a, s
<1>2. /\ n \in Nat \ {0} /\ ns \in Seq(JavaTypes) /\ Len(ns) = n + 1 /\ DOMAIN ns = 1 .. n + 1
      /\ ns[1] = "INT" /\ ns[2] = "STRING"
      /\ \A k \in 2 .. n : ns[k + 1] = NonChainedSignatureType(FlatType(a.fields[k]))
      /\ \A k \in 2 .. n : FlatType(a.fields[k]) # "ATTRIBUTION_CHAIN"
  BY <1>1, NonChainedVariant
<1>3. \A k \in 1 .. n : FlatType(a.fields[k]) \in ChainedTypes \cup RepeatedJavaTypes
  BY <1>1, AllowedArgument
<1>4. \A jt \in ChainedTypes \cup RepeatedJavaTypes :
        jt # "ATTRIBUTION_CHAIN" => NonChainedSignatureType(jt) \in VariantArguments
  BY PlainArgumentsListed
     DEF ChainedTypes, PlainTypes, PrimitiveJavaTypes, RepeatedJavaTypes, NonChainedSignatureType, VariantArguments
<1>5. <<"ATTRIBUTION_CHAIN">> \o r = s
  BY <1>1, ChainedSignature
<1> HIDE DEF n
<1>6. ASSUME NEW j \in 1 .. n + 1 PROVE ns[j] \in VariantArguments
  <2>1. CASE j \in {1, 2}
    BY <1>2, <2>1, PlainArgumentsListed DEF VariantArguments
  <2>2. CASE j \notin {1, 2}
    <3>1. j - 1 \in 2 .. n /\ (j - 1) + 1 = j /\ j - 1 \in 1 .. n
      BY <1>2, <2>2
    <3> QED BY <1>2, <1>3, <1>4, <3>1
  <2> QED BY <2>1, <2>2
<1>7. ns \in Seq(VariantArguments)
  BY <1>2, <1>6
<1>8. \A t \in VariantArguments : PassedOnAs(t) \in PlainArguments
  BY PlainArgumentsListed DEF VariantArguments, PassedOnAs
<1>9. ASSUME NEW k \in 1 .. Len(ns) - 2 PROVE r[k] = PassedOnAs(ns[k + 2]) /\ r[k] \in PlainArguments
  <2>1. k + 2 \in 1 .. n + 1
    BY <1>2
  <2> QED BY <1>6, <1>8, <2>1
<1>10. r \in Seq(PlainArguments) /\ Len(r) = Len(ns) - 2
  <2>1. r = [k \in 1 .. Len(ns) - 2 |-> r[k]] /\ (Len(ns) - 2 \in Nat \/ n = 0)
    BY <1>2
  <2> QED BY <1>2, <1>9, <2>1
<1> HIDE DEF r
<1>11. /\ Len(s) = Len(ns) - 1 /\ s[1] = "ATTRIBUTION_CHAIN"
       /\ \A k \in 1 .. Len(ns) - 2 : s[k + 1] = r[k]
       /\ s \in Seq(ArgumentTypes)
  <2> DEFINE c == "ATTRIBUTION_CHAIN"
  <2>1. s = FirstThen(c, r) /\ c \in ArgumentTypes /\ r \in Seq(ArgumentTypes) /\ Len(r) = Len(ns) - 2
    BY <1>5, <1>10, PlainArgumentsListed DEF FirstThen
  <2> HIDE DEF c
  <2>2. /\ Len(s) = Len(r) + 1 /\ s[1] = c /\ s \in Seq(ArgumentTypes)
        /\ \A k \in 1 .. Len(r) : s[k + 1] = r[k]
    BY <2>1 DEF FirstThen
  <2> QED BY <1>2, <2>1, <2>2 DEF c
<1>12. VariantOf(ns, s)
  <2>1. \A k \in 1 .. Len(ns) - 2 : s[k + 1] = PassedOnAs(ns[k + 2])
    BY <1>9, <1>11
  <2>2. Len(ns) \in Nat /\ Len(ns) >= 2
    BY <1>2
  <2> QED BY <1>2, <1>7, <1>11, <2>1, <2>2 DEF VariantOf
<1>13. ns \in DOMAIN nonChainedSignatureInfoMap
  BY NonChainedFacts
<1>14. ASSUME ChainedAtoms("pulled") = {} PROVE ~Pulled(f) /\ s \in DOMAIN signatureInfoMap
  <2>1. f.number \in DOMAIN non_chained_decls
    BY DEF Inv, NonChainedTables
  <2>2. decls[f.number].atomType # "pulled"
    BY <1>14, <2>1 DEF ChainedAtoms
  <2>3. ~Pulled(f)
    BY <2>2, InsertedAllowed DEF Kind
  <2> QED BY <2>3, AtomsInserted DEF s
<1> QED BY <1>12, <1>13, <1>14 DEF s

\* The C++ method of a non-chained variant passes on what the chained one takes.
LEMMA CppVariantCall ==
  ASSUME NEW ns, NEW s, VariantOf(ns, s)
  PROVE  LET m == native_method_signature("stats_write", s, FALSE)
         IN m.name = native_non_chained_call(ns).name /\ m.params = native_non_chained_call(ns).args
<1> DEFINE w == CppWords(FALSE)
           n == Len(ns) - 2
           parts == [k \in 1 .. n |-> w[s[k + 1]]]
           arguments == [k \in 1 .. n |-> CppArgument(ns, k + 2)]
<1>1. /\ s \in Seq(ArgumentTypes) /\ ns \in Seq(VariantArguments)
      /\ n \in Nat /\ Len(s) = n + 1 /\ Len(ns) = n + 2 /\ s[1] = "ATTRIBUTION_CHAIN"
      /\ \A k \in 1 .. n : s[k + 1] = PassedOnAs(ns[k + 2])
  BY DEF VariantOf
<1>2. /\ Code(w, ArgumentTypes, CppTypeNames)
      /\ w["ATTRIBUTION_CHAIN"] = CppChain
      /\ \A t \in PlainArguments : w[t] = CppParameter(t, FALSE)
  BY CppDecodable, CppWordsOf DEF Decodable
<1>3. \A t \in PlainArguments : PassedOnAs(t) = t /\ PassedOnAs("ENUM_ARRAY") = "INT_ARRAY"
  BY PlainArgumentsListed DEF PassedOnAs
<1>4. CppParameter("INT_ARRAY", FALSE) = CppParameter("ENUM_ARRAY", FALSE)
  BY CppNames1 DEF CppParameter
<1>5. \A t \in VariantArguments :
        w[PassedOnAs(t)] = <<cpp_type_name(t, FALSE)>> \o (IF t = "BOOLEAN_ARRAY" THEN <<"size_t">> ELSE <<>>)
  <2>1. \A t \in VariantArguments : PassedOnAs(t) \in PlainArguments
    BY <1>3, PlainArgumentsListed DEF VariantArguments
  <2>2. \A t \in VariantArguments : CppParameter(PassedOnAs(t), FALSE) = CppParameter(t, FALSE)
    <3> SUFFICES ASSUME NEW t \in VariantArguments PROVE CppParameter(PassedOnAs(t), FALSE) = CppParameter(t, FALSE)
      OBVIOUS
    <3>1. CASE t \in PlainArguments
      <4>1. PassedOnAs(t) = t
        BY <1>3, <3>1
      <4> QED BY <4>1
    <3>2. CASE t = "ENUM_ARRAY"
      <4>1. PassedOnAs(t) = "INT_ARRAY"
        BY <3>2 DEF PassedOnAs
      <4> QED BY <1>4, <3>2, <4>1
    <3> QED BY <3>1, <3>2 DEF VariantArguments
  <2>3. \A t \in VariantArguments : w[PassedOnAs(t)] = CppParameter(t, FALSE)
    BY <1>2, <2>1, <2>2
  <2> QED BY <2>3 DEF CppParameter
<1> HIDE DEF w, n
<1>6. parts = arguments
  <2>1. ASSUME NEW k \in 1 .. n PROVE w[s[k + 1]] = CppArgument(ns, k + 2)
    <3> DEFINE t == ns[k + 2]
    <3>1. t \in VariantArguments /\ s[k + 1] = PassedOnAs(t)
      BY <1>1
    <3>2. CppArgument(ns, k + 2)
            = <<cpp_type_name(t, FALSE)>> \o (IF t = "BOOLEAN_ARRAY" THEN <<"size_t">> ELSE <<>>)
      BY DEF CppArgument
    <3> HIDE DEF t
    <3> QED BY <1>5, <3>1, <3>2
  <2> QED BY <2>1
<1>7. Encode(w, s) = w[s[1]] \o FlattenSeq(parts)
  <2> HIDE DEF parts
  <2>1. Encode(w, s) = w[s[1]] \o FlattenSeq(WordsAfterFirst(w, s, n))
    BY <1>1, <1>2, ChainThenOthers
  <2> QED BY <2>1 DEF parts, WordsAfterFirst
<1>8. Encode(w, s) = CppChain \o FlattenSeq(arguments)
  BY <1>1, <1>2, <1>6, <1>7
<1>9. native_non_chained_call(ns).args = CppChain \o FlattenSeq(arguments)
      /\ native_non_chained_call(ns).name = "stats_write"
  BY DEF native_non_chained_call, Call, n
<1> HIDE DEF arguments, parts
<1> DEFINE parameter == [u \in JavaTypes |-> CppParameter(u, FALSE)]
           m == native_method_signature("stats_write", s, FALSE)
<1>10. m.params = Parameters(s, CppChain, parameter) /\ m.name = "stats_write"
  BY DEF native_method_signature, Method
<1>11. w = Words(CppChain, parameter)
  BY DEF CppWords, w
<1> HIDE DEF parameter, m
<1>12. s \in Seq(JavaTypes)
  BY <1>1, ArgumentTypesListed
<1>13. m.params = Encode(w, s)
  BY <1>10, <1>11, <1>12, ParametersEncode
<1> QED BY <1>8, <1>9, <1>10, <1>13 DEF m

\* The names of the Java types of a non-chained variant.
JavaNamesOf(ns) == [k \in 1 .. Len(ns) |-> java_type_name(ns[k])]

\* In Java an argument of a variant has the type of the one it is passed on as.
LEMMA VariantWords ==
  ASSUME NEW chain, NEW t \in VariantArguments
  PROVE  /\ JavaWords(chain)[t] = <<java_type_name(t)>>
         /\ JavaWords(chain)[PassedOnAs(t)] = <<java_type_name(t)>>
         /\ java_type_name(t) \in JavaTypeNames
<1>1. CASE t \in PlainArguments
  <2>1. PassedOnAs(t) = t
    BY <1>1, PlainArgumentsListed DEF PassedOnAs
  <2> QED BY <1>1, <2>1, JavaWordsOf, JavaNamesDistinct
<1>2. CASE t = "ENUM_ARRAY"
  <2>1. PassedOnAs(t) = "INT_ARRAY" /\ "INT_ARRAY" \in PlainArguments /\ "ENUM_ARRAY" \in JavaTypes
    BY <1>2, PlainArgumentsListed DEF PassedOnAs, JavaTypes, RepeatedJavaTypes
  <2>2. java_type_name(t) = "int[]" /\ java_type_name("INT_ARRAY") = "int[]" /\ "int[]" \in JavaTypeNames
    BY <1>2, JavaNames1 DEF JavaTypeNames
  <2>3. JavaWords(chain)[t] = <<java_type_name(t)>>
    BY <1>2, <2>1 DEF JavaWords, Words, JavaParameter
  <2> QED BY <2>1, <2>2, <2>3, JavaWordsOf
<1> QED BY <1>1, <1>2 DEF VariantArguments

\* The parameters of the chained method, with chain in place of the chain.
LEMMA JavaChainedParameters ==
  ASSUME NEW ns, NEW s, VariantOf(ns, s), NEW chain \in Seq(JavaTypeNames)
  PROVE  Parameters(s, chain, JavaParameter) = chain \o [k \in 1 .. Len(ns) - 2 |-> java_type_name(ns[k + 2])]
<1> DEFINE w == JavaWords(chain)
           n == Len(ns) - 2
           names == [k \in 1 .. n |-> java_type_name(ns[k + 2])]
           parts == [k \in DOMAIN names |-> <<names[k]>>]
<1>1. /\ s \in Seq(ArgumentTypes) /\ ns \in Seq(VariantArguments)
      /\ n \in Nat /\ Len(s) = n + 1 /\ Len(ns) = n + 2 /\ s[1] = "ATTRIBUTION_CHAIN"
      /\ \A k \in 1 .. n : s[k + 1] = PassedOnAs(ns[k + 2])
  BY DEF VariantOf
<1>2. Code(w, ArgumentTypes, JavaTypeNames) /\ w["ATTRIBUTION_CHAIN"] = chain
  BY JavaDecodable, JavaWordsOf
<1> HIDE DEF n
<1>3. ASSUME NEW k \in 1 .. n
      PROVE  w[s[k + 1]] = <<java_type_name(ns[k + 2])>> /\ java_type_name(ns[k + 2]) \in JavaTypeNames
  <2>1. ns[k + 2] \in VariantArguments /\ s[k + 1] = PassedOnAs(ns[k + 2])
    BY <1>1
  <2> QED BY <2>1, VariantWords
<1> HIDE DEF w
<1>4. names \in Seq(JavaTypeNames) /\ DOMAIN names = 1 .. n
  BY <1>1, <1>3
<1>5. parts = [k \in 1 .. n |-> w[s[k + 1]]]
  BY <1>3
<1>6. FlattenSeq(parts) = names
  <2> HIDE DEF names
  <2> QED BY <1>4, FlattenSingles
<1> HIDE DEF parts, names
<1>7. Encode(w, s) = w[s[1]] \o FlattenSeq(parts)
  <2>1. Encode(w, s) = w[s[1]] \o FlattenSeq(WordsAfterFirst(w, s, n))
    BY <1>1, <1>2, ChainThenOthers
  <2> QED BY <1>5, <2>1 DEF WordsAfterFirst
<1>8. s \in Seq(JavaTypes)
  BY <1>1, ArgumentTypesListed
<1>9. Parameters(s, chain, JavaParameter) = Encode(w, s)
  BY <1>8, ParametersEncode DEF JavaWords, w
<1> QED BY <1>1, <1>2, <1>6, <1>7, <1>9 DEF names, n

\* The parameters of a non-chained variant.
LEMMA JavaVariantParameters ==
  ASSUME NEW ns, NEW s, VariantOf(ns, s)
  PROVE  Parameters(ns, JavaChain, JavaParameter)
           = <<"int", "String">> \o [k \in 1 .. Len(ns) - 2 |-> java_type_name(ns[k + 2])]
<1> DEFINE w == JavaWords(JavaChain)
           n == Len(ns) - 2
           names == JavaNamesOf(ns)
           rest == [k \in 1 .. n |-> java_type_name(ns[k + 2])]
           parts == [k \in DOMAIN names |-> <<names[k]>>]
<1>1. /\ ns \in Seq(VariantArguments) /\ n \in Nat /\ Len(ns) = n + 2
      /\ ns[1] = "INT" /\ ns[2] = "STRING"
  BY DEF VariantOf
<1>2. ns \in Seq(JavaTypes)
  BY <1>1, PlainArgumentsListed DEF VariantArguments, JavaTypes, RepeatedJavaTypes
<1>3. Parameters(ns, JavaChain, JavaParameter) = Encode(w, ns)
  BY <1>2, ParametersEncode DEF JavaWords
<1>4. \A t \in VariantArguments : w[t] = <<java_type_name(t)>> /\ java_type_name(t) \in JavaTypeNames
  BY VariantWords
<1> HIDE DEF w, n
<1>5. /\ DOMAIN names = 1 .. n + 2 /\ DOMAIN ns = 1 .. n + 2
      /\ \A k \in 1 .. n + 2 : names[k] = java_type_name(ns[k]) /\ ns[k] \in VariantArguments
  BY <1>1 DEF JavaNamesOf
<1>6. names \in Seq(JavaTypeNames) /\ Len(names) = n + 2
  <2>1. names = [k \in 1 .. n + 2 |-> names[k]] /\ \A k \in 1 .. n + 2 : names[k] \in JavaTypeNames
    BY <1>1, <1>4, <1>5 DEF JavaNamesOf
  <2> HIDE DEF names
  <2>2. n + 2 \in Nat
    BY <1>1
  <2> QED BY <1>5, <2>1, <2>2
<1> HIDE DEF names
<1>7. [k \in DOMAIN ns |-> w[ns[k]]] = parts
  BY <1>4, <1>5
<1>8. Encode(w, ns) = names
  BY <1>6, <1>7, FlattenSingles DEF Encode
<1>9. names[1] = "int" /\ names[2] = "String"
  BY <1>1, <1>5, JavaNames1
<1>10. \A k \in 1 .. n : java_type_name(ns[k + 2]) = names[k + 2] /\ names[k + 2] \in JavaTypeNames
  BY <1>1, <1>4, <1>5
<1>11. rest \in Seq(JavaTypeNames) /\ Len(rest) = n /\ \A k \in 1 .. n : rest[k] = names[k + 2]
  BY <1>1, <1>10
<1> DEFINE two == <<"int", "String">>
<1>12. two \in Seq(JavaTypeNames) /\ Len(two) = 2 /\ two[1] = names[1] /\ two[2] = names[2]
  BY <1>9 DEF JavaTypeNames
<1> HIDE DEF rest, two
<1>13. two \o rest = names
  <2>1. AfterTwo(names, rest)
    BY <1>1, <1>6, <1>11 DEF AfterTwo
  <2>2. rest \in Seq(JavaTypeNames)
    BY <1>11
  <2>3. FirstTwo(names, two)
    BY <1>12 DEF FirstTwo
  <2> QED BY <1>6, <1>12, <2>1, <2>2, <2>3, TwoThen
<1> QED BY <1>3, <1>8, <1>13 DEF two, rest, n

\* The Rust types of arguments, as sequences of words.
RustWords == Words(RustChain, RustParameter)

\* The types of Rust parameters.
RustTypeNames == {"&[i32]", "&[&str]", "enum"} \cup {rust_type_name(t) : t \in JavaTypes}

\* The words of the Rust writer, argument by argument.
LEMMA RustWordsOf ==
  /\ Code(RustWords, JavaTypes, RustTypeNames)
  /\ RustWords["ATTRIBUTION_CHAIN"] = RustChain
  /\ \A t \in JavaTypes : t # "ATTRIBUTION_CHAIN" => RustWords[t] = RustParameter[t]
<1>1. "ATTRIBUTION_CHAIN" \in JavaTypes
  BY ArgumentTypesListed DEF JavaTypes
<1>2. RustWords = [t \in JavaTypes |-> IF t = "ATTRIBUTION_CHAIN" THEN RustChain ELSE RustParameter[t]]
  BY DEF RustWords, Words
<1>3. RustChain \in Seq(RustTypeNames)
  BY DEF RustChain, RustTypeNames
<1>4. ASSUME NEW t \in JavaTypes PROVE RustParameter[t] \in Seq(RustTypeNames)
  <2>1. RustParameter[t] = IF t = "ENUM" THEN <<"enum">> ELSE <<rust_type_name(t)>>
    BY DEF RustParameter
  <2>2. "enum" \in RustTypeNames /\ rust_type_name(t) \in RustTypeNames
    BY DEF RustTypeNames
  <2> QED BY <2>1, <2>2
<1> QED BY <1>1, <1>2, <1>3, <1>4 DEF Code

\* The AtomDecl of a chained atom and the fields of its non-chained variant.
LEMMA VariantFields ==
  ASSUME Inv, Accepted, NEW f \in Inserted, HasChain(f.fields),
         NEW d, d = decls[f.number].decl.fields, NEW nd, nd = non_chained_decls[f.number]
  PROVE  /\ d \in Seq(JavaTypes) /\ d[1] = "ATTRIBUTION_CHAIN"
         /\ Len(nd) - 2 \in Nat /\ Len(d) = (Len(nd) - 2) + 1
         /\ \A k \in 1 .. Len(nd) - 2 : d[k + 1] = nd[k + 2] /\ d[k + 1] # "ATTRIBUTION_CHAIN"
<1> DEFINE a == AtomOf(f)
           n == Len(a.fields)
<1>1. /\ a \in AtomProtos /\ WellFormed(a) /\ a.fields = f.fields
      /\ d = [k \in 1 .. n |-> java_type(a.fields[k], a.isUintAllowed)]
  BY InsertedAllowed
<1>2. nd = NonChainedFields(a.fields)
  BY <1>1 DEF Inv, NonChainedTables
<1> HIDE DEF a
<1>3. /\ n \in Nat \ {0} /\ nd \in Seq(JavaTypes) /\ Len(nd) = n + 1
      /\ \A k \in 2 .. n : nd[k + 1] = FlatType(a.fields[k])
      /\ \A k \in 2 .. n : FlatType(a.fields[k]) \in JavaTypes \ {"ATTRIBUTION_CHAIN"}
      /\ a.fields[1].type = "AttributionNode"
  BY <1>1, <1>2, NonChainedVariant
<1>4. \A k \in 1 .. n : d[k] = FlatType(a.fields[k]) /\ d[k] \in JavaTypes
  <2>1. \A k \in 1 .. n : d[k] = java_type(a.fields[k], a.isUintAllowed)
    BY <1>1
  <2>2. ChainedTypes \cup RepeatedJavaTypes \subseteq JavaTypes
    BY DEF ChainedTypes, PlainTypes, PrimitiveJavaTypes, RepeatedJavaTypes, JavaTypes
  <2>3. ASSUME NEW k \in 1 .. n PROVE d[k] = FlatType(a.fields[k]) /\ d[k] \in JavaTypes
    <3>1. /\ d[k] \in ChainedTypes \cup RepeatedJavaTypes
          /\ d[k] = FlatType(a.fields[k])
      BY <1>1, <2>1, AllowedArgument, ZenonT(60)
    <3> QED BY <2>2, <3>1
  <2> QED BY <2>3
<1>5. d[1] = "ATTRIBUTION_CHAIN"
  <2>1. 1 \in 1 .. n
    BY <1>3
  <2>2. FlatType(a.fields[1]) = "ATTRIBUTION_CHAIN"
    BY <1>1, <1>3, <2>1, WellFormedChain
  <2> QED BY <1>4, <2>1, <2>2
<1>6a. d = [k \in 1 .. n |-> d[k]] /\ n \in Nat
  BY <1>1, <1>3
<1> HIDE DEF n
<1>6. d \in Seq(JavaTypes) /\ Len(d) = n
  <2>1. \A k \in 1 .. n : d[k] \in JavaTypes
    BY <1>4
  <2>2. DOMAIN d = 1 .. n
    BY <1>6a
  <2>3. d \in Seq(JavaTypes)
    BY <1>6a, <2>1
  <2> QED BY <1>6a, <2>2, <2>3
<1>7. ASSUME NEW k \in 1 .. Len(nd) - 2 PROVE d[k + 1] = nd[k + 2] /\ d[k + 1] # "ATTRIBUTION_CHAIN"
  <2> DEFINE j == k + 1
  <2>1. j \in 2 .. n /\ j \in 1 .. n /\ j + 1 = k + 2
    BY <1>3
  <2>2. d[j] = nd[j + 1] /\ d[j] # "ATTRIBUTION_CHAIN"
    BY <1>3, <1>4, <2>1
  <2> QED BY <2>1, <2>2
<1> QED BY <1>3, <1>5, <1>6, <1>7

\* The Rust function of a non-chained variant passes on what the chained one takes.
LEMMA RustVariantCall ==
  ASSUME Inv, Accepted, NEW f \in Inserted, HasChain(f.fields),
         NEW d, d = decls[f.number].decl.fields, NEW nd, nd = non_chained_decls[f.number]
  PROVE  rust_non_chained_call(nd).args = Parameters(d, RustChain, RustParameter)
<1> DEFINE n == Len(nd) - 2
           w == RustWords
           arguments == [k \in 1 .. n |-> RustParameter[nd[k + 2]]]
<1>1. /\ d \in Seq(JavaTypes) /\ d[1] = "ATTRIBUTION_CHAIN" /\ n \in Nat /\ Len(d) = n + 1
      /\ \A k \in 1 .. n : d[k + 1] = nd[k + 2] /\ d[k + 1] # "ATTRIBUTION_CHAIN"
  BY VariantFields
<1>2. rust_non_chained_call(nd).args = RustChain \o FlattenSeq(arguments)
  BY DEF rust_non_chained_call, Call
<1> HIDE DEF n
<1>3. ASSUME NEW k \in 1 .. n PROVE w[d[k + 1]] = RustParameter[nd[k + 2]]
  <2>1. d[k + 1] \in JavaTypes
    BY <1>1
  <2> QED BY <1>1, <2>1, RustWordsOf
<1>4. WordsAfterFirst(w, d, n) = arguments
  BY <1>3 DEF WordsAfterFirst
<1>5. Code(w, JavaTypes, RustTypeNames) /\ w["ATTRIBUTION_CHAIN"] = RustChain
  BY RustWordsOf
<1> HIDE DEF arguments
<1>6. Encode(w, d) = w[d[1]] \o FlattenSeq(WordsAfterFirst(w, d, n))
  <2> HIDE DEF w
  <2> QED BY <1>1, <1>5, ChainThenOthers
<1>7. Parameters(d, RustChain, RustParameter) = Encode(w, d)
  BY <1>1, ParametersEncode DEF RustWords
<1> QED BY <1>1, <1>2, <1>4, <1>5, <1>6, <1>7

\* Every call of the generated code finds its method.
THEOREM CallsCorrect == Spec => []CallsResolve
<1> SUFFICES ASSUME Inv, Accepted, ChainedAtoms("pulled") = {}
             PROVE  /\ \A c \in CppCalls : Resolves(c, CppMethods)
                    /\ \A ws \in BOOLEAN, l \in {API_Q, API_LEVEL_CURRENT} :
                         \A c \in JavaCalls(ws, l) : Resolves(c, AllJavaMethods(ws, l))
                    /\ \A n \in {m \in DOMAIN decls : ~HasRepeated(decls[m].decl.fields)} :
                         \A c \in RustCalls(n) : Resolves(c, RustMethods(n))
  BY InvCorrect, PTL DEF CallsResolve
<1>1. ASSUME NEW ns \in DOMAIN nonChainedSignatureInfoMap
      PROVE  \E s \in DOMAIN signatureInfoMap : VariantOf(ns, s)
  <2>1. PICK f \in Inserted : HasChain(f.fields) /\ ns = NonChainedSignature(f.fields)
    BY NonChainedFacts
  <2> QED BY <2>1, VariantCallsChained
<1>2. ASSUME NEW s \in WithChain(signatureInfoMap)
      PROVE  \E ns \in DOMAIN nonChainedSignatureInfoMap : VariantOf(ns, s)
  <2>1. s \in DOMAIN signatureInfoMap /\ "ATTRIBUTION_CHAIN" \in TypesIn(s)
    BY DEF WithChain
  <2>2. PICK f \in Inserted : s = SignatureOf(f)
    BY <2>1, AtomsInserted
  <2> DEFINE a == AtomOf(f)
  <2>3. a \in AtomProtos /\ WellFormed(a) /\ a.fields = f.fields
    BY InsertedAllowed
  <2>4. ArgumentsOf(f.fields, s, decls[f.number].decl.fields)
        /\ decls[f.number].decl.fields = [k \in 1 .. Len(a.fields) |-> java_type(a.fields[k], a.isUintAllowed)]
    BY <2>2, InsertedArguments, InsertedAllowed
  <2> HIDE DEF a
  <2>5. PICK k \in 1 .. Len(f.fields) : s[k] = "ATTRIBUTION_CHAIN"
    BY <2>1, <2>4 DEF ArgumentsOf, TypesIn
  <2>6. java_type(a.fields[k], a.isUintAllowed) = "ATTRIBUTION_CHAIN"
    BY <2>3, <2>4, <2>5 DEF ArgumentsOf
  <2>7. FlatType(f.fields[k]) = "ATTRIBUTION_CHAIN"
    BY <2>3, <2>5, <2>6, AllowedArgument
  <2>8. HasChain(f.fields)
    <3>1. DOMAIN f.fields = 1 .. Len(f.fields)
      BY <2>3, AtomFacts
    <3> QED BY <2>5, <2>7, <3>1 DEF HasChain
  <2> QED BY <2>2, <2>8, VariantCallsChained
<1>3. ASSUME NEW c \in CppCalls PROVE Resolves(c, CppMethods)
  <2>1. PICK ns \in DOMAIN nonChainedSignatureInfoMap : c = native_non_chained_call(ns)
    BY DEF CppCalls
  <2>2. PICK s \in DOMAIN signatureInfoMap : VariantOf(ns, s)
    BY <1>1
  <2>3. native_method_signature("stats_write", s, FALSE) \in CppMethods
    BY DEF CppMethods
  <2> QED BY <2>1, <2>2, <2>3, CppVariantCall DEF Resolves
<1>4. ASSUME NEW ws \in BOOLEAN, NEW l \in {API_Q, API_LEVEL_CURRENT}, NEW c \in JavaCalls(ws, l)
      PROVE  Resolves(c, AllJavaMethods(ws, l))
  <2>0. ASSUME NEW m \in AllJavaMethods(ws, l), NEW name, NEW args, m.name = name, m.params = args,
               c = Call(name, args)
        PROVE  Resolves(c, AllJavaMethods(ws, l))
    BY <2>0 DEF Resolves, Call
  <2>1. JavaMethods \subseteq AllJavaMethods(ws, l)
    BY DEF AllJavaMethods
  <2>2. ASSUME NEW s \in DOMAIN signatureInfoMap, c = Call("write", Parameters(s, JavaChain, JavaParameter))
        PROVE  Resolves(c, AllJavaMethods(ws, l))
    <3> DEFINE m == java_method_signature("write", s)
    <3>1. m \in JavaMethods /\ m.name = "write" /\ m.params = Parameters(s, JavaChain, JavaParameter)
      BY DEF JavaMethods, java_method_signature, Method
    <3> HIDE DEF m
    <3> QED BY <2>0, <2>1, <2>2, <3>1
  <2>3. ASSUME NEW ns \in DOMAIN nonChainedSignatureInfoMap, c = java_non_chained_call(ns)
        PROVE  Resolves(c, AllJavaMethods(ws, l))
    <3>1. PICK s \in DOMAIN signatureInfoMap : VariantOf(ns, s)
      BY <1>1
    <3>2. JavaChain \in Seq(JavaTypeNames)
      BY DEF JavaChain, JavaTypeNames
    <3>3. c = Call("write", Parameters(s, JavaChain, JavaParameter))
      BY <2>3, <3>1, <3>2, JavaChainedParameters DEF java_non_chained_call
    <3> QED BY <2>2, <3>3
  <2>4. ASSUME NEW s \in WithChain(signatureInfoMap),
               c = Call("write_non_chained", Parameters(s, <<"int", "String">>, JavaParameter))
        PROVE  Resolves(c, AllJavaMethods(ws, l))
    <3>1. PICK ns \in DOMAIN nonChainedSignatureInfoMap : VariantOf(ns, s)
      BY <1>2
    <3> DEFINE m == java_method_signature("write_non_chained", ns)
               two == <<"int", "String">>
    <3>2. two \in Seq(JavaTypeNames)
      BY DEF JavaTypeNames
    <3>3. m \in JavaMethods /\ m.name = "write_non_chained" /\ m.params = Parameters(ns, JavaChain, JavaParameter)
      BY DEF JavaMethods, java_method_signature, Method
    <3>4. Parameters(ns, JavaChain, JavaParameter) = Parameters(s, two, JavaParameter)
      <4>1. Parameters(ns, JavaChain, JavaParameter)
              = two \o [k \in 1 .. Len(ns) - 2 |-> java_type_name(ns[k + 2])]
        BY <3>1, JavaVariantParameters
      <4> HIDE DEF two
      <4>2. Parameters(s, two, JavaParameter)
              = two \o [k \in 1 .. Len(ns) - 2 |-> java_type_name(ns[k + 2])]
        BY <3>1, <3>2, JavaChainedParameters
      <4> QED BY <4>1, <4>2
    <3> HIDE DEF m
    <3> QED BY <2>0, <2>1, <2>4, <3>3, <3>4
  <2>5. ASSUME NEW s \in DOMAIN signatureInfoMap, l = API_Q, c = q_logger_call(s)
        PROVE  Resolves(c, AllJavaMethods(ws, l))
    <3> DEFINE m == java_method_signature("QLogger.write", s)
    <3>1. m \in AllJavaMethods(ws, l)
      BY <2>5 DEF AllJavaMethods, QLoggerMethods
    <3>2. m.name = "QLogger.write" /\ m.params = Parameters(s, JavaChain, JavaParameter)
      BY DEF java_method_signature, Method
    <3> HIDE DEF m
    <3> QED BY <2>0, <2>5, <3>1, <3>2 DEF q_logger_call
  <2>6. \/ \E ns \in DOMAIN nonChainedSignatureInfoMap : c = java_non_chained_call(ns)
        \/ \E s \in WithChain(signatureInfoMap) : c \in work_source_calls(s)
        \/ l = API_Q /\ \E s \in DOMAIN signatureInfoMap : c = q_logger_call(s)
    BY DEF JavaCalls
  <2>7. ASSUME NEW s \in WithChain(signatureInfoMap), c \in work_source_calls(s)
        PROVE  Resolves(c, AllJavaMethods(ws, l))
    <3>1. s \in DOMAIN signatureInfoMap
      BY DEF WithChain
    <3>2. \/ c = Call("write_non_chained", Parameters(s, <<"int", "String">>, JavaParameter))
          \/ c = Call("write", Parameters(s, JavaChain, JavaParameter))
      BY <2>7 DEF work_source_calls
    <3> QED BY <2>2, <2>4, <3>1, <3>2
  <2> QED BY <2>3, <2>5, <2>6, <2>7
<1>5. ASSUME NEW n \in DOMAIN decls, NEW c \in RustCalls(n) PROVE Resolves(c, RustMethods(n))
  <2> DEFINE d == decls[n].decl.fields
             params == Parameters(d, RustChain, RustParameter)
             m == Method(RustName(n), PulledData(n) \o params, d)
  <2>1. m \in RustMethods(n)
    BY DEF RustMethods
  <2>2. m.name = RustName(n) /\ m.params = PulledData(n) \o params
    BY DEF Method
  <2>3. CASE c = rust_struct_call(n)
    <3>1. c.name = RustName(n) /\ c.args = PulledData(n) \o params
      BY <2>3 DEF rust_struct_call, Call
    <3> QED BY <2>1, <2>2, <3>1 DEF Resolves
  <2>4. CASE n \in DOMAIN non_chained_decls /\ c = rust_non_chained_call(non_chained_decls[n])
    <3>1. PICK f \in Inserted : HasChain(f.fields) /\ n = f.number
      BY <2>4 DEF Inv, NonChainedTables
    <3>2. decls[n].atomType = "pushed"
      <4>1. ~Pulled(f) /\ decls[n].atomType = Kind(f)
        <5> DEFINE ns == NonChainedSignature(f.fields)
        <5> HIDE DEF ns
        <5>1. ~Pulled(f)
          BY <3>1, VariantCallsChained
        <5> QED BY <3>1, <5>1, InsertedAllowed
      <4> QED BY <4>1 DEF Kind
    <3>3. RustName(n) = "stats_write" /\ PulledData(n) = <<>>
      BY <3>2 DEF RustName, PulledData
    <3>4. c.args = params /\ c.name = "stats_write"
      <4>1. c.name = "stats_write"
        BY <2>4 DEF rust_non_chained_call, Call
      <4>2. c.args = params
        BY <2>4, <3>1, RustVariantCall
      <4> QED BY <4>1, <4>2
    <3>5. <<>> \o params = params
      <4>1. d \in Seq(JavaTypes)
        BY <3>1, VariantFields
      <4>2. params = Encode(RustWords, d)
        BY <4>1, ParametersEncode DEF RustWords
      <4>3. params \in Seq(RustTypeNames)
        BY <4>1, <4>2, RustWordsOf, EncodeInSeq
      <4> HIDE DEF params
      <4> QED BY <4>3
    <3> HIDE DEF params, m
    <3> QED BY <2>1, <2>2, <3>3, <3>4, <3>5 DEF Resolves
  <2>5. \/ c = rust_struct_call(n)
        \/ n \in DOMAIN non_chained_decls /\ c = rust_non_chained_call(non_chained_decls[n])
    BY DEF RustCalls
  <2> QED BY <2>3, <2>4, <2>5
<1> QED BY <1>3, <1>4, <1>5

-----------------------------------------------------------------------------
(* Execution: the event of a sequence of statements is the last step of a
   recursion over them. *)

\* The recursion by which FoldLeft executes the first n statements of a body.
RunsOn(body, n, code, args, it) ==
  it = [s \in SUBSET (1 .. n) |->
          IF s = {} THEN <<>> ELSE Execute(code, args, it[s \ {Max(s)}], body[Max(s)])]

\* The recursion has a solution for every number of statements.
LEMMA RunExists ==
  ASSUME NEW body, NEW code, NEW args
  PROVE  \A n \in Nat : \E it : RunsOn(body, n, code, args, it)
<1> DEFINE N == {n \in Nat : \E it : RunsOn(body, n, code, args, it)}
<1>1. 0 \in N
  <2> DEFINE it == [s \in SUBSET (1 .. 0) |-> <<>>]
  <2>1. 1 .. 0 = {}
    OBVIOUS
  <2>2. \A s \in SUBSET (1 .. 0) : s = {}
    BY <2>1
  <2>3. it = [s \in SUBSET (1 .. 0) |->
                IF s = {} THEN <<>> ELSE Execute(code, args, it[s \ {Max(s)}], body[Max(s)])]
    BY <2>2, Zenon
  <2> HIDE DEF it
  <2>4. RunsOn(body, 0, code, args, it)
    BY <2>3, Zenon DEF RunsOn
  <2> QED BY <2>4
<1>2. ASSUME NEW n \in Nat, n \in N PROVE n + 1 \in N
  <2>1. PICK d : RunsOn(body, n, code, args, d)
    BY <1>2
  <2> DEFINE it == [s \in SUBSET (1 .. n + 1) |->
                      IF n + 1 \in s THEN Execute(code, args, d[s \ {n + 1}], body[n + 1]) ELSE d[s]]
  <2>2. ASSUME NEW s \in SUBSET (1 .. n + 1)
        PROVE  it[s] = IF s = {} THEN <<>> ELSE Execute(code, args, it[s \ {Max(s)}], body[Max(s)])
    <3>0. \A t \in SUBSET (1 .. n) :
             d[t] = IF t = {} THEN <<>> ELSE Execute(code, args, d[t \ {Max(t)}], body[Max(t)])
      BY <2>1, Zenon DEF RunsOn
    <3>9. \A t \in SUBSET (1 .. n) : n + 1 \notin t /\ t \in SUBSET (1 .. n + 1)
      <4>1. n + 1 \notin 1 .. n /\ 1 .. n \subseteq 1 .. n + 1
        OBVIOUS
      <4> QED BY <4>1
    <3>1. CASE n + 1 \in s
      <4> DEFINE r == s \ {n + 1}
      <4>1. r \in SUBSET (1 .. n)
        <5>1. \A x \in 1 .. n + 1 : x # n + 1 => x \in 1 .. n
          OBVIOUS
        <5> QED BY <5>1
      <4>2. Max(s) = n + 1
        <5>1. \A x \in s : (\A y \in s : x >= y) <=> x = n + 1
          BY <3>1
        <5> QED BY <3>1, <5>1 DEF Max
      <4>3. it[r] = d[r]
        BY <3>9, <4>1
      <4>4. it[s] = Execute(code, args, d[r], body[n + 1])
        BY <3>1
      <4>5. s # {}
        BY <3>1
      <4> HIDE DEF it
      <4> QED BY <4>2, <4>3, <4>4, <4>5
    <3>2. CASE n + 1 \notin s
      <4>1. s \in SUBSET (1 .. n)
        <5>1. \A x \in 1 .. n + 1 : x # n + 1 => x \in 1 .. n
          OBVIOUS
        <5> QED BY <3>2, <5>1
      <4>2. it[s] = d[s]
        BY <3>2
      <4>3. s # {} => it[s \ {Max(s)}] = d[s \ {Max(s)}]
        <5> DEFINE r == s \ {Max(s)}
        <5>1. r \in SUBSET (1 .. n)
          BY <4>1
        <5>2. it[r] = d[r]
          BY <3>9, <5>1
        <5> QED BY <5>2
      <4> HIDE DEF it
      <4> QED BY <3>0, <4>1, <4>2, <4>3
    <3> QED BY <3>1, <3>2
  <2>3. it = [s \in SUBSET (1 .. n + 1) |-> it[s]]
    OBVIOUS
  <2> HIDE DEF it
  <2>4. RunsOn(body, n + 1, code, args, it)
    BY <2>2, <2>3, Zenon DEF RunsOn
  <2> QED BY <2>4
<1> HIDE DEF N
<1>3. \A n \in Nat : n \in N
  BY <1>1, <1>2, NatInductionOnSets
<1> QED BY <1>3 DEF N

\* Events that follow from one another by the statements of b, from e0 to e1.
Trace(ev, b, code, args, e0, e1) ==
  /\ ev[0] = e0 /\ ev[Len(b)] = e1
  /\ \A k \in 1 .. Len(b) : ev[k] = Execute(code, args, ev[k - 1], b[k])

Leads(b, code, args, e0, e1) == \E ev : Trace(ev, b, code, args, e0, e1)

\* Run gives the event to which the statements lead.
LEMMA RunLeads ==
  ASSUME NEW T, NEW body \in Seq(T), NEW code, NEW args, NEW e, Leads(body, code, args, <<>>, e)
  PROVE  Run(body, code, args) = e
<1> DEFINE n == Len(body)
           it == CHOOSE x : x = [s \in SUBSET DOMAIN body |->
                    IF s = {} THEN <<>> ELSE Execute(code, args, x[s \ {Max(s)}], body[Max(s)])]
<1>1. Run(body, code, args) = it[DOMAIN body]
  BY Zenon DEF Run, FoldLeft, MapThenFoldSet
<1>2. n \in Nat /\ DOMAIN body = 1 .. n
  OBVIOUS
<1> HIDE DEF n
<1>3. \E x : x = [s \in SUBSET DOMAIN body |->
                    IF s = {} THEN <<>> ELSE Execute(code, args, x[s \ {Max(s)}], body[Max(s)])]
  <2>1. PICK x : RunsOn(body, n, code, args, x)
    BY <1>2, RunExists
  <2>2. x = [s \in SUBSET DOMAIN body |->
                    IF s = {} THEN <<>> ELSE Execute(code, args, x[s \ {Max(s)}], body[Max(s)])]
    BY <1>2, <2>1, Zenon DEF RunsOn
  <2> QED BY <2>2
<1>4. it = [s \in SUBSET DOMAIN body |->
              IF s = {} THEN <<>> ELSE Execute(code, args, it[s \ {Max(s)}], body[Max(s)])]
  BY <1>3, Zenon
<1>5. \A s \in SUBSET (1 .. n) :
         it[s] = IF s = {} THEN <<>> ELSE Execute(code, args, it[s \ {Max(s)}], body[Max(s)])
  BY <1>2, <1>4, Zenon
<1> HIDE DEF it
<1>6. PICK ev : Trace(ev, body, code, args, <<>>, e)
  BY DEF Leads
<1> DEFINE N == {k \in Nat : k <= n => it[1 .. k] = ev[k]}
<1>7. 0 \in N
  <2>1. 1 .. 0 = {} /\ {} \in SUBSET (1 .. n)
    OBVIOUS
  <2>2. it[{}] = <<>>
    BY <1>5, <2>1
  <2>3. ev[0] = <<>>
    BY <1>6 DEF Trace
  <2>4. it[1 .. 0] = ev[0]
    BY <2>1, <2>2, <2>3
  <2> QED BY <2>4
<1>8. ASSUME NEW k \in Nat, k \in N PROVE k + 1 \in N
  <2> SUFFICES ASSUME k + 1 <= n PROVE it[1 .. k + 1] = ev[k + 1]
    OBVIOUS
  <2>1. k + 1 \in 1 .. n /\ it[1 .. k] = ev[k]
    BY <1>2, <1>8
  <2>2. Max(1 .. k + 1) = k + 1
    BY <1>2, <2>1, MaxIn
  <2>3. (1 .. k + 1) \ {k + 1} = 1 .. k /\ 1 .. k + 1 # {} /\ 1 .. k + 1 \in SUBSET (1 .. n)
    <3>1. (1 .. k + 1) \ {k + 1} = 1 .. k
      OBVIOUS
    <3>2. k + 1 \in 1 .. k + 1 /\ \A y \in 1 .. k + 1 : y \in 1 .. n
      BY <1>2, <2>1
    <3> QED BY <3>1, <3>2
  <2>4. it[1 .. k + 1] = Execute(code, args, it[1 .. k], body[k + 1])
    <3> DEFINE t == 1 .. k + 1
    <3>1. it[t] = Execute(code, args, it[t \ {Max(t)}], body[Max(t)])
      BY <1>5, <2>3
    <3>2. it[t] = Execute(code, args, it[t \ {k + 1}], body[k + 1])
      BY <2>2, <3>1
    <3>3. t \ {k + 1} = 1 .. k
      BY <2>3
    <3> HIDE DEF t
    <3>4. it[t] = Execute(code, args, it[1 .. k], body[k + 1])
      BY <3>2, <3>3
    <3> QED BY <3>4 DEF t
  <2>5. ev[k + 1] = Execute(code, args, ev[k], body[k + 1])
    <3>1. (k + 1) - 1 = k
      OBVIOUS
    <3>2. \A j \in 1 .. n : ev[j] = Execute(code, args, ev[j - 1], body[j])
      BY <1>6 DEF Trace, n
    <3>3. ev[k + 1] = Execute(code, args, ev[(k + 1) - 1], body[k + 1])
      BY <2>1, <3>2
    <3> QED BY <3>1, <3>3
  <2> QED BY <2>1, <2>4, <2>5
<1> HIDE DEF N
<1>9. n \in N
  BY <1>2, <1>7, <1>8, NatInductionOnSets
<1>10. it[1 .. n] = ev[n]
  BY <1>2, <1>9 DEF N
<1>11. ev[n] = e
  BY <1>6 DEF Trace, n
<1> QED BY <1>1, <1>2, <1>10, <1>11

\* Statements one after the other.
LEMMA LeadsOn ==
  ASSUME NEW T, NEW b \in Seq(T), NEW c \in Seq(T), NEW code, NEW args, NEW e0, NEW e1, NEW e2,
         Leads(b, code, args, e0, e1), Leads(c, code, args, e1, e2)
  PROVE  Leads(b \o c, code, args, e0, e2)
<1> DEFINE m == Len(b)
           n == Len(c)
           all == b \o c
<1>1. PICK ev : Trace(ev, b, code, args, e0, e1)
  BY DEF Leads
<1>2. PICK ew : Trace(ew, c, code, args, e1, e2)
  BY DEF Leads
<1> DEFINE ex == [k \in 0 .. m + n |-> IF k <= m THEN ev[k] ELSE ew[k - m]]
<1>3. /\ m \in Nat /\ n \in Nat /\ Len(all) = m + n
      /\ \A k \in 1 .. m : all[k] = b[k]
      /\ \A k \in m + 1 .. m + n : all[k] = c[k - m]
  <2>1. Len(all) = m + n /\ \A k \in 1 .. m + n : all[k] = IF k <= m THEN b[k] ELSE c[k - m]
    BY ConcatProperties
  <2> QED BY <2>1
<1>4. /\ ev[0] = e0 /\ ev[m] = e1 /\ ew[0] = e1 /\ ew[n] = e2
      /\ \A k \in 1 .. m : ev[k] = Execute(code, args, ev[k - 1], b[k])
      /\ \A k \in 1 .. n : ew[k] = Execute(code, args, ew[k - 1], c[k])
  BY <1>1, <1>2 DEF Trace
<1> HIDE DEF m, n, all
<1>5. /\ \A k \in 0 .. m : ex[k] = ev[k]
      /\ \A k \in m + 1 .. m + n : ex[k] = ew[k - m]
  BY <1>3
<1>6. ex[m] = ew[0]
  BY <1>3, <1>4, <1>5
<1> HIDE DEF ex
<1>7. ASSUME NEW k \in 1 .. m + n PROVE ex[k] = Execute(code, args, ex[k - 1], all[k])
  <2>1. CASE k <= m
    <3>1. k \in 1 .. m /\ k \in 0 .. m /\ k - 1 \in 0 .. m
      BY <1>3, <2>1
    <3> QED BY <1>3, <1>4, <1>5, <3>1
  <2>2. CASE k > m
    <3> DEFINE j == k - m
    <3>1. k \in m + 1 .. m + n /\ j \in 1 .. n
      BY <1>3, <2>2
    <3>2. ex[k] = ew[j] /\ all[k] = c[j]
      BY <1>3, <1>5, <3>1
    <3>3. ex[k - 1] = ew[j - 1]
      <4>1. CASE j = 1
        <5>1. k - 1 = m /\ j - 1 = 0
          BY <1>3, <3>1, <4>1
        <5> QED BY <1>6, <5>1
      <4>2. CASE j # 1
        <5>1. k - 1 \in m + 1 .. m + n /\ (k - 1) - m = j - 1
          BY <1>3, <3>1, <4>2
        <5> QED BY <1>5, <5>1
      <4> QED BY <4>1, <4>2
    <3>4. ew[j] = Execute(code, args, ew[j - 1], c[j])
      BY <1>4, <3>1
    <3> HIDE DEF j
    <3> QED BY <3>2, <3>3, <3>4
  <2> QED BY <1>3, <2>1, <2>2
<1>8. ex[0] = e0
  BY <1>3, <1>4, <1>5
<1>9. ex[m + n] = e2
  <2>1. CASE n = 0
    BY <1>3, <1>4, <1>6, <2>1
  <2>2. CASE n # 0
    <3>1. m + n \in m + 1 .. m + n /\ (m + n) - m = n
      BY <1>3, <2>2
    <3> QED BY <1>4, <1>5, <3>1
  <2> QED BY <2>1, <2>2
<1>10. Trace(ex, all, code, args, e0, e2)
  BY <1>3, <1>7, <1>8, <1>9 DEF Trace
<1> QED BY <1>10 DEF Leads, all

\* SetToSeq lists a finite set, each element once.
LEMMA SetListed ==
  ASSUME NEW S, IsFiniteSet(S)
  PROVE  /\ SetToSeq(S) \in Seq(S) /\ Len(SetToSeq(S)) = Cardinality(S)
         /\ ToSet(SetToSeq(S)) = S
<1> DEFINE n == Cardinality(S)
           s == SetToSeq(S)
<1>1. n \in Nat /\ ExistsBijection(1 .. n, S)
  BY FS_CardinalityType
<1>2. \E f \in [1 .. n -> S] : IsInjective(f)
  <2>1. PICK f \in [1 .. n -> S] : \A a, b \in 1 .. n : f[a] = f[b] => a = b
    BY <1>1 DEF ExistsBijection, Bijection, Injection, IsInjective
  <2> QED BY <2>1 DEF IsInjective
<1>3. s \in [1 .. n -> S] /\ IsInjective(s)
  BY <1>2, Zenon DEF SetToSeq
<1> HIDE DEF s, n
<1>4. s \in Seq(S) /\ Len(s) = n
  BY <1>1, <1>3
<1>5. \A x \in S : \E j \in 1 .. n : s[j] = x
  <2>1. IsFiniteSet(1 .. n) /\ Cardinality(1 .. n) = n
    BY <1>1, FS_Interval
  <2>2. s \in Injection(1 .. n, S)
    BY <1>3 DEF Injection, IsInjective
  <2>3. s \in Surjection(1 .. n, S)
    BY <2>1, <2>2, FS_Injection DEF n
  <2> QED BY <2>3 DEF Surjection
<1>6. ToSet(s) = S
  BY <1>3, <1>5 DEF ToSet
<1> QED BY <1>4, <1>6 DEF s, n

\* Statements that add to the last field, for the atom code, the annotations A.
Adds(b, code, args, A) ==
  /\ \A j \in DOMAIN b : b[j].op # "write"
  /\ A = UNION {Added(b[j], args) : j \in {x \in DOMAIN b : b[x].code = code}}

\* A field of an event.
EventField(p, A) == [position |-> p, annotations |-> A]

EventFields(X) == [position : Int, annotations : SUBSET X]

\* The event with one more field.
With(e, p, A) == Append(e, EventField(p, A))

\* What the statement adds for the atom code.
AddedFor(st, code, args) == IF st.code = code THEN Added(st, args) ELSE {}

\* A statement that annotates, within X if it is for the atom code.
Annotates(st, code, args, X) == st.op # "write" /\ AddedFor(st, code, args) \subseteq X

\* An annotation goes to the field written last.
LEMMA AnnotateLast ==
  ASSUME NEW X, NEW e \in Seq(EventFields(X)), NEW p \in Int, NEW A \in SUBSET X,
         NEW st, NEW code, NEW args, Annotates(st, code, args, X)
  PROVE  Execute(code, args, With(e, p, A), st) = With(e, p, A \cup AddedFor(st, code, args))
<1> DEFINE U == [position : Int, annotations : SUBSET X]
           x == Append(e, EventField(p, A))
<1>0. e \in Seq(U) /\ st.op # "write" /\ (st.code = code => Added(st, args) \subseteq X)
  BY DEF EventFields, Annotates, AddedFor
<1>1. CASE st.code # code
  BY <1>0, <1>1 DEF Execute, AddedFor, With
<1>2. CASE st.code = code
  <2> DEFINE B == Added(st, args)
             y == [x EXCEPT ![Len(x)].annotations = @ \cup st.always \cup ResetAnnotation(st, args)]
             z == Append(e, EventField(p, A \cup B))
  <2>1. EventField(p, A) \in U /\ EventField(p, A \cup B) \in U
    BY <1>0, <1>2 DEF EventField
  <2>2. /\ x \in Seq(U) /\ Len(x) = Len(e) + 1 /\ x[Len(x)] = EventField(p, A)
        /\ \A k \in 1 .. Len(e) : x[k] = e[k]
        /\ Len(e) \in Nat /\ DOMAIN x = 1 .. Len(e) + 1 /\ x # <<>>
    BY <1>0, <2>1
  <2>3. /\ z \in Seq(U) /\ Len(z) = Len(e) + 1 /\ z[Len(e) + 1] = EventField(p, A \cup B)
        /\ \A k \in 1 .. Len(e) : z[k] = e[k]
        /\ DOMAIN z = 1 .. Len(e) + 1 /\ z = [k \in 1 .. Len(e) + 1 |-> z[k]]
    <3> DEFINE w == EventField(p, A \cup B)
    <3>1. w \in U
      BY <2>1
    <3> HIDE DEF w, U
    <3>2. /\ Append(e, w) \in Seq(U) /\ Len(Append(e, w)) = Len(e) + 1 /\ Append(e, w)[Len(e) + 1] = w
          /\ \A k \in 1 .. Len(e) : Append(e, w)[k] = e[k]
          /\ DOMAIN Append(e, w) = 1 .. Len(e) + 1
      BY <1>0, <3>1
    <3>3. Append(e, w) = [k \in 1 .. Len(e) + 1 |-> Append(e, w)[k]]
      <4>1. \A v \in Seq(U) : v = [k \in 1 .. Len(v) |-> v[k]]
        OBVIOUS
      <4> QED BY <3>2, <4>1
    <3> QED BY <3>2, <3>3 DEF w
  <2> DEFINE n == Len(e)
             C == x[Len(x)].annotations \cup st.always \cup ResetAnnotation(st, args)
             r == [x[Len(x)] EXCEPT !.annotations = C]
  <2>4. y = [k \in 1 .. n + 1 |-> IF k = n + 1 THEN r ELSE x[k]]
    <3>1. y = [x EXCEPT ![Len(x)].annotations = C]
      OBVIOUS
    <3> HIDE DEF y, C, x, n
    <3>2. y = [x EXCEPT ![Len(x)] = r]
      BY <3>1
    <3>3. DOMAIN x = 1 .. n + 1 /\ Len(x) = n + 1
      BY <2>2 DEF n
    <3> HIDE DEF r
    <3> QED BY <3>2, <3>3
  <2>5. r = EventField(p, A \cup B)
    <3>1. A \cup B = C
      <4>1. x[Len(x)].annotations = A
        BY <2>2 DEF EventField
      <4> HIDE DEF x
      <4> QED BY <4>1 DEF Added
    <3>2. x[Len(x)] = [position |-> p, annotations |-> A]
      BY <2>2 DEF EventField
    <3> HIDE DEF x, B, C
    <3>3. ASSUME NEW w, w = [position |-> p, annotations |-> A]
          PROVE  [w EXCEPT !.annotations = C] = [position |-> p, annotations |-> C]
      <4> HIDE DEF r, y, z
      <4> QED BY <3>3
    <3>4. r = [position |-> p, annotations |-> C]
      BY <3>2, <3>3, Zenon
    <3> QED BY <3>1, <3>4 DEF EventField
  <2>6. Execute(code, args, x, st) = y
    <3> HIDE DEF x
    <3> QED BY <1>0, <1>2, <2>2 DEF Execute
  <2> HIDE DEF x, y, z, r, B
  <2>7. y = z
    <3>1. n \in Nat
      BY <2>2
    <3>2. \A k \in 1 .. n + 1 : (IF k = n + 1 THEN r ELSE x[k]) = z[k]
      <4> SUFFICES ASSUME NEW k \in 1 .. n + 1 PROVE (IF k = n + 1 THEN r ELSE x[k]) = z[k]
        OBVIOUS
      <4>1. k = n + 1 \/ k \in 1 .. n
        BY <3>1
      <4> QED BY <2>2, <2>3, <2>5, <3>1, <4>1
    <3> QED BY <2>3, <2>4, <3>2
  <2> QED BY <1>2, <2>6, <2>7 DEF x, z, B, AddedFor, With
<1> QED BY <1>1, <1>2

\* The statements of an argument: write it, then add its annotations.
LEMMA BlockLeads ==
  ASSUME NEW X, NEW e \in Seq(EventFields(X)), NEW p \in Int, NEW A \in SUBSET X, NEW b,
         NEW code, NEW args, NEW T, b \in Seq(T), Adds(b, code, args, A), Write(p) \in T
  PROVE  Leads(<<Write(p)>> \o b, code, args, e, With(e, p, A))
<1> DEFINE n == Len(b)
           Part(k) == UNION {Added(b[j], args) : j \in {x \in 1 .. k : b[x].code = code}}
           ev == [k \in 0 .. n |-> With(e, p, Part(k))]
           w == <<Write(p)>>
           ew == [k \in 0 .. 1 |-> IF k = 0 THEN e ELSE With(e, p, {})]
<1>1. n \in Nat /\ DOMAIN b = 1 .. n
  OBVIOUS
<1>2. Part(0) = {} /\ Part(n) = A
  <2>1. 1 .. 0 = {}
    OBVIOUS
  <2>2. Part(0) = {}
    BY <2>1
  <2> QED BY <1>1, <2>2 DEF Adds
<1>3. ASSUME NEW k \in 1 .. n
      PROVE  /\ Part(k) = Part(k - 1) \cup AddedFor(b[k], code, args)
             /\ Part(k) \subseteq A /\ Part(k - 1) \subseteq A
             /\ b[k].op # "write"
             /\ AddedFor(b[k], code, args) \subseteq X
  <2>1. \A j : j \in 1 .. k <=> j \in 1 .. k - 1 \/ j = k
    BY <1>1
  <2>2. \A j \in 1 .. k : j \in 1 .. n
    BY <1>1
  <2>3. Part(k) = Part(k - 1) \cup AddedFor(b[k], code, args)
    BY <2>1 DEF AddedFor
  <2>4. Part(k) \subseteq A
    BY <1>1, <2>2 DEF Adds
  <2>5. Part(k - 1) \subseteq A
    BY <2>3, <2>4
  <2>6. b[k].op # "write"
    BY <1>1 DEF Adds
  <2>7. AddedFor(b[k], code, args) \subseteq X
    BY <2>3, <2>4
  <2> QED BY <2>3, <2>4, <2>5, <2>6, <2>7
<1> HIDE DEF n, Part
<1>4. ASSUME NEW k \in 1 .. n PROVE ev[k] = Execute(code, args, ev[k - 1], b[k])
  <2>1. k \in 0 .. n /\ k - 1 \in 0 .. n
    BY <1>1
  <2>2. ev[k] = With(e, p, Part(k)) /\ ev[k - 1] = With(e, p, Part(k - 1))
    BY <2>1
  <2>3. Part(k - 1) \in SUBSET X
    BY <1>3
  <2> HIDE DEF ev
  <2>4. /\ Part(k) = Part(k - 1) \cup AddedFor(b[k], code, args)
        /\ b[k].op # "write" /\ AddedFor(b[k], code, args) \subseteq X
    BY <1>3
  <2>5. Execute(code, args, With(e, p, Part(k - 1)), b[k])
          = With(e, p, Part(k - 1) \cup AddedFor(b[k], code, args))
    <3> DEFINE Q == Part(k - 1)
               st == b[k]
    <3>1. Q \in SUBSET X /\ Annotates(st, code, args, X)
      BY <2>3, <2>4 DEF Annotates
    <3> HIDE DEF Q, st
    <3>2. Execute(code, args, With(e, p, Q), st)
            = With(e, p, Q \cup AddedFor(st, code, args))
      BY <3>1, AnnotateLast
    <3> QED BY <3>2 DEF Q, st
  <2> QED BY <2>2, <2>4, <2>5
<1>5. ev[0] = With(e, p, {}) /\ ev[n] = With(e, p, A)
  <2>1. 0 \in 0 .. n /\ n \in 0 .. n
    BY <1>1
  <2> QED BY <1>2, <2>1
<1> HIDE DEF ev
<1>6. Trace(ev, b, code, args, With(e, p, {}), With(e, p, A))
  BY <1>4, <1>5 DEF Trace, n
<1>7. Trace(ew, w, code, args, e, With(e, p, {}))
  <2>1. Len(w) = 1 /\ w[1] = Write(p) /\ ew[0] = e /\ ew[1] = With(e, p, {})
    OBVIOUS
  <2>2. Write(p).op = "write" /\ Write(p).position = p
    BY DEF Write
  <2> HIDE DEF w, ew
  <2>3. ew[1] = Execute(code, args, ew[0], w[1])
    BY <2>1, <2>2, Zenon DEF Execute, EventField, With
  <2>4. \A k \in 1 .. Len(w) : k = 1 /\ k - 1 = 0
    BY <2>1
  <2>5. ASSUME NEW k \in 1 .. Len(w) PROVE ew[k] = Execute(code, args, ew[k - 1], w[k])
    <3>1. k = 1 /\ k - 1 = 0
      BY <2>4
    <3> QED BY <2>3, <3>1
  <2> QED BY <2>1, <2>5 DEF Trace
<1>8. w \in Seq(T)
  OBVIOUS
<1> HIDE DEF w, ew
<1>9. Leads(w \o b, code, args, e, With(e, p, A))
  BY <1>6, <1>7, <1>8, LeadsOn DEF Leads
<1> QED BY <1>9 DEF w

\* The statements for m arguments: the kth annotates the kth field with A[k].
BodyAdds(m, P, B, A, code, args) ==
  \A k \in 1 .. m : P[k] \in Int /\ B[k] \in Seq(ToSet(B[k])) /\ Adds(B[k], code, args, A[k])

\* The statements of a method make the event of its fields, each with the
\* annotations that are added after it.
LEMMA MethodRuns ==
  ASSUME NEW m \in Nat \ {0}, NEW P, NEW B, NEW A, NEW code, NEW args, BodyAdds(m, P, B, A, code, args)
  PROVE  Run(FlattenSeq([k \in 1 .. m |-> <<Write(P[k])>> \o B[k]]), code, args)
           = [k \in 1 .. m |-> EventField(P[k], A[k])]
<1> DEFINE T == (UNION {ToSet(B[k]) : k \in 1 .. m}) \cup {Write(P[k]) : k \in 1 .. m}
           X == UNION {A[k] : k \in 1 .. m}
           U == EventFields(X)
           parts == [k \in 1 .. m |-> <<Write(P[k])>> \o B[k]]
           E(k) == [j \in 1 .. k |-> EventField(P[j], A[j])]
<1>1. ASSUME NEW k \in 1 .. m
      PROVE  /\ P[k] \in Int /\ A[k] \in SUBSET X /\ B[k] \in Seq(T) /\ Write(P[k]) \in T
             /\ Adds(B[k], code, args, A[k]) /\ EventField(P[k], A[k]) \in U
  <2>1. P[k] \in Int /\ Adds(B[k], code, args, A[k]) /\ B[k] \in Seq(ToSet(B[k]))
    BY DEF BodyAdds
  <2>2. Write(P[k]) \in T /\ ToSet(B[k]) \subseteq T /\ A[k] \in SUBSET X
    OBVIOUS
  <2>3. B[k] \in Seq(T)
    <3> HIDE DEF T
    <3> QED BY <2>1, <2>2
  <2>4. EventField(P[k], A[k]) \in U
    <3> HIDE DEF X
    <3> QED BY <2>1, <2>2 DEF EventField, EventFields
  <2> QED BY <2>1, <2>2, <2>3, <2>4
<1> HIDE DEF T, X
<1>2. ASSUME NEW k \in 1 .. m PROVE parts[k] = <<Write(P[k])>> \o B[k] /\ parts[k] \in Seq(T)
  <2>1. B[k] \in Seq(T) /\ <<Write(P[k])>> \in Seq(T)
    BY <1>1
  <2>2. <<Write(P[k])>> \o B[k] \in Seq(T)
    BY <2>1
  <2> QED BY <2>2
<1>3. Len(parts) = m
  OBVIOUS
<1> HIDE DEF parts
<1>4. PICK fl : Flattens(fl, parts, m)
  BY <1>3, FlattenSeqUnfolded
<1>5. ASSUME NEW k \in Nat, k <= m PROVE E(k) \in Seq(U) /\ Len(E(k)) = k
  <2>1. \A j \in 1 .. k : j \in 1 .. m
    BY <1>5
  <2>2. \A j \in 1 .. k : EventField(P[j], A[j]) \in U
    BY <1>1, <2>1
  <2> HIDE DEF U
  <2> QED BY <2>2
<1>6. ASSUME NEW k \in Nat, k + 1 \in 1 .. m
      PROVE  Leads(parts[k + 1], code, args, E(k), E(k + 1))
  <2>1. E(k) \in Seq(U) /\ Len(E(k)) = k /\ E(k + 1) \in Seq(U) /\ Len(E(k + 1)) = k + 1
    BY <1>5, <1>6
  <2> DEFINE w == EventField(P[k + 1], A[k + 1])
  <2>2. w \in U
    BY <1>1, <1>6
  <2>3. E(k + 1)[k + 1] = w /\ \A j \in 1 .. k : E(k)[j] = E(k + 1)[j]
    OBVIOUS
  <2> HIDE DEF w, E, U
  <2>4. Append(E(k), w) = E(k + 1)
    <3>1. /\ Append(E(k), w) \in Seq(U) /\ Len(Append(E(k), w)) = k + 1
          /\ \A j \in 1 .. k : Append(E(k), w)[j] = E(k)[j]
          /\ Append(E(k), w)[k + 1] = w
      BY <2>1, <2>2, AppendProperties
    <3>2. \A j \in 1 .. k + 1 : Append(E(k), w)[j] = E(k + 1)[j]
      <4>1. \A j \in 1 .. k + 1 : j \in 1 .. k \/ j = k + 1
        OBVIOUS
      <4> QED BY <2>3, <3>1, <4>1
    <3> QED BY <2>1, <3>1, <3>2, SeqEqual
  <2>5. Leads(<<Write(P[k + 1])>> \o B[k + 1], code, args, E(k), Append(E(k), w))
    BY <1>1, <1>6, <2>1, BlockLeads DEF w, U, With
  <2> QED BY <1>2, <1>6, <2>4, <2>5
<1> DEFINE N == {k \in Nat : k + 1 \in 1 .. m =>
                   fl[k + 1] \in Seq(T) /\ Leads(fl[k + 1], code, args, <<>>, E(k + 1))}
<1>7. 0 \in N
  <2>1. fl[1] = parts[1] /\ 0 + 1 \in 1 .. m /\ 0 + 1 = 1
    BY <1>4 DEF Flattens
  <2>2. E(0) = <<>>
    OBVIOUS
  <2>3. Leads(parts[1], code, args, E(0), E(1))
    BY <1>6, <2>1
  <2> QED BY <1>2, <2>1, <2>2, <2>3
<1>8. ASSUME NEW k \in Nat, k \in N PROVE k + 1 \in N
  <2> DEFINE l == k + 1
  <2> SUFFICES ASSUME l + 1 \in 1 .. m
               PROVE  fl[l + 1] \in Seq(T) /\ Leads(fl[l + 1], code, args, <<>>, E(l + 1))
    OBVIOUS
  <2>1. l \in Nat /\ l \in 1 .. m /\ l + 1 \in 2 .. m /\ (l + 1) - 1 = l
    OBVIOUS
  <2>2. fl[l] \in Seq(T) /\ Leads(fl[l], code, args, <<>>, E(l))
    BY <1>8, <2>1
  <2> HIDE DEF l, E, N
  <2>3. fl[l + 1] = fl[l] \o parts[l + 1] /\ parts[l + 1] \in Seq(T)
    BY <1>2, <1>4, <2>1 DEF Flattens
  <2>4. Leads(parts[l + 1], code, args, E(l), E(l + 1))
    BY <1>6, <2>1
  <2>5. Leads(fl[l] \o parts[l + 1], code, args, <<>>, E(l + 1))
    BY <2>2, <2>3, <2>4, LeadsOn
  <2>6. fl[l] \o parts[l + 1] \in Seq(T)
    BY <2>2, <2>3
  <2> QED BY <2>3, <2>5, <2>6
<1> HIDE DEF N, E
<1>9. \A k \in Nat : k \in N
  BY <1>7, <1>8, NatInductionOnSets
<1>10. fl[m] \in Seq(T) /\ Leads(fl[m], code, args, <<>>, E(m))
  <2>1. m - 1 \in Nat /\ (m - 1) + 1 = m /\ m \in 1 .. m
    OBVIOUS
  <2> QED BY <1>9, <2>1 DEF N
<1>11. Run(fl[m], code, args) = E(m)
  BY <1>10, RunLeads
<1>12. FlattenSeq(parts) = fl[m]
  BY <1>4 DEF Flattens
<1> QED BY <1>11, <1>12 DEF parts, E

-----------------------------------------------------------------------------
(* The annotations an atom declares. *)

\* The annotations of the atom id.
LEMMA AtomIdAnnotation ==
  ASSUME NEW f, NEW b \in AtomIdAnnotations(f)
  PROVE  b[2] = "TRUNCATE_TIMESTAMP" \/ (b[2] = "RESTRICTION_CATEGORY" /\ b[3] \in f.category)
<1>1. CASE b \in {<<ATOM_ID_FIELD_NUMBER, "TRUNCATE_TIMESTAMP", TRUE>>}
  <2>1. b = <<ATOM_ID_FIELD_NUMBER, "TRUNCATE_TIMESTAMP", TRUE>>
    BY <1>1
  <2> QED BY <2>1
<1>2. CASE b \in {<<ATOM_ID_FIELD_NUMBER, "RESTRICTION_CATEGORY", v>> : v \in f.category}
  <2>1. PICK v \in f.category : b = <<ATOM_ID_FIELD_NUMBER, "RESTRICTION_CATEGORY", v>>
    BY <1>2
  <2> QED BY <2>1
<1> QED BY <1>1, <1>2 DEF AtomIdAnnotations, When

\* The state of an atom has one value of each kind, and none that marks its absence.
LEMMA OneState ==
  ASSUME NEW f \in AtomFields, AtomAllowed(f), Representable(f),
         NEW b \in DeclaredAtomAnnotations(f), NEW c \in DeclaredAtomAnnotations(f),
         b[1] = c[1], b[2] = c[2], b[2] \in StateIds
  PROVE  b[3] = c[3] /\ b[3] # NO_STATE
<1> DEFINE a == AtomOf(f)
<1>1. a \in AtomProtos /\ WellFormed(a) /\ a.fields = f.fields
  BY AtomOfProto DEF AtomAllowed, AtomOf
<1> HIDE DEF a
<1>2. ASSUME NEW e \in DeclaredAtomAnnotations(f), e[2] \in StateIds
      PROVE  \E k \in DOMAIN f.fields : e[1] = k /\ e \in DeclaredFieldAnnotations(f.fields[k])
  <2>1. e \notin AtomIdAnnotations(f)
    BY <1>2, AtomIdAnnotation DEF StateIds
  <2>2. PICK k \in DOMAIN f.fields : e \in DeclaredFieldAnnotations(f.fields[k])
    BY <1>1, <2>1 DEF DeclaredAtomAnnotations, DeclaredAnnotations, a
  <2>3. f.fields[k] \in FieldProtos /\ f.fields[k].number = k
    BY <1>1, AtomFacts DEF WellFormed, NumberAllowed
  <2>4. e[1] = k
    BY <2>2, <2>3, DeclaredAnnotationField
  <2> QED BY <2>2, <2>4
<1>3. PICK k \in DOMAIN f.fields : b[1] = k /\ b \in DeclaredFieldAnnotations(f.fields[k])
  BY <1>2
<1>4. c \in DeclaredFieldAnnotations(f.fields[k])
  BY <1>2, <1>3
<1> DEFINE g == f.fields[k]
<1>5. g \in FieldProtos
  BY <1>1, AtomFacts
<1>6. \A o \in g.state : o.exclusive => NO_STATE \notin o.default \cup o.reset
  BY DEF Representable
<1> HIDE DEF g
<1>7. b[2] \in StateAnnotationIds /\ c[2] \in StateAnnotationIds
  BY DEF StateIds, StateAnnotationIds
<1>8. PICK o \in g.state : /\ o.exclusive
                           /\ b[2] = "DEFAULT_STATE" => b[3] \in o.default
                           /\ b[2] = "TRIGGER_STATE_RESET" => b[3] \in o.reset
  BY <1>3, <1>5, <1>7, DeclaredState DEF g
<1>9. PICK q \in g.state : /\ q.exclusive
                           /\ c[2] = "DEFAULT_STATE" => c[3] \in q.default
                           /\ c[2] = "TRIGGER_STATE_RESET" => c[3] \in q.reset
  BY <1>4, <1>5, <1>7, DeclaredState DEF g
<1>10. o = q /\ o.default \in Optional(Int) /\ o.reset \in Optional(Int)
  <2>1. g.state \in Optional(StateOptions)
    BY <1>5 DEF FieldProtos
  <2>2. o = q /\ o \in StateOptions
    BY <2>1 DEF Optional
  <2> QED BY <2>2 DEF StateOptions
<1>11. (b[3] \in o.default /\ c[3] \in o.default) \/ (b[3] \in o.reset /\ c[3] \in o.reset)
  BY <1>8, <1>9, <1>10 DEF StateIds
<1> QED BY <1>6, <1>8, <1>10, <1>11 DEF Optional

\* An annotation has an id the vendor writers count, and a category a name.
LEMMA KnownIds ==
  ASSUME NEW f \in AtomFields, Representable(f), NEW b \in DeclaredAtomAnnotations(f)
  PROVE  /\ b[2] \in IntIds \cup BoolIds
         /\ b[2] = "RESTRICTION_CATEGORY" => b[3] \in RestrictionCategories
<1>1. b[2] \in IntIds \cup BoolIds
  <2>1. b[2] \in DOMAIN AnnotationMinApiLevel
    BY DeclaredAtomIds
  <2>2. DOMAIN AnnotationMinApiLevel = AnnotationIdsFromS \cup FieldRestrictions \cup {"RESTRICTION_CATEGORY"}
    BY DEF AnnotationMinApiLevel
  <2> QED BY <2>1, <2>2 DEF IntIds, BoolIds, StateIds, AnnotationIdsFromS
<1>2. ASSUME b[2] = "RESTRICTION_CATEGORY" PROVE b[3] \in RestrictionCategories
  <2>1. CASE b \in AtomIdAnnotations(f)
    BY <1>2, <2>1, AtomIdAnnotation DEF Representable
  <2>2. CASE b \in DeclaredAnnotations(AtomOf(f))
    <3>1. PICK k \in DOMAIN AtomOf(f).fields : b \in DeclaredFieldAnnotations(AtomOf(f).fields[k])
      BY <2>2 DEF DeclaredAnnotations
    <3>2. AtomOf(f).fields[k] \in FieldProtos
      BY AtomOfProto, AtomFacts
    <3>3. b[2] \in FieldIds
      BY <3>1, <3>2, DeclaredFieldIds
    <3> QED BY <1>2, <3>3 DEF FieldIds, AnnotationIdsFromS, FieldRestrictions
  <2> QED BY <2>1, <2>2 DEF DeclaredAtomAnnotations
<1> QED BY <1>1, <1>2

\* A set of at most one value.
LEMMA OptionalFinite ==
  ASSUME NEW S, NEW T \in Optional(S)
  PROVE  IsFiniteSet(T)
<1>1. CASE T = {}
  BY <1>1, FS_EmptySet
<1>2. CASE T # {}
  <2>1. PICK x : x \in T
    BY <1>2
  <2>2. T = {x}
    BY <2>1 DEF Optional
  <2> QED BY <2>2, FS_Singleton
<1> QED BY <1>1, <1>2

\* The images of finitely many elements.
LEMMA ImageFinite ==
  ASSUME NEW S, IsFiniteSet(S), NEW g
  PROVE  IsFiniteSet({g[x] : x \in S})
<1> DEFINE T == {g[x] : x \in S}
           h == [x \in S |-> g[x]]
<1>1. h \in Surjection(S, T)
  BY DEF Surjection
<1> HIDE DEF h, T
<1>2. IsFiniteSet(T)
  BY <1>1, FS_Surjection
<1> QED BY <1>2 DEF T

\* Annotations of field n: id with each value of S, or each id of S with value v.
Tagged(n, id, S) == {<<n, id, v>> : v \in S}
Named(n, S, v) == {<<n, id, v>> : id \in S}

\* There are finitely many of either.
LEMMA TaggedFinite ==
  ASSUME NEW S, IsFiniteSet(S), NEW n, NEW id
  PROVE  IsFiniteSet(Tagged(n, id, S)) /\ IsFiniteSet(Named(n, S, id))
<1> DEFINE g == [v \in S |-> <<n, id, v>>]
           h == [v \in S |-> <<n, v, id>>]
<1>1. Tagged(n, id, S) = {g[v] : v \in S} /\ Named(n, S, id) = {h[v] : v \in S}
  BY DEF Tagged, Named
<1> HIDE DEF g, h
<1>2. IsFiniteSet({g[v] : v \in S}) /\ IsFiniteSet({h[v] : v \in S})
  BY ImageFinite
<1> QED BY <1>1, <1>2

\* The union of finitely many finite sets is finite.
LEMMA UnionOfTwo ==
  ASSUME NEW S, NEW T, IsFiniteSet(S), IsFiniteSet(T)
  PROVE  IsFiniteSet(S \cup T)
BY FS_Union

\* So is the union of the first n of finite sets.
LEMMA FirstFinite ==
  ASSUME NEW n \in Nat, NEW Part, \A k \in 1 .. n : IsFiniteSet(Part[k])
  PROVE  IsFiniteSet(UNION {Part[k] : k \in 1 .. n})
<1> DEFINE N == {k \in Nat : k <= n => IsFiniteSet(UNION {Part[j] : j \in 1 .. k})}
<1>1. 0 \in N
  <2>1. 1 .. 0 = {}
    OBVIOUS
  <2>2. UNION {Part[j] : j \in 1 .. 0} = {}
    BY <2>1
  <2> QED BY <2>2, FS_EmptySet
<1>2. ASSUME NEW k \in Nat, k \in N PROVE k + 1 \in N
  <2> SUFFICES ASSUME k + 1 <= n PROVE IsFiniteSet(UNION {Part[j] : j \in 1 .. k + 1})
    OBVIOUS
  <2>1. IsFiniteSet(UNION {Part[j] : j \in 1 .. k}) /\ k + 1 \in 1 .. n
    BY <1>2
  <2>2. UNION {Part[j] : j \in 1 .. k + 1} = (UNION {Part[j] : j \in 1 .. k}) \cup Part[k + 1]
    <3>1. \A j : j \in 1 .. k + 1 <=> j \in 1 .. k \/ j = k + 1
      OBVIOUS
    <3> QED BY <3>1
  <2> QED BY <2>1, <2>2, UnionOfTwo
<1> HIDE DEF N
<1>3. \A k \in Nat : k \in N
  BY <1>1, <1>2, NatInductionOnSets
<1> QED BY <1>3 DEF N

\* An atom declares finitely many annotations of its fields.
LEMMA FieldAnnotationsFinite ==
  ASSUME NEW f \in FieldProtos
  PROVE  IsFiniteSet(DeclaredFieldAnnotations(f))
<1> DEFINE n == f.number
           Key(o) == When(o.primary, {<<n, "PRIMARY_FIELD", TRUE>>})
                     \cup When(o.firstUid, {<<n, "PRIMARY_FIELD_FIRST_UID", TRUE>>})
           D(o) == {<<n, "DEFAULT_STATE", v>> : v \in o.default}
           T(o) == {<<n, "TRIGGER_STATE_RESET", v>> : v \in o.reset}
           N(o) == {<<n, "STATE_NESTED", v>> : v \in o.nested}
           R == {<<f.number, r, TRUE>> : r \in UNION f.restriction}
           I == When(f.isUid, {<<f.number, "IS_UID", TRUE>>})
<1>1. \A b : IsFiniteSet({b}) /\ IsFiniteSet({})
  BY FS_Singleton, FS_EmptySet
<1>2. IsFiniteSet(I)
  BY <1>1 DEF When
<1>3. IsFiniteSet(R)
  <2>1. IsFiniteSet(UNION f.restriction)
    <3>1. UNION f.restriction \subseteq FieldRestrictions
      BY DEF FieldProtos, Optional
    <3>2. IsFiniteSet(FieldRestrictions)
      <4> DEFINE A == {"PERIPHERAL_DEVICE_INFO"} \cup {"APP_USAGE"} \cup {"APP_ACTIVITY"}
                      \cup {"HEALTH_CONNECT"} \cup {"ACCESSIBILITY"}
                 B == {"SYSTEM_SEARCH"} \cup {"USER_ENGAGEMENT"} \cup {"AMBIENT_SENSING"}
                      \cup {"DEMOGRAPHIC_CLASSIFICATION"}
      <4>1. IsFiniteSet(A) /\ IsFiniteSet(B)
        BY <1>1, UnionOfTwo
      <4>2. FieldRestrictions = A \cup B
        BY DEF FieldRestrictions
      <4> HIDE DEF A, B
      <4> QED BY <4>1, <4>2, UnionOfTwo
    <3> QED BY <3>1, <3>2, FS_Subset
  <2>2. IsFiniteSet(Named(n, UNION f.restriction, TRUE))
    BY <2>1, TaggedFinite
  <2> QED BY <2>2 DEF Named
<1>4. ASSUME NEW o \in f.state PROVE IsFiniteSet(DeclaredStateAnnotations(n, o))
  <2>1. o.default \in Optional(Int) /\ o.reset \in Optional(Int) /\ o.nested \in Optional(BOOLEAN)
    BY DEF FieldProtos, Optional, StateOptions
  <2>2. IsFiniteSet(o.default) /\ IsFiniteSet(o.reset) /\ IsFiniteSet(o.nested)
    BY <2>1, OptionalFinite
  <2> DEFINE TD == Tagged(n, "DEFAULT_STATE", o.default)
             TT == Tagged(n, "TRIGGER_STATE_RESET", o.reset)
             TN == Tagged(n, "STATE_NESTED", o.nested)
  <2>3. IsFiniteSet(TD) /\ IsFiniteSet(TT) /\ IsFiniteSet(TN)
    BY <2>2, TaggedFinite
  <2>4. D(o) = TD /\ T(o) = TT /\ N(o) = TN
    BY DEF Tagged
  <2>5. IsFiniteSet(D(o)) /\ IsFiniteSet(T(o)) /\ IsFiniteSet(N(o))
    <3> HIDE DEF TD, TT, TN
    <3> QED BY <2>3, <2>4
  <2>6. IsFiniteSet(Key(o))
    <3>1. IsFiniteSet(When(o.primary, {<<n, "PRIMARY_FIELD", TRUE>>}))
      BY <1>1 DEF When
    <3>2. IsFiniteSet(When(o.firstUid, {<<n, "PRIMARY_FIELD_FIRST_UID", TRUE>>}))
      BY <1>1 DEF When
    <3> QED BY <3>1, <3>2, UnionOfTwo
  <2> DEFINE E == {<<n, "EXCLUSIVE_STATE", TRUE>>} \cup D(o) \cup T(o) \cup N(o)
  <2>7. IsFiniteSet(E)
    <3> HIDE DEF D, T, N
    <3>1. IsFiniteSet({<<n, "EXCLUSIVE_STATE", TRUE>>} \cup D(o))
      BY <1>1, <2>5, UnionOfTwo
    <3>2. IsFiniteSet(({<<n, "EXCLUSIVE_STATE", TRUE>>} \cup D(o)) \cup T(o))
      BY <2>5, <3>1, UnionOfTwo
    <3> QED BY <2>5, <3>2, UnionOfTwo
  <2>8. DeclaredStateAnnotations(n, o) = Key(o) \cup When(o.exclusive, E)
    BY Zenon DEF DeclaredStateAnnotations
  <2> HIDE DEF Key, E
  <2>9. IsFiniteSet(When(o.exclusive, E))
    BY <1>1, <2>7 DEF When
  <2> QED BY <2>6, <2>8, <2>9, UnionOfTwo
<1>5. IsFiniteSet(UNION {DeclaredStateAnnotations(n, o) : o \in f.state})
  <2>1. CASE f.state = {}
    <3>1. UNION {DeclaredStateAnnotations(n, o) : o \in f.state} = {}
      BY <2>1
    <3> QED BY <1>1, <3>1
  <2>2. CASE f.state # {}
    <3>1. PICK o : o \in f.state
      BY <2>2
    <3>2. f.state = {o}
      BY <3>1 DEF FieldProtos, Optional
    <3>3. UNION {DeclaredStateAnnotations(n, q) : q \in f.state} = DeclaredStateAnnotations(n, o)
      BY <3>2
    <3> QED BY <1>4, <3>1, <3>3
  <2> QED BY <2>1, <2>2
<1>6. DeclaredFieldAnnotations(f) = (UNION {DeclaredStateAnnotations(n, o) : o \in f.state}) \cup R \cup I
  BY Zenon DEF DeclaredFieldAnnotations
<1> HIDE DEF R, I
<1>7. IsFiniteSet((UNION {DeclaredStateAnnotations(n, o) : o \in f.state}) \cup R)
  BY <1>3, <1>5, UnionOfTwo
<1> QED BY <1>2, <1>6, <1>7, UnionOfTwo

\* And with those of its atom id, all its annotations.
LEMMA AnnotationsFinite ==
  ASSUME NEW f \in AtomFields
  PROVE  IsFiniteSet(DeclaredAtomAnnotations(f))
<1> DEFINE a == AtomOf(f)
           Part == [k \in 1 .. Len(a.fields) |-> DeclaredFieldAnnotations(a.fields[k])]
<1>1. a \in AtomProtos
  BY AtomOfProto
<1>2. /\ Len(a.fields) \in Nat /\ DOMAIN a.fields = 1 .. Len(a.fields)
      /\ \A k \in 1 .. Len(a.fields) : a.fields[k] \in FieldProtos
  BY <1>1, AtomFacts
<1> HIDE DEF a
<1>3. \A k \in 1 .. Len(a.fields) : IsFiniteSet(Part[k])
  BY <1>2, FieldAnnotationsFinite
<1>4. DeclaredAnnotations(a) = UNION {Part[k] : k \in 1 .. Len(a.fields)}
  BY <1>2 DEF DeclaredAnnotations
<1> HIDE DEF Part
<1>5. IsFiniteSet(DeclaredAnnotations(a))
  BY <1>2, <1>3, <1>4, FirstFinite, ZenonT(60)
<1>6. IsFiniteSet(AtomIdAnnotations(f))
  <2> DEFINE C == {<<ATOM_ID_FIELD_NUMBER, "RESTRICTION_CATEGORY", c>> : c \in f.category}
             W == When(f.truncate, {<<ATOM_ID_FIELD_NUMBER, "TRUNCATE_TIMESTAMP", TRUE>>})
  <2>1. IsFiniteSet(W)
    BY FS_Singleton, FS_EmptySet DEF When
  <2>2. f.category \in Optional(Int)
    BY DEF AtomFields
  <2>3. IsFiniteSet(C)
    <3>1. IsFiniteSet(Tagged(ATOM_ID_FIELD_NUMBER, "RESTRICTION_CATEGORY", f.category))
      BY <2>2, OptionalFinite, TaggedFinite
    <3> QED BY <3>1 DEF Tagged
  <2>4. AtomIdAnnotations(f) = W \cup C
    BY Zenon DEF AtomIdAnnotations
  <2> HIDE DEF W, C
  <2> QED BY <2>1, <2>3, <2>4, UnionOfTwo
<1> QED BY <1>5, <1>6, UnionOfTwo DEF DeclaredAtomAnnotations, a

-----------------------------------------------------------------------------
(* What the statements of a position add. *)

\* The values an atom has for a state at a position.
ValuesAt(d, p, id) == {a[3] : a \in {x \in d.annotations : x[1] = p /\ x[2] = id}}

\* At most one, and not the one that marks its absence.
OneValue(V) == (\A u, v \in V : u = v) /\ NO_STATE \notin V

\* An argument is tested against at most one reset state.
AtMostOne(S) == S = {} \/ \E x : S = {x}

\* Where an atom has a reset state and a default state, the writers add the
\* default when the argument is the reset state.
LEMMA ResetAdded ==
  ASSUME NEW d, NEW n, NEW p, NEW args, NEW A,
         NEW R, R = ValuesAt(d, p, "TRIGGER_STATE_RESET"), OneValue(R),
         NEW V, V = ValuesAt(d, p, "DEFAULT_STATE"), OneValue(V)
  PROVE  /\ ResetAnnotation(Annotate(n, p, A, OnReset(d, p)), args)
              = {<<"TRIGGER_STATE_RESET", v>> : v \in IF \E r \in R : args[p] = r THEN V ELSE {}}
         /\ AtMostOne(OnReset(d, p))
<1> DEFINE st == Annotate(n, p, A, OnReset(d, p))
<1>1. /\ StateValue(d, p, "TRIGGER_STATE_RESET") = IF R = {} THEN NO_STATE ELSE CHOOSE v \in R : TRUE
      /\ StateValue(d, p, "DEFAULT_STATE") = IF V = {} THEN NO_STATE ELSE CHOOSE v \in V : TRUE
  BY DEF StateValue, ValuesAt
<1>2. st.onReset = OnReset(d, p) /\ st.position = p
  BY DEF Annotate
<1>3. CASE R = {} \/ V = {}
  <2>1. OnReset(d, p) = {}
    BY <1>1, <1>3 DEF OnReset, When
  <2>2. ResetAnnotation(st, args) = {}
    BY <1>2, <2>1 DEF ResetAnnotation
  <2>3. (IF \E r \in R : args[p] = r THEN V ELSE {}) = {}
    BY <1>3
  <2> HIDE DEF st
  <2> QED BY <2>1, <2>2, <2>3 DEF st, AtMostOne
<1>4. CASE R # {} /\ V # {}
  <2>1. PICK r \in R, v \in V : TRUE
    BY <1>4
  <2>2. R = {r} /\ V = {v} /\ r # NO_STATE /\ v # NO_STATE
    BY <2>1 DEF OneValue
  <2>3. StateValue(d, p, "TRIGGER_STATE_RESET") = r /\ StateValue(d, p, "DEFAULT_STATE") = v
    BY <1>1, <2>2
  <2>4. OnReset(d, p) = {<<r, v>>}
    BY <2>2, <2>3 DEF OnReset, When
  <2>5. ResetAnnotation(st, args) = {<<"TRIGGER_STATE_RESET", x[2]>> : x \in {y \in {<<r, v>>} : args[p] = y[1]}}
    BY <1>2, <2>4, Zenon DEF ResetAnnotation
  <2> HIDE DEF st
  <2>6. CASE args[p] = r
    <3>1. {y \in {<<r, v>>} : args[p] = y[1]} = {<<r, v>>}
      BY <2>6
    <3>2. ResetAnnotation(st, args) = {<<"TRIGGER_STATE_RESET", v>>}
      <4>1. ResetAnnotation(st, args) = {<<"TRIGGER_STATE_RESET", x[2]>> : x \in {<<r, v>>}}
        BY <2>5, <3>1, Zenon
      <4> QED BY <4>1
    <3>3. (IF \E q \in R : args[p] = q THEN V ELSE {}) = {v}
      BY <2>2, <2>6
    <3> QED BY <2>4, <3>2, <3>3 DEF st, AtMostOne
  <2>7. CASE args[p] # r
    <3>1. {y \in {<<r, v>>} : args[p] = y[1]} = {}
      BY <2>7
    <3>2. ResetAnnotation(st, args) = {}
      BY <2>5, <3>1
    <3>3. (IF \E q \in R : args[p] = q THEN V ELSE {}) = {}
      BY <2>2, <2>7
    <3> QED BY <2>4, <3>2, <3>3 DEF st, AtMostOne
  <2> QED BY <2>6, <2>7
<1> QED BY <1>3, <1>4

\* The annotations of an AtomDecl are those of the proto.
AnnotatedAs(d, f) == d.annotations = DeclaredAtomAnnotations(f)

\* The annotations of a position but for the state.
Stateless(d, p) == {a \in AnnotationsAt(d, p) : a[1] \notin StateIds}

\* What the writers add at a position for an atom is what its proto declares.
LEMMA AddedIsDeclared ==
  ASSUME NEW f \in AtomFields, AtomAllowed(f), Representable(f),
         NEW d, AnnotatedAs(d, f), NEW n, NEW p, NEW args
  PROVE  /\ Always(d, p) = Stateless(d, p)
         /\ Added(Annotate(n, p, Always(d, p), OnReset(d, p)), args) = DeclaredAt(f, p, args)
         /\ AtMostOne(OnReset(d, p))
         /\ (\A a \in d.annotations : a[1] # p) => DeclaredAt(f, p, args) = {}
<1> DEFINE D == AnnotationsAt(d, p)
           of(id) == {a[2] : a \in {x \in D : x[1] = id}}
           st == Annotate(n, p, Always(d, p), OnReset(d, p))
<1>0. d.annotations = DeclaredAtomAnnotations(f)
  BY DEF AnnotatedAs
<1>1. \A x \in D : \E b \in d.annotations : b[1] = p /\ x = <<b[2], b[3]>> /\ x[1] = b[2] /\ x[2] = b[3]
  BY DEF AnnotationsAt
<1>2. \A b \in d.annotations : b[1] = p => <<b[2], b[3]>> \in D
  BY DEF AnnotationsAt
<1>3. DeclaredAt(f, p, args) = {a \in D : a[1] \notin StateIds}
        \cup {<<"TRIGGER_STATE_RESET", v>> :
                v \in IF \E r \in of("TRIGGER_STATE_RESET") : args[p] = r THEN of("DEFAULT_STATE") ELSE {}}
  BY <1>0, Zenon DEF DeclaredAt, AnnotationsAt
<1> HIDE DEF D
<1>4. Always(d, p) = {a \in D : a[1] \notin StateIds}
  <2>1. \A a \in D : a[1] = "RESTRICTION_CATEGORY" => a[2] \in RestrictionCategories
    BY <1>0, <1>1, KnownIds
  <2> QED BY <2>1 DEF Always, D
<1>5. \A id : of(id) = ValuesAt(d, p, id)
  <2> SUFFICES ASSUME NEW id PROVE of(id) = ValuesAt(d, p, id)
    OBVIOUS
  <2>1. ASSUME NEW v \in of(id) PROVE v \in ValuesAt(d, p, id)
    <3>1. PICK x \in D : x[1] = id /\ v = x[2]
      OBVIOUS
    <3>2. PICK b \in d.annotations : b[1] = p /\ x[1] = b[2] /\ x[2] = b[3]
      BY <1>1
    <3> QED BY <3>1, <3>2 DEF ValuesAt
  <2>2. ASSUME NEW v \in ValuesAt(d, p, id) PROVE v \in of(id)
    <3>1. PICK b \in d.annotations : b[1] = p /\ b[2] = id /\ v = b[3]
      BY DEF ValuesAt
    <3> DEFINE x == <<b[2], b[3]>>
    <3>2. x \in D /\ x[1] = id /\ x[2] = v
      BY <1>2, <3>1
    <3> HIDE DEF x
    <3> QED BY <3>2
  <2> QED BY <2>1, <2>2
<1> HIDE DEF of
<1>6. ASSUME NEW id \in StateIds PROVE OneValue(ValuesAt(d, p, id))
  <2>1. ASSUME NEW u \in ValuesAt(d, p, id), NEW v \in ValuesAt(d, p, id) PROVE u = v /\ u # NO_STATE
    <3>1. PICK b \in d.annotations : b[1] = p /\ b[2] = id /\ b[3] = u
      BY DEF ValuesAt
    <3>2. PICK c \in d.annotations : c[1] = p /\ c[2] = id /\ c[3] = v
      BY DEF ValuesAt
    <3> QED BY <1>0, <3>1, <3>2, OneState
  <2> QED BY <2>1 DEF OneValue
<1>7. OneValue(ValuesAt(d, p, "TRIGGER_STATE_RESET")) /\ OneValue(ValuesAt(d, p, "DEFAULT_STATE"))
  BY <1>6 DEF StateIds
<1> DEFINE R == ValuesAt(d, p, "TRIGGER_STATE_RESET")
           V == ValuesAt(d, p, "DEFAULT_STATE")
           declaredReset == {<<"TRIGGER_STATE_RESET", v>> : v \in IF \E r \in R : args[p] = r THEN V ELSE {}}
<1>8. ResetAnnotation(st, args) = declaredReset /\ AtMostOne(OnReset(d, p))
  BY <1>7, ResetAdded
<1>9. DeclaredAt(f, p, args) = {a \in D : a[1] \notin StateIds} \cup declaredReset
  BY <1>3, <1>5
<1>10. st.always = Always(d, p)
  BY DEF Annotate
<1>11. ASSUME \A a \in d.annotations : a[1] # p PROVE DeclaredAt(f, p, args) = {}
  <2>1. D = {} /\ V = {}
    BY <1>11 DEF ValuesAt, D, AnnotationsAt
  <2>2. declaredReset = {}
    BY <2>1
  <2> HIDE DEF declaredReset
  <2> QED BY <1>9, <2>1, <2>2
<1> HIDE DEF st, declaredReset
<1>12. Added(st, args) = DeclaredAt(f, p, args)
  BY <1>4, <1>8, <1>9, <1>10 DEF Added
<1> QED BY <1>4, <1>8, <1>11, <1>12 DEF D, st, Stateless

\* The atoms that the table of an atom's kind has at a position.
LEMMA EntriesTell ==
  ASSUME Inv, Accepted, NEW f \in Inserted, NEW n, n = f.number, NEW s, s = SignatureOf(f), NEW p
  PROVE  /\ n \in AtomDeclsAt(EntriesFor(n, s), p) <=> \E b \in decls[n].decl.annotations : b[1] = p
         /\ IsFiniteSet(AtomDeclsAt(EntriesFor(n, s), p))
<1>1. Position /\ OrderIndependent
  BY DEF Inv, Tables
<1>2. n \in DOMAIN decls /\ decls[n] = DeclOf(f) /\ decls[n].atomType = Kind(f)
  BY InsertedAllowed
<1> DEFINE F == {g \in Inserted : Pulled(g) <=> Pulled(f)}
<1>3. f \in F /\ F \subseteq Inserted /\ \A g \in F : g.number = f.number => g = f
  BY <1>1, MessageFacts
<1>4. EntriesFor(n, s) = TableOf(F)[s]
  <2>1. CASE Pulled(f)
    <3>1. F = {g \in Inserted : Pulled(g)}
      BY <2>1
    <3> HIDE DEF F
    <3> QED BY <1>1, <1>2, <2>1, <3>1 DEF OrderIndependent, EntriesFor, Kind
  <2>2. CASE ~Pulled(f)
    <3>1. F = {g \in Inserted : ~Pulled(g)} /\ decls[n].atomType # "pulled"
      BY <1>2, <2>2 DEF Kind
    <3> HIDE DEF F
    <3> QED BY <1>1, <3>1 DEF OrderIndependent, EntriesFor
  <2> QED BY <2>1, <2>2
<1>5. s \in DOMAIN TableOf(F)
  BY <1>3 DEF TableOf
<1>6. TableOf(F)[s] = UNION {EntriesOf(g) : g \in {h \in F : SignatureOf(h) = s}}
  BY <1>5 DEF TableOf
<1> HIDE DEF F
<1>7. \A e \in EntriesFor(n, s) : e = <<e[1], e[2]>> /\ \E g \in Inserted : e[2] = g.number
  <2> SUFFICES ASSUME NEW e \in EntriesFor(n, s)
               PROVE  e = <<e[1], e[2]>> /\ \E g \in Inserted : e[2] = g.number
    OBVIOUS
  <2>1. PICK g \in F : e \in EntriesOf(g)
    BY <1>4, <1>6
  <2>2. PICK b \in DeclOf(g).decl.annotations : e = <<b[1], g.number>>
    BY <2>1 DEF EntriesOf
  <2> QED BY <1>3, <2>1, <2>2
<1>8. n \in AtomDeclsAt(EntriesFor(n, s), p) <=> <<p, n>> \in EntriesFor(n, s)
  <2>1. ASSUME n \in AtomDeclsAt(EntriesFor(n, s), p) PROVE <<p, n>> \in EntriesFor(n, s)
    <3>1. PICK e \in EntriesFor(n, s) : e[1] = p /\ e[2] = n
      BY <2>1 DEF AtomDeclsAt
    <3> QED BY <1>7, <3>1
  <2>2. ASSUME <<p, n>> \in EntriesFor(n, s) PROVE n \in AtomDeclsAt(EntriesFor(n, s), p)
    <3> DEFINE e == <<p, n>>
    <3>1. e \in EntriesFor(n, s) /\ e[1] = p /\ e[2] = n
      BY <2>2
    <3> HIDE DEF e
    <3> QED BY <3>1 DEF AtomDeclsAt
  <2> QED BY <2>1, <2>2
<1>9. <<p, n>> \in EntriesFor(n, s) <=> p \in {b[1] : b \in decls[n].decl.annotations}
  <2>1. <<p, f.number>> \in TableOf(F)[s]
          <=> s = SignatureOf(f) /\ p \in {b[1] : b \in DeclOf(f).decl.annotations}
    BY <1>3, <1>5, EntryInTable
  <2> QED BY <1>2, <1>4, <2>1
<1>10. IsFiniteSet(AtomDeclsAt(EntriesFor(n, s), p))
  <2> DEFINE g == [x \in Inserted |-> x.number]
             N == {g[x] : x \in Inserted}
  <2>1. IsFiniteSet(Inserted)
    <3>1. IsFiniteSet(Taken) /\ Inserted \subseteq Taken
      BY <1>1, MessageFacts DEF Inv, Counted
    <3> QED BY <3>1, FS_Subset
  <2>2. AtomDeclsAt(EntriesFor(n, s), p) \subseteq N
    BY <1>7 DEF AtomDeclsAt
  <2> HIDE DEF g
  <2>3. IsFiniteSet(N)
    BY <2>1, ImageFinite
  <2> QED BY <2>2, <2>3, FS_Subset
<1> QED BY <1>8, <1>9, <1>10

\* What the entries of a table give for atom n at a position.
AtomAt(n, entries, p, args, A) ==
  /\ IsFiniteSet(AtomDeclsAt(entries, p))
  /\ n \in AtomDeclsAt(entries, p)
       => Added(Annotate(n, p, Always(decls[n].decl, p), OnReset(decls[n].decl, p)), args) = A
  /\ n \notin AtomDeclsAt(entries, p) => A = {}

\* The statements for the atoms at a position add for each of them its own annotations.
LEMMA BlockAdds ==
  ASSUME NEW n, NEW entries, NEW p, NEW args, NEW A, AtomAt(n, entries, p, args, A),
         NEW b, b = write_annotations(entries, p)
  PROVE  b \in Seq(ToSet(b)) /\ Adds(b, n, args, A)
<1> DEFINE N == AtomDeclsAt(entries, p)
           B(m) == Annotate(m, p, Always(decls[m].decl, p), OnReset(decls[m].decl, p))
           S == {B(m) : m \in N}
<1>1. IsFiniteSet(S)
  <2> DEFINE g == [m \in N |-> B(m)]
  <2>1. S = {g[m] : m \in N}
    OBVIOUS
  <2>2. IsFiniteSet(N)
    BY DEF AtomAt
  <2> HIDE DEF g, S, N
  <2> QED BY <2>1, <2>2, ImageFinite
<1>2. b = SetToSeq(S)
  BY Zenon DEF write_annotations
<1>3. \A m : B(m).op = "annotate" /\ B(m).code = m
  BY DEF Annotate
<1>4. \A st \in S : st.op # "write" /\ st.code \in N /\ st = B(st.code)
  BY <1>3
<1> HIDE DEF S, B
<1>5. b \in Seq(S) /\ ToSet(b) = S
  BY <1>1, <1>2, SetListed
<1>6. b \in Seq(ToSet(b)) /\ \A j \in DOMAIN b : b[j] \in S
  BY <1>5
<1>7. A = UNION {Added(b[j], args) : j \in {x \in DOMAIN b : b[x].code = n}}
  <2>1. CASE n \in N
    <3>1. A = Added(B(n), args)
      BY <2>1, Zenon DEF AtomAt, B
    <3>2. \A j \in DOMAIN b : b[j].code = n => b[j] = B(n)
      BY <1>4, <1>6
    <3>3. PICK j \in DOMAIN b : b[j] = B(n)
      <4>1. B(n) \in S
        BY <2>1 DEF S
      <4> QED BY <1>5, <4>1 DEF ToSet
    <3>4. b[j].code = n
      BY <1>3, <3>3
    <3> QED BY <3>1, <3>2, <3>3, <3>4
  <2>2. CASE n \notin N
    <3>1. A = {}
      BY <2>2 DEF AtomAt
    <3>2. \A j \in DOMAIN b : b[j].code # n
      BY <1>4, <1>6, <2>2
    <3> QED BY <3>1, <3>2
  <2> QED BY <2>1, <2>2
<1>8. \A j \in DOMAIN b : b[j].op # "write"
  BY <1>4, <1>6
<1> QED BY <1>6, <1>7, <1>8 DEF Adds

\* What there is to know of an atom and its arguments.
LEMMA AtomFound ==
  ASSUME Inv, Accepted, NEW n \in DOMAIN decls, Representable(ProtoOf(n)),
         NEW f, f = ProtoOf(n), NEW s, s = DeclaredSignature(AtomOf(f))
  PROVE  /\ f \in Inserted /\ f.number = n /\ f \in AtomFields /\ AtomAllowed(f)
         /\ s = SignatureOf(f) /\ decls[n].decl.annotations = DeclaredAtomAnnotations(f)
         /\ Len(s) \in Nat /\ DOMAIN s = 1 .. Len(s)
         /\ DOMAIN decls[n].decl.fields = DOMAIN s /\ Len(decls[n].decl.fields) = Len(s)
         /\ \A p, args : AtomAt(n, EntriesFor(n, s), p, args, DeclaredAt(f, p, args))
         /\ \A p : n \in AtomDeclsAt(EntriesFor(n, s), p) <=> \E b \in decls[n].decl.annotations : b[1] = p
<1>1. PICK g \in Inserted : g.number = n
  BY AtomsInserted
<1>2. f = g
  <2>1. Position
    BY DEF Inv, Tables
  <2>2. g \in Fields(message) /\ \A x, y \in Fields(message) : x.number = y.number => x = y
    BY <2>1, MessageFacts
  <2>3. f \in Fields(message) /\ f.number = n
    BY <1>1, <2>2, Zenon DEF ProtoOf
  <2> QED BY <1>1, <2>2, <2>3
<1>3. /\ f \in Inserted /\ f.number = n /\ f \in AtomFields /\ AtomAllowed(f) /\ Representable(f)
      /\ s = SignatureOf(f) /\ decls[n].decl.annotations = DeclaredAtomAnnotations(f)
  BY <1>1, <1>2, InsertedAllowed
<1> DEFINE d == decls[n].decl
<1>4. /\ Len(s) \in Nat /\ DOMAIN s = 1 .. Len(s) /\ DOMAIN d.fields = DOMAIN s /\ Len(d.fields) = Len(s)
  <2>1. ArgumentsOf(f.fields, s, d.fields)
    BY <1>3, InsertedArguments
  <2> QED BY <2>1 DEF ArgumentsOf
<1>5. ASSUME NEW p
      PROVE  /\ n \in AtomDeclsAt(EntriesFor(n, s), p) <=> \E b \in d.annotations : b[1] = p
             /\ IsFiniteSet(AtomDeclsAt(EntriesFor(n, s), p))
  BY <1>3, EntriesTell
<1>6. ASSUME NEW p, NEW args PROVE AtomAt(n, EntriesFor(n, s), p, args, DeclaredAt(f, p, args))
  <2> HIDE DEF d
  <2>1. /\ Added(Annotate(n, p, Always(d, p), OnReset(d, p)), args) = DeclaredAt(f, p, args)
        /\ (\A a \in d.annotations : a[1] # p) => DeclaredAt(f, p, args) = {}
    <3>1. f \in AtomFields /\ AtomAllowed(f) /\ Representable(f) /\ AnnotatedAs(d, f)
      BY <1>3 DEF d, AnnotatedAs
    <3> QED BY <3>1, AddedIsDeclared
  <2> QED BY <1>5, <2>1 DEF AtomAt, d
<1> QED BY <1>3, <1>4, <1>5, <1>6

-----------------------------------------------------------------------------
(* The events of C++, Java and Rust. *)

\* The positions of an atom with n arguments.
LEMMA PositionsOf ==
  ASSUME NEW n \in Nat, NEW s, DOMAIN s = 1 .. n
  PROVE  /\ \A k \in 1 .. n + 1 : Positions(s)[k] \in Int
         /\ \A t : DOMAIN t = DOMAIN s => Positions(t) = Positions(s)
<1> DEFINE p == <<ATOM_ID_FIELD_NUMBER>>
           q == [k \in 1 .. n |-> k]
<1>1. p \in Seq(Int) /\ Len(p) = 1
  BY DEF ATOM_ID_FIELD_NUMBER
<1>2. q \in Seq(Int) /\ Len(q) = n
  OBVIOUS
<1>3. \A t : DOMAIN t = DOMAIN s => Positions(t) = p \o q
  BY Zenon DEF Positions
<1> HIDE DEF p, q
<1>4. p \o q \in Seq(Int) /\ Len(p \o q) = 1 + n
  BY <1>1, <1>2, ConcatProperties, ZenonT(60)
<1>5. \A k \in 1 .. n + 1 : (p \o q)[k] \in Int
  BY <1>4
<1> QED BY <1>3, <1>5

\* The Rust method has the annotations of its own AtomDecl.
LEMMA RustBlockAdds ==
  ASSUME NEW f \in AtomFields, AtomAllowed(f), Representable(f), NEW d, AnnotatedAs(d, f),
         NEW n, NEW p, NEW args, NEW b, b = write_rust_annotations(n, d, p)
  PROVE  b \in Seq(ToSet(b)) /\ Adds(b, n, args, DeclaredAt(f, p, args))
<1> DEFINE st == Annotate(n, p, Stateless(d, p), OnReset(d, p))
<1>1. /\ Always(d, p) = Stateless(d, p)
      /\ Added(Annotate(n, p, Always(d, p), OnReset(d, p)), args) = DeclaredAt(f, p, args)
      /\ (\A a \in d.annotations : a[1] # p) => DeclaredAt(f, p, args) = {}
  BY AddedIsDeclared, SMTT(30)
<1>2. Added(st, args) = DeclaredAt(f, p, args)
  BY <1>1
<1>3. st.op = "annotate" /\ st.code = n
  BY DEF Annotate
<1>4. b = IF \E a \in d.annotations : a[1] = p THEN <<st>> ELSE <<>>
  BY Zenon DEF write_rust_annotations, Stateless
<1> HIDE DEF st
<1>5. CASE \E a \in d.annotations : a[1] = p
  <2>1. b = <<st>> /\ DOMAIN b = {1} /\ b[1] = st
    BY <1>4, <1>5
  <2>2. ToSet(b) = {st} /\ b \in Seq({st})
    BY <2>1 DEF ToSet
  <2>3. UNION {Added(b[j], args) : j \in {x \in DOMAIN b : b[x].code = n}} = Added(st, args)
    BY <1>3, <2>1
  <2>4. \A j \in DOMAIN b : b[j].op # "write"
    BY <1>3, <2>1
  <2> QED BY <1>2, <2>2, <2>3, <2>4 DEF Adds
<1>6. CASE ~ \E a \in d.annotations : a[1] = p
  <2>1. b = <<>> /\ DOMAIN b = {} /\ b \in Seq(ToSet(b))
    BY <1>4, <1>6
  <2>2. UNION {Added(b[j], args) : j \in {x \in DOMAIN b : b[x].code = n}} = {}
    BY <2>1
  <2>3. DeclaredAt(f, p, args) = {}
    BY <1>1, <1>6
  <2> QED BY <2>1, <2>2, <2>3 DEF Adds
<1> QED BY <1>5, <1>6

\* The C++, Java and Rust code of an atom log the event its proto declares, for
\* every message without errors, every atom and all arguments.
THEOREM EventsCorrect == Spec => []EventsAnnotated
<1>1. Inv => EventsAnnotated
  <2> SUFFICES ASSUME Inv, Accepted, NEW n \in {m \in DOMAIN decls : Representable(ProtoOf(m))}
               PROVE  LET f == ProtoOf(n)
                          s == DeclaredSignature(AtomOf(f))
                          entries == EntriesFor(n, s)
                      IN \A args \in [DOMAIN s -> ArgumentValues] :
                           LET event == [k \in 1 .. Len(s) + 1 |->
                                           [position |-> Positions(s)[k],
                                            annotations |-> DeclaredAt(f, Positions(s)[k], args)]]
                           IN /\ Run(native_method_body(s, entries), n, args) = event
                              /\ Run(java_method_body(s, entries), n, args) = event
                              /\ RustSupported(decls[n].decl) =>
                                   Run(rust_method_body(n, decls[n].decl), n, args) = event
    BY Zenon DEF EventsAnnotated
  <2> DEFINE f == ProtoOf(n)
             s == DeclaredSignature(AtomOf(f))
             entries == EntriesFor(n, s)
             d == decls[n].decl
             m == Len(s) + 1
             P == Positions(s)
  <2>1. /\ f \in AtomFields /\ AtomAllowed(f) /\ Representable(f) /\ AnnotatedAs(d, f)
        /\ Len(s) \in Nat /\ DOMAIN s = 1 .. Len(s)
        /\ DOMAIN d.fields = DOMAIN s /\ Len(d.fields) = Len(s)
        /\ \A p, args : AtomAt(n, entries, p, args, DeclaredAt(f, p, args))
    BY AtomFound DEF AnnotatedAs
  <2> HIDE DEF f, s, entries, d
  <2>2. m \in Nat \ {0} /\ (\A k \in 1 .. m : P[k] \in Int) /\ Positions(d.fields) = P
    BY <2>1, PositionsOf
  <2> HIDE DEF m, P
  <2> SUFFICES ASSUME NEW args
               PROVE  LET event == [k \in 1 .. m |-> [position |-> P[k], annotations |-> DeclaredAt(f, P[k], args)]]
                      IN /\ Run(native_method_body(s, entries), n, args) = event
                         /\ Run(java_method_body(s, entries), n, args) = event
                         /\ Run(rust_method_body(n, d), n, args) = event
    BY Zenon DEF f, s, entries, d, m, P
  <2> DEFINE A == [k \in 1 .. m |-> DeclaredAt(f, P[k], args)]
             event == [k \in 1 .. m |-> EventField(P[k], A[k])]
             B == [k \in 1 .. m |-> write_annotations(entries, P[k])]
             C == [k \in 1 .. m |-> write_rust_annotations(n, d, P[k])]
  <2>3. BodyAdds(m, P, B, A, n, args)
    <3> SUFFICES ASSUME NEW k \in 1 .. m
                 PROVE  P[k] \in Int /\ B[k] \in Seq(ToSet(B[k])) /\ Adds(B[k], n, args, A[k])
      BY Zenon DEF BodyAdds
    <3> DEFINE b == B[k]
    <3>1. b = write_annotations(entries, P[k]) /\ A[k] = DeclaredAt(f, P[k], args)
      OBVIOUS
    <3>2. AtomAt(n, entries, P[k], args, A[k])
      BY <2>1, <3>1
    <3> HIDE DEF A, b
    <3> QED BY <2>2, <3>1, <3>2, BlockAdds DEF b
  <2>4. BodyAdds(m, P, C, A, n, args)
    <3> SUFFICES ASSUME NEW k \in 1 .. m
                 PROVE  P[k] \in Int /\ C[k] \in Seq(ToSet(C[k])) /\ Adds(C[k], n, args, A[k])
      BY Zenon DEF BodyAdds
    <3> DEFINE b == C[k]
    <3>1. b = write_rust_annotations(n, d, P[k]) /\ A[k] = DeclaredAt(f, P[k], args)
      OBVIOUS
    <3> HIDE DEF A, b
    <3> QED BY <2>1, <2>2, <3>1, RustBlockAdds DEF b
  <2> DEFINE bodyB == [k \in 1 .. m |-> <<Write(P[k])>> \o B[k]]
             bodyC == [k \in 1 .. m |-> <<Write(P[k])>> \o C[k]]
  <2>5. bodyB = [k \in 1 .. m |-> <<Write(P[k])>> \o write_annotations(entries, P[k])]
    OBVIOUS
  <2>6. bodyC = [k \in 1 .. m |-> <<Write(P[k])>> \o write_rust_annotations(n, d, P[k])]
    OBVIOUS
  <2>7. event = [k \in 1 .. m |-> [position |-> P[k], annotations |-> DeclaredAt(f, P[k], args)]]
    BY DEF EventField
  <2> HIDE DEF A, B, C, event
  <2>8. Run(FlattenSeq(bodyB), n, args) = event /\ Run(FlattenSeq(bodyC), n, args) = event
    <3>1. Run(FlattenSeq([k \in 1 .. m |-> <<Write(P[k])>> \o B[k]]), n, args)
            = [k \in 1 .. m |-> EventField(P[k], A[k])]
      BY <2>2, <2>3, MethodRuns
    <3>2. Run(FlattenSeq([k \in 1 .. m |-> <<Write(P[k])>> \o C[k]]), n, args)
            = [k \in 1 .. m |-> EventField(P[k], A[k])]
      BY <2>2, <2>4, MethodRuns
    <3> QED BY <3>1, <3>2 DEF event
  <2> HIDE DEF bodyB, bodyC
  <2>9. native_method_body(s, entries) = FlattenSeq(bodyB)
    BY <2>5, Zenon DEF native_method_body, m, P
  <2>10. java_method_body(s, entries) = FlattenSeq(bodyB)
    <3>1. \A p : write_java_annotations(entries, p) = write_annotations(entries, p)
      BY Zenon DEF write_java_annotations, write_annotations
    <3>2. [k \in 1 .. m |-> <<Write(P[k])>> \o write_java_annotations(entries, P[k])] = bodyB
      BY <2>5, <3>1
    <3> QED BY <3>2, Zenon DEF java_method_body, m, P
  <2>11. rust_method_body(n, d) = FlattenSeq(bodyC)
    <3>1. rust_method_body(n, d)
            = FlattenSeq([k \in 1 .. Len(d.fields) + 1 |->
                <<Write(Positions(d.fields)[k])>> \o write_rust_annotations(n, d, Positions(d.fields)[k])])
      BY Zenon DEF rust_method_body
    <3>2. Len(d.fields) + 1 = m /\ Positions(d.fields) = P
      BY <2>1, <2>2 DEF m
    <3> QED BY <2>6, <3>1, <3>2, Zenon
  <2> QED BY <2>7, <2>8, <2>9, <2>10, <2>11, Zenon
<1> QED BY InvCorrect, <1>1, PTL

-----------------------------------------------------------------------------
(* The vendor atoms. *)

\* Value k is argument k + 2.
LEMMA ValuesShifted ==
  ASSUME NEW m \in Nat, NEW A
  PROVE  {[valueIndex |-> ValueIndex(p), annotations |-> A[p]] : p \in {q \in 2 .. m : A[q] # {}}}
           = {[valueIndex |-> k, annotations |-> A[k + 2]] : k \in {j \in 0 .. m - 2 : A[j + 2] # {}}}
<1> DEFINE S == {[valueIndex |-> ValueIndex(p), annotations |-> A[p]] : p \in {q \in 2 .. m : A[q] # {}}}
           T == {[valueIndex |-> k, annotations |-> A[k + 2]] : k \in {j \in 0 .. m - 2 : A[j + 2] # {}}}
<1>1. ASSUME NEW x \in S PROVE x \in T
  <2>1. PICK p \in 2 .. m : A[p] # {} /\ x = [valueIndex |-> ValueIndex(p), annotations |-> A[p]]
    OBVIOUS
  <2> DEFINE k == p - 2
  <2>2. k \in 0 .. m - 2 /\ k + 2 = p /\ ValueIndex(p) = k
    BY DEF ValueIndex
  <2> HIDE DEF k
  <2> QED BY <2>1, <2>2
<1>2. ASSUME NEW x \in T PROVE x \in S
  <2>1. PICK k \in 0 .. m - 2 : A[k + 2] # {} /\ x = [valueIndex |-> k, annotations |-> A[k + 2]]
    OBVIOUS
  <2> DEFINE p == k + 2
  <2>2. p \in 2 .. m /\ ValueIndex(p) = k
    BY DEF ValueIndex
  <2> HIDE DEF p
  <2>3. x = [valueIndex |-> ValueIndex(p), annotations |-> A[p]] /\ A[p] # {}
    BY <2>1, <2>2 DEF p
  <2> QED BY <2>2, <2>3
<1> QED BY <1>1, <1>2

\* The C++ vendor atom has at a position what the proto declares.
LEMMA VendorBlock ==
  ASSUME NEW n, NEW entries, NEW p, NEW args, NEW A, AtomAt(n, entries, p, args, A)
  PROVE  UNION {Added(st, args) :
                  st \in {x \in write_native_annotations_vendor_for_field(entries, p) : x.code = n}} = A
<1> DEFINE N == AtomDeclsAt(entries, p)
           B(m) == Annotate(m, p, Always(decls[m].decl, p), OnReset(decls[m].decl, p))
           S == {B(m) : m \in N}
<1>1. write_native_annotations_vendor_for_field(entries, p) = S
  BY Zenon DEF write_native_annotations_vendor_for_field
<1>2. \A m : B(m).code = m
  BY DEF Annotate
<1>3. \A st \in S : st.code \in N /\ st = B(st.code)
  BY <1>2
<1>4. CASE n \in N
  <2>1. A = Added(B(n), args)
    BY <1>4, Zenon DEF AtomAt
  <2>2. B(n) \in S
    BY <1>4
  <2> HIDE DEF S, B
  <2>3. \A st : st \in {x \in S : x.code = n} <=> st = B(n)
    BY <1>2, <1>3, <2>2
  <2> QED BY <1>1, <2>1, <2>3
<1>5. CASE n \notin N
  <2>1. A = {}
    BY <1>5 DEF AtomAt
  <2> HIDE DEF S, B
  <2>2. {x \in S : x.code = n} = {}
    BY <1>3, <1>5
  <2> QED BY <1>1, <2>1, <2>2
<1> QED BY <1>4, <1>5

\* The elements of two sequences one after the other.
LEMMA ConcatElements ==
  ASSUME NEW S, NEW a \in Seq(S), NEW b \in Seq(S)
  PROVE  ToSet(a \o b) = ToSet(a) \cup ToSet(b)
<1>1. /\ DOMAIN a = 1 .. Len(a) /\ DOMAIN b = 1 .. Len(b) /\ Len(a) \in Nat /\ Len(b) \in Nat
      /\ DOMAIN (a \o b) = 1 .. Len(a) + Len(b)
      /\ \A k \in 1 .. Len(a) + Len(b) : (a \o b)[k] = IF k <= Len(a) THEN a[k] ELSE b[k - Len(a)]
  <2>1. a \o b \in Seq(S) /\ Len(a \o b) = Len(a) + Len(b)
    BY ConcatProperties
  <2> QED BY <2>1, ConcatProperties
<1> DEFINE c == a \o b
<1> HIDE DEF c
<1>2. ASSUME NEW x \in ToSet(c) PROVE x \in ToSet(a) \cup ToSet(b)
  <2>1. PICK k \in 1 .. Len(a) + Len(b) : x = c[k]
    BY <1>1 DEF ToSet, c
  <2>2. CASE k <= Len(a)
    <3>1. k \in DOMAIN a /\ x = a[k]
      BY <1>1, <2>1, <2>2 DEF c
    <3> QED BY <3>1 DEF ToSet
  <2>3. CASE k > Len(a)
    <3>1. k - Len(a) \in DOMAIN b /\ x = b[k - Len(a)]
      BY <1>1, <2>1, <2>3 DEF c
    <3> QED BY <3>1 DEF ToSet
  <2> QED BY <1>1, <2>2, <2>3
<1>3. ASSUME NEW x \in ToSet(a) PROVE x \in ToSet(c)
  <2>1. PICK k \in DOMAIN a : x = a[k]
    BY DEF ToSet
  <2>2. k \in DOMAIN c /\ x = c[k]
    BY <1>1, <2>1 DEF c
  <2> QED BY <2>2 DEF ToSet
<1>4. ASSUME NEW x \in ToSet(b) PROVE x \in ToSet(c)
  <2>1. PICK k \in DOMAIN b : x = b[k]
    BY DEF ToSet
  <2> DEFINE j == k + Len(a)
  <2>2. j \in 1 .. Len(a) + Len(b) /\ ~(j <= Len(a)) /\ j - Len(a) = k
    BY <1>1
  <2> HIDE DEF j
  <2>3. j \in DOMAIN c /\ x = c[j]
    BY <1>1, <2>1, <2>2 DEF c
  <2> QED BY <2>3 DEF ToSet
<1> QED BY <1>2, <1>3, <1>4 DEF c

\* The Java vendor code allocates an array for the annotations of a position
\* and fills it to the last slot.
LEMMA ArrayFilled ==
  ASSUME NEW f \in AtomFields, AtomAllowed(f), Representable(f), NEW d, AnnotatedAs(d, f),
         NEW n, NEW p, NEW args, NEW arr, arr = java_annotations_array(n, d, p, args)
  PROVE  /\ ToSet(arr) = DeclaredAt(f, p, args)
         /\ Len(arr) = annotationsCount(d, p, args)
         /\ annotationsCount(d, p, args) > 0 <=> DeclaredAt(f, p, args) # {}
<1> DEFINE block == Annotate(n, p, Always(d, p), OnReset(d, p))
           X == Always(d, p)
           Y == ResetAnnotation(block, args)
<1>1. /\ Always(d, p) = Stateless(d, p)
      /\ Added(block, args) = DeclaredAt(f, p, args)
      /\ AtMostOne(OnReset(d, p))
  BY AddedIsDeclared
<1>2. block.always = X /\ block.onReset = OnReset(d, p) /\ block.position = p
  BY DEF Annotate
<1>3. X \cup Y = DeclaredAt(f, p, args)
  BY <1>1, <1>2 DEF Added
<1>4. arr = SetToSeq(X) \o SetToSeq(Y)
  BY <1>2, Zenon DEF java_annotations_array
<1>5. Y = {<<"TRIGGER_STATE_RESET", r[2]>> : r \in {x \in OnReset(d, p) : args[p] = x[1]}}
  BY <1>2, Zenon DEF ResetAnnotation
<1> HIDE DEF X, Y, block
<1>6. IsFiniteSet(X)
  <2>1. IsFiniteSet(AnnotationsAt(d, p))
    <3> DEFINE D == {x \in d.annotations : x[1] = p}
               g == [a \in D |-> <<a[2], a[3]>>]
    <3>1. IsFiniteSet(d.annotations)
      BY AnnotationsFinite DEF AnnotatedAs
    <3>2. IsFiniteSet(D)
      BY <3>1, FS_Subset
    <3>3. AnnotationsAt(d, p) = {g[a] : a \in D}
      BY DEF AnnotationsAt
    <3> HIDE DEF g, D
    <3> QED BY <3>2, <3>3, ImageFinite
  <2>2. X \subseteq AnnotationsAt(d, p)
    BY DEF X, Always
  <2> QED BY <2>1, <2>2, FS_Subset
<1>7. IsFiniteSet(Y) /\ Cardinality(Y) = Count(\E r \in OnReset(d, p) : args[p] = r[1])
  <2>1. CASE ~ \E r \in OnReset(d, p) : args[p] = r[1]
    <3>1. {x \in OnReset(d, p) : args[p] = x[1]} = {}
      BY <2>1
    <3>2. Y = {}
      BY <1>5, <3>1
    <3> QED BY <2>1, <3>2, FS_EmptySet DEF Count
  <2>2. CASE \E r \in OnReset(d, p) : args[p] = r[1]
    <3>1. PICK r : OnReset(d, p) = {r} /\ args[p] = r[1]
      BY <1>1, <2>2 DEF AtMostOne
    <3>2. {x \in OnReset(d, p) : args[p] = x[1]} = {r}
      BY <3>1
    <3>3. Y = {<<"TRIGGER_STATE_RESET", q[2]>> : q \in {r}}
      BY <1>5, <3>2, Zenon
    <3>4. Y = {<<"TRIGGER_STATE_RESET", r[2]>>}
      BY <3>3
    <3> QED BY <2>2, <3>4, FS_Singleton DEF Count
  <2> QED BY <2>1, <2>2
<1>8. annotationsCount(d, p, args) = Cardinality(X) + Cardinality(Y)
  <2>1. ASSUME NEW a \in AnnotationsAt(d, p)
        PROVE  a[1] \in (IntIds \ StateIds) \cup BoolIds <=> a[1] \notin StateIds
    <3>1. PICK b \in d.annotations : a = <<b[2], b[3]>>
      BY DEF AnnotationsAt
    <3>2. b[2] \in IntIds \cup BoolIds
      BY KnownIds DEF AnnotatedAs
    <3>3. StateIds \cap BoolIds = {}
      BY DEF StateIds, BoolIds, FieldRestrictions
    <3>4. a[1] = b[2]
      BY <3>1
    <3> QED BY <3>2, <3>3, <3>4
  <2>2. {a \in AnnotationsAt(d, p) : a[1] \in (IntIds \ StateIds) \cup BoolIds} = X
    BY <1>1, <2>1 DEF X, Stateless
  <2> QED BY <1>7, <2>2 DEF annotationsCount
<1>9. /\ SetToSeq(X) \in Seq(X) /\ Len(SetToSeq(X)) = Cardinality(X) /\ ToSet(SetToSeq(X)) = X
      /\ SetToSeq(Y) \in Seq(Y) /\ Len(SetToSeq(Y)) = Cardinality(Y) /\ ToSet(SetToSeq(Y)) = Y
  BY <1>6, <1>7, SetListed
<1>10. Cardinality(X) \in Nat /\ Cardinality(Y) \in Nat
       /\ (Cardinality(X) = 0 <=> X = {}) /\ (Cardinality(Y) = 0 <=> Y = {})
  BY <1>6, <1>7, FS_CardinalityType, FS_EmptySet
<1> DEFINE x == SetToSeq(X)
           y == SetToSeq(Y)
<1>11. x \in Seq(X \cup Y) /\ y \in Seq(X \cup Y)
  BY <1>9
<1> HIDE DEF x, y
<1>12. ToSet(arr) = ToSet(x) \cup ToSet(y) /\ Len(arr) = Len(x) + Len(y)
  BY <1>4, <1>11, ConcatElements, ConcatProperties DEF x, y
<1> QED BY <1>3, <1>8, <1>9, <1>10, <1>12 DEF x, y

\* The array for the annotations of a position in the Java vendor code.
VendorArray(n, p, args, entries) ==
  IF n \in AtomDeclsAt(entries, p) THEN java_annotations_array(n, decls[n].decl, p, args) ELSE <<>>

\* It holds what the proto declares, and is as long as the generator counted.
LEMMA VendorArrayFilled ==
  ASSUME NEW f \in AtomFields, AtomAllowed(f), Representable(f),
         NEW n, AnnotatedAs(decls[n].decl, f), NEW entries, NEW p, NEW args,
         AtomAt(n, entries, p, args, DeclaredAt(f, p, args))
  PROVE  /\ ToSet(VendorArray(n, p, args, entries)) = DeclaredAt(f, p, args)
         /\ n \in AtomDeclsAt(entries, p)
              => Len(VendorArray(n, p, args, entries)) = annotationsCount(decls[n].decl, p, args)
         /\ n \in AtomDeclsAt(entries, p) /\ annotationsCount(decls[n].decl, p, args) > 0
              <=> DeclaredAt(f, p, args) # {}
<1> DEFINE d == decls[n].decl
           arr == VendorArray(n, p, args, entries)
<1>1. CASE n \in AtomDeclsAt(entries, p)
  <2>1. arr = java_annotations_array(n, d, p, args)
    BY <1>1, Zenon DEF VendorArray
  <2> HIDE DEF d, arr
  <2>2. /\ ToSet(arr) = DeclaredAt(f, p, args)
        /\ Len(arr) = annotationsCount(d, p, args)
        /\ annotationsCount(d, p, args) > 0 <=> DeclaredAt(f, p, args) # {}
    <3>1. AnnotatedAs(d, f)
      BY DEF d
    <3> QED BY <2>1, <3>1, ArrayFilled
  <2> QED BY <1>1, <2>2 DEF d, arr
<1>2. CASE n \notin AtomDeclsAt(entries, p)
  <2>1. arr = <<>> /\ DeclaredAt(f, p, args) = {}
    BY <1>2 DEF VendorArray, AtomAt
  <2>2. ToSet(arr) = {}
    BY <2>1 DEF ToSet
  <2> QED BY <1>2, <2>1, <2>2
<1> QED BY <1>1, <1>2

\* The Java and the C++ vendor code make the same atom, the one its proto
\* declares, and the Java code fills every array it allocates: for every message
\* without errors, every pushed atom and all arguments.
THEOREM VendorCorrect == Spec => []VendorAtomsAgree
<1>1. Inv => VendorAtomsAgree
  <2> SUFFICES ASSUME Inv, Accepted,
                      NEW n \in {m \in DOMAIN decls : decls[m].atomType = "pushed" /\ Representable(ProtoOf(m))}
               PROVE  LET f == ProtoOf(n)
                          s == DeclaredSignature(AtomOf(f))
                          entries == EntriesFor(n, s)
                      IN \A args \in [DOMAIN s -> ArgumentValues] :
                           LET values == {k \in 0 .. Len(s) - 2 : DeclaredAt(f, k + 2, args) # {}}
                               atom == [atomAnnotations   |-> DeclaredAt(f, ATOM_ID_FIELD_NUMBER, args),
                                        valuesAnnotations |->
                                          {[valueIndex |-> k, annotations |-> DeclaredAt(f, k + 2, args)] :
                                             k \in values}]
                               java == vendor_java_atom(n, s, entries, args)
                           IN /\ vendor_native_atom(n, s, entries, args) = atom
                              /\ ~java.throws
                              /\ [atomAnnotations |-> java.atomAnnotations,
                                  valuesAnnotations |-> java.valuesAnnotations] = atom
    BY Zenon DEF VendorAtomsAgree
  <2> DEFINE f == ProtoOf(n)
             s == DeclaredSignature(AtomOf(f))
             entries == EntriesFor(n, s)
             d == decls[n].decl
             m == Len(s)
  <2>1. /\ f \in AtomFields /\ AtomAllowed(f) /\ Representable(f) /\ AnnotatedAs(d, f) /\ m \in Nat
        /\ \A p, args : AtomAt(n, entries, p, args, DeclaredAt(f, p, args))
    BY AtomFound DEF AnnotatedAs
  <2> HIDE DEF f, s, entries, d
  <2> SUFFICES ASSUME NEW args
               PROVE  LET values == {k \in 0 .. m - 2 : DeclaredAt(f, k + 2, args) # {}}
                          atom == [atomAnnotations   |-> DeclaredAt(f, ATOM_ID_FIELD_NUMBER, args),
                                   valuesAnnotations |->
                                     {[valueIndex |-> k, annotations |-> DeclaredAt(f, k + 2, args)] :
                                        k \in values}]
                          java == vendor_java_atom(n, s, entries, args)
                      IN /\ vendor_native_atom(n, s, entries, args) = atom
                         /\ ~java.throws
                         /\ [atomAnnotations |-> java.atomAnnotations,
                             valuesAnnotations |-> java.valuesAnnotations] = atom
    BY Zenon DEF f, s, entries, m
  <2> DEFINE A == [p \in Int |-> DeclaredAt(f, p, args)]
             declared == {[valueIndex |-> k, annotations |-> A[k + 2]] : k \in {j \in 0 .. m - 2 : A[j + 2] # {}}}
             listed == {[valueIndex |-> ValueIndex(p), annotations |-> A[p]] : p \in {q \in 2 .. m : A[q] # {}}}
             native(p) == UNION {Added(st, args) :
                            st \in {x \in write_native_annotations_vendor_for_field(entries, p) : x.code = n}}
             annotated(p) == n \in AtomDeclsAt(entries, p)
             array(p) == VendorArray(n, p, args, entries)
             added == {q \in 2 .. m : annotated(q) /\ annotationsCount(d, q, args) > 0}
             java == vendor_java_atom(n, s, entries, args)
  <2>2. listed = declared
    <3> HIDE DEF m, A
    <3> QED BY <2>1, ValuesShifted
  <2>3. \A p \in Int : A[p] = DeclaredAt(f, p, args)
    OBVIOUS
  <2>4. ASSUME NEW p \in Int
        PROVE  /\ native(p) = A[p]
               /\ ToSet(array(p)) = A[p]
               /\ annotated(p) => Len(array(p)) = annotationsCount(d, p, args)
               /\ annotated(p) /\ annotationsCount(d, p, args) > 0 <=> A[p] # {}
    <3> DEFINE a == DeclaredAt(f, p, args)
    <3>1. A[p] = a
      OBVIOUS
    <3>2. AtomAt(n, entries, p, args, a)
      BY <2>1
    <3>3. native(p) = a
      <4> HIDE DEF a
      <4> QED BY <3>2, VendorBlock
    <3>4. /\ ToSet(array(p)) = a
          /\ annotated(p) => Len(array(p)) = annotationsCount(d, p, args)
          /\ annotated(p) /\ annotationsCount(d, p, args) > 0 <=> a # {}
      BY <2>1, <3>2, VendorArrayFilled DEF d
    <3> HIDE DEF a, A
    <3> QED BY <3>1, <3>3, <3>4
  <2>5. 2 .. m \subseteq Int /\ 0 .. m - 2 \subseteq Int /\ ATOM_ID_FIELD_NUMBER \in Int
    BY <2>1 DEF ATOM_ID_FIELD_NUMBER
  <2>6. declared = {[valueIndex |-> k, annotations |-> DeclaredAt(f, k + 2, args)] :
                      k \in {j \in 0 .. m - 2 : DeclaredAt(f, j + 2, args) # {}}}
    BY <2>1
  <2> HIDE DEF m, A
  <2>7. vendor_native_atom(n, s, entries, args)
          = [atomAnnotations |-> A[ATOM_ID_FIELD_NUMBER], valuesAnnotations |-> declared]
    <3>1. vendor_native_atom(n, s, entries, args)
            = [atomAnnotations   |-> native(ATOM_ID_FIELD_NUMBER),
               valuesAnnotations |-> {[valueIndex |-> ValueIndex(p), annotations |-> native(p)] :
                                        p \in {q \in 2 .. m : native(q) # {}}}]
      BY Zenon DEF vendor_native_atom, m
    <3> HIDE DEF native
    <3>2. {q \in 2 .. m : native(q) # {}} = {q \in 2 .. m : A[q] # {}}
      BY <2>4, <2>5
    <3>3. {[valueIndex |-> ValueIndex(p), annotations |-> native(p)] : p \in {q \in 2 .. m : A[q] # {}}} = listed
      BY <2>4, <2>5
    <3> HIDE DEF listed, declared
    <3> QED BY <2>2, <2>4, <2>5, <3>1, <3>2, <3>3
  <2>8. java = [atomAnnotations   |-> ToSet(array(ATOM_ID_FIELD_NUMBER)),
                valuesAnnotations |-> {[valueIndex |-> ValueIndex(p), annotations |-> ToSet(array(p))] : p \in added},
                throws |-> \/ added # {} /\ ~ListMade(n, s, entries)
                           \/ \E p \in {ATOM_ID_FIELD_NUMBER} \cup 2 .. m :
                                annotated(p) /\ Len(array(p)) # annotationsCount(d, p, args)]
    BY Zenon DEF vendor_java_atom, VendorArray, d, m
  <2> HIDE DEF array, java, native
  <2>9. ~java.throws
    <3>1. ASSUME added # {} PROVE ListMade(n, s, entries)
      BY <3>1 DEF ListMade, m
    <3>2. \A p \in {ATOM_ID_FIELD_NUMBER} \cup 2 .. m : annotated(p) => Len(array(p)) = annotationsCount(d, p, args)
      BY <2>4, <2>5
    <3> HIDE DEF added, annotated
    <3> QED BY <2>8, <3>1, <3>2
  <2>10. java.atomAnnotations = A[ATOM_ID_FIELD_NUMBER] /\ java.valuesAnnotations = declared
    <3>1. added = {q \in 2 .. m : A[q] # {}}
      BY <2>4, <2>5
    <3>2. {[valueIndex |-> ValueIndex(p), annotations |-> ToSet(array(p))] : p \in {q \in 2 .. m : A[q] # {}}} = listed
      BY <2>4, <2>5
    <3> HIDE DEF added, listed, declared, annotated
    <3> QED BY <2>2, <2>4, <2>5, <2>8, <3>1, <3>2
  <2>11. A[ATOM_ID_FIELD_NUMBER] = DeclaredAt(f, ATOM_ID_FIELD_NUMBER, args)
    BY <2>3, <2>5
  <2> HIDE DEF declared
  <2> QED BY <2>6, <2>7, <2>9, <2>10, <2>11, Zenon DEF java
<1> QED BY InvCorrect, <1>1, PTL
=============================================================================
