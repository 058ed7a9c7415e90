-------------------------- MODULE CollateAtomProofs --------------------------
(***************************************************************************)
(* collate_atom is correct for every set of atoms: the theorems about      *)
(* CollateAtom, with their proofs.  What one field does is proved in       *)
(* CollateFieldProofs; here are the four loops.                            *)
(***************************************************************************)
EXTENDS CollateAtom, CollateFieldProofs

-----------------------------------------------------------------------------
(* The inductive invariant. *)

LEMMA InitIInv == Init => IInv
<1> SUFFICES ASSUME Init PROVE IInv
  OBVIOUS
<1>1. atom \in AtomProtos
  BY AtomsAssumption DEF Init
<1>2. loop = "number" /\ i = 1 /\ errorCount = 0 /\ expectedNumber = 1 /\ signature = <<>> /\ decl = EmptyDecl
  BY DEF Init
<1>3. NumberPassed = 0 /\ TypePassed = 0 /\ PositionPassed = 0 /\ BuildPassed = 0
  BY <1>2 DEF NumberPassed, TypePassed, PositionPassed, BuildPassed
<1>4. IsDecl(decl) /\ decl.annotations = {} /\ decl.exclusiveField = 0
  BY <1>2 DEF EmptyDecl, IsDecl
<1>5. TypeOK
  BY <1>1, <1>2, <1>3, <1>4, AtomFacts DEF TypeOK, Loops, fields
<1>6. CleanSoFar
  BY <1>3 DEF CleanSoFar
<1>7. BuiltAsDeclared
  <2>1. {DeclaredFieldAnnotations(fields[k]) : k \in 1 .. BuildPassed} = {}
    BY <1>3
  <2>2. signature = [k \in 1 .. BuildPassed |-> ArgumentType(fields[k])]
    BY <1>2, <1>3
  <2> QED BY <1>3, <1>4, <2>1, <2>2 DEF BuiltAsDeclared
<1> QED BY <1>2, <1>5, <1>6, <1>7 DEF IInv

\* An iteration of a checking loop: it counts c errors, none exactly when the
\* field obeys the rule of the loop.
LEMMA CheckStep ==
  ASSUME IInv, UNCHANGED <<atom, loop, signature, decl>>, loop \in {"number", "types", "chain"},
         i <= Len(fields), i' = i + 1, expectedNumber' \in Nat,
         NEW c \in Nat, errorCount' = errorCount + c,
         errorCount = 0 => /\ loop = "number" => (c = 0 <=> NumberAllowed(atom, i))
                           /\ loop = "types" => (c = 0 <=> TypeAllowed(atom, fields[i]))
                           /\ loop = "chain" => (c = 0 <=> PositionAllowed(atom, i)),
         errorCount' = 0 /\ loop = "number" => expectedNumber' = i + 1
  PROVE  IInv'
<1>0. /\ i \in Nat /\ i \in 1 .. Len(fields) /\ Len(fields) \in Nat /\ errorCount \in Nat
      /\ atom' = atom /\ loop' = loop /\ signature' = signature /\ decl' = decl
      /\ fields' = fields
      /\ errorCount = 0 <=> CleanSoFar
      /\ errorCount = 0 => BuiltAsDeclared
  BY AtomFacts DEF IInv, TypeOK, fields
<1>1. BuildPassed = 0 /\ BuildPassed' = 0
  BY <1>0 DEF BuildPassed
<1>2. TypeOK'
  <2>1. /\ atom' \in AtomProtos /\ loop' \in Loops /\ signature' \in Seq(JavaTypes) /\ IsDecl(decl')
        /\ Len(signature') = 0
    BY <1>0, <1>1 DEF IInv, TypeOK
  <2>2. i' \in 1 .. Len(fields') + 1 /\ errorCount' \in Nat
    BY <1>0
  <2> QED BY <1>1, <2>1, <2>2 DEF TypeOK
<1>3. (errorCount = 0 => BuiltAsDeclared) => (errorCount' = 0 => BuiltAsDeclared')
  BY <1>0, <1>1 DEF BuiltAsDeclared
<1>4. errorCount' = 0 <=> errorCount = 0 /\ c = 0
  BY <1>0
<1>5. CASE loop = "number"
  <2>1. /\ NumberPassed = i - 1 /\ NumberPassed' = i /\ TypePassed = 0 /\ TypePassed' = 0
        /\ PositionPassed = 0 /\ PositionPassed' = 0
    BY <1>0, <1>5 DEF NumberPassed, TypePassed, PositionPassed
  <2>2. CleanSoFar' <=> CleanSoFar /\ NumberAllowed(atom, i)
    BY <1>0, <1>1, <2>1 DEF CleanSoFar
  <2> QED BY <1>0, <1>2, <1>3, <1>4, <1>5, <2>2 DEF IInv
<1>6. CASE loop = "types"
  <2>1. /\ TypePassed = i - 1 /\ TypePassed' = i /\ NumberPassed = Len(fields) /\ NumberPassed' = Len(fields)
        /\ PositionPassed = 0 /\ PositionPassed' = 0
    BY <1>0, <1>6 DEF NumberPassed, TypePassed, PositionPassed
  <2>2. CleanSoFar' <=> CleanSoFar /\ TypeAllowed(atom, fields[i])
    BY <1>0, <1>1, <2>1 DEF CleanSoFar
  <2> QED BY <1>0, <1>2, <1>3, <1>4, <1>6, <2>2 DEF IInv
<1>7. CASE loop = "chain"
  <2>1. /\ TypePassed = Len(fields) /\ TypePassed' = Len(fields)
        /\ NumberPassed = Len(fields) /\ NumberPassed' = Len(fields)
        /\ PositionPassed = i - 1 /\ PositionPassed' = i
    BY <1>0, <1>7 DEF NumberPassed, TypePassed, PositionPassed
  <2>2. CleanSoFar' <=> CleanSoFar /\ PositionAllowed(atom, i)
    BY <1>0, <1>1, <2>1 DEF CleanSoFar
  <2> QED BY <1>0, <1>2, <1>3, <1>4, <1>7, <2>2 DEF IInv
<1> QED BY <1>5, <1>6, <1>7

LEMMA NumberStep ==
  ASSUME IInv, NumberAsExpected \/ NumberMismatch
  PROVE  IInv'
<1>0. /\ loop = "number" /\ i <= Len(fields) /\ i \in 1 .. Len(fields) /\ i' = i + 1
      /\ UNCHANGED <<atom, loop, signature, decl>>
      /\ field \in FieldProtos /\ field.number \in Nat /\ errorCount \in Nat /\ expectedNumber \in Nat
      /\ errorCount = 0 => expectedNumber = i
  <2>1. /\ loop = "number" /\ i <= Len(fields) /\ i' = i + 1 /\ UNCHANGED <<atom, loop, signature, decl>>
    BY DEF NumberAsExpected, NumberMismatch, Iterate
  <2>2. /\ i \in 1 .. Len(fields) /\ field \in FieldProtos /\ errorCount \in Nat /\ expectedNumber \in Nat
    BY <2>1, AtomFacts DEF IInv, TypeOK, fields, field
  <2>3. field.number \in Nat
    BY <2>2 DEF FieldProtos
  <2> QED BY <2>1, <2>2, <2>3 DEF IInv
<1>1. CASE NumberAsExpected
  <2>1. errorCount = 0 => NumberAllowed(atom, i)
    BY <1>0, <1>1 DEF NumberAsExpected, NumberAllowed, field, fields
  <2>2. /\ errorCount' = errorCount + 0 /\ expectedNumber' \in Nat
        /\ errorCount' = 0 => expectedNumber' = i + 1
    BY <1>0, <1>1 DEF NumberAsExpected
  <2> QED BY <1>0, <2>1, <2>2, CheckStep
<1>2. CASE NumberMismatch
  <2>1. errorCount = 0 => ~NumberAllowed(atom, i)
    BY <1>0, <1>2 DEF NumberMismatch, NumberAllowed, field, fields
  <2>2. /\ errorCount' = errorCount + 1 /\ expectedNumber' \in Nat
        /\ errorCount' # 0
    BY <1>0, <1>2 DEF NumberMismatch
  <2> QED BY <1>0, <2>1, <2>2, CheckStep
<1> QED BY <1>1, <1>2

LEMMA CheckTypeStep ==
  ASSUME IInv, CheckType
  PROVE  IInv'
<1>0. /\ loop = "types" /\ i <= Len(fields) /\ i \in 1 .. Len(fields) /\ i' = i + 1
      /\ UNCHANGED <<atom, loop, signature, decl>>
      /\ expectedNumber' \in Nat
      /\ field \in FieldProtos /\ atom \in AtomProtos
  BY AtomFacts DEF IInv, TypeOK, CheckType, Iterate, fields, field
<1>1. /\ TypeError(atom, field) \in Nat
      /\ TypeError(atom, field) = 0 <=> TypeAllowed(atom, fields[i])
  BY <1>0, TypeErrorIffForbidden DEF field
<1> QED BY <1>0, <1>1, CheckStep DEF CheckType

LEMMA CheckChainPositionStep ==
  ASSUME IInv, CheckChainPosition
  PROVE  IInv'
<1>0. /\ loop = "chain" /\ i <= Len(fields) /\ i \in 1 .. Len(fields) /\ i' = i + 1
      /\ UNCHANGED <<atom, loop, signature, decl>>
      /\ expectedNumber' \in Nat
      /\ field \in FieldProtos /\ atom \in AtomProtos
  BY AtomFacts DEF IInv, TypeOK, CheckChainPosition, Iterate, fields, field
<1>1. /\ PositionError(atom, field) \in Nat
      /\ PositionError(atom, field) = 0 <=> PositionAllowed(atom, i)
  BY <1>0, AtomFacts, PositionErrorIffForbidden DEF field, fields
<1> QED BY <1>0, <1>1, CheckStep DEF CheckChainPosition

LEMMA BuildStep ==
  ASSUME IInv, BuildField
  PROVE  IInv'
<1> DEFINE jt == java_type(field, atom.isUintAllowed)
           e  == AnnotationErrors(atom, decl, field, jt)
<1>0. /\ loop = "build" /\ loop' = loop /\ atom' = atom /\ i <= Len(fields) /\ i' = i + 1
      /\ expectedNumber' = expectedNumber
      /\ signature' = Append(signature, FieldSignatureType(atom, field))
      /\ decl' = BuiltDecl(atom, decl, field)
      /\ errorCount' = errorCount + e
  BY DEF BuildField, Iterate
<1>1. /\ atom \in AtomProtos /\ i \in DOMAIN atom.fields /\ field \in FieldProtos /\ field = atom.fields[i]
      /\ i \in 1 .. Len(fields) /\ Len(fields) \in Nat /\ fields' = fields /\ atom.isUintAllowed \in BOOLEAN
      /\ errorCount \in Nat /\ IsDecl(decl)
      /\ errorCount = 0 <=> CleanSoFar
      /\ errorCount = 0 => BuiltAsDeclared
  BY <1>0, AtomFacts DEF IInv, TypeOK, fields, field
<1>2. /\ NumberPassed = Len(fields) /\ TypePassed = Len(fields) /\ PositionPassed = Len(fields)
      /\ NumberPassed' = Len(fields) /\ TypePassed' = Len(fields) /\ PositionPassed' = Len(fields)
      /\ BuildPassed = i - 1 /\ BuildPassed' = i
  BY <1>0, <1>1 DEF NumberPassed, TypePassed, PositionPassed, BuildPassed
<1>3. TypeOK'
  <2>1. field.bytes \in BOOLEAN
    BY <1>1 DEF FieldProtos
  <2>2. FieldSignatureType(atom, field) \in JavaTypes
    BY <1>1, <2>1, JavaTypeInTypes DEF FieldSignatureType
  <2>3. IsDecl(decl')
    BY <1>0, <1>1, BuiltDeclParts
  <2>4. e \in Nat
    BY <1>1, AnnotationErrorsIffForbidden
  <2>5. signature \in Seq(JavaTypes) /\ Len(signature) = i - 1
    BY <1>2 DEF IInv, TypeOK
  <2>6. signature' \in Seq(JavaTypes) /\ Len(signature') = i
    BY <1>0, <1>1, <2>2, <2>5
  <2>7. loop' \in Loops /\ expectedNumber' \in Nat /\ i' \in 1 .. Len(fields') + 1 /\ errorCount' \in Nat
    BY <1>0, <1>1, <2>4 DEF IInv, TypeOK
  <2> QED BY <1>0, <1>1, <1>2, <2>3, <2>6, <2>7 DEF TypeOK
<1>4. CASE errorCount # 0
  <2>1. errorCount' # 0
    BY <1>0, <1>1, <1>4, AnnotationErrorsIffForbidden
  <2>2. ~CleanSoFar'
    BY <1>0, <1>1, <1>2, <1>4 DEF CleanSoFar
  <2> QED BY <1>3, <2>1, <2>2 DEF IInv
<1>5. CASE errorCount = 0
  <2>1. TypeAllowed(atom, field) /\ NumberAllowed(atom, i)
        /\ \A k \in 1 .. i - 1 : NumberAllowed(atom, k)
    BY <1>1, <1>2, <1>5 DEF CleanSoFar, fields
  <2>2. decl.exclusiveField = 0 <=> \A k \in 1 .. i - 1 : ~IsExclusive(atom.fields[k])
    BY <1>1, <1>2, <1>5 DEF BuiltAsDeclared, fields
  <2>3. e \in Nat /\ (e = 0 <=> AnnotationsAllowed(atom, i))
    BY <1>1, <2>1, <2>2, AnnotationErrorsIffForbidden
  <2>4. errorCount' = 0 <=> AnnotationsAllowed(atom, i)
    BY <1>0, <1>5, <2>3
  <2>5. CleanSoFar' <=> CleanSoFar /\ AnnotationsAllowed(atom, i)
    BY <1>0, <1>1, <1>2 DEF CleanSoFar
  <2>6. ASSUME AnnotationsAllowed(atom, i)
        PROVE  BuiltAsDeclared'
    <3>1. decl.annotations = UNION {DeclaredFieldAnnotations(fields[k]) : k \in 1 .. i - 1}
      BY <1>1, <1>2, <1>5 DEF BuiltAsDeclared
    <3>2. \A b \in decl.annotations : b[1] # field.number
      <4> SUFFICES ASSUME NEW k \in 1 .. i - 1, NEW b \in DeclaredFieldAnnotations(fields[k])
                   PROVE  b[1] # field.number
        BY <3>1
      <4>1. fields[k] \in FieldProtos /\ fields[k].number = k /\ field.number = i
        BY <1>1, <2>1, AtomFacts DEF NumberAllowed, fields
      <4>2. b[1] = fields[k].number
        BY <4>1, DeclaredAnnotationField
      <4> QED BY <1>1, <4>1, <4>2
    <3>3. /\ decl'.annotations = decl.annotations \cup DeclaredFieldAnnotations(field)
          /\ decl'.exclusiveField = 0 <=> decl.exclusiveField = 0 /\ ~IsExclusive(field)
      BY <1>0, <1>1, <2>1, <2>2, <2>6, <3>2, AllowedFieldBuilt
    <3>4. decl'.annotations = UNION {DeclaredFieldAnnotations(fields[k]) : k \in 1 .. i}
      BY <1>1, <3>1, <3>3 DEF fields
    <3>5. decl'.exclusiveField = 0 <=> \A k \in 1 .. i : ~IsExclusive(fields[k])
      BY <1>1, <2>2, <3>3 DEF fields
    <3>6. signature' = [k \in 1 .. i |-> ArgumentType(fields[k])]
      <4>1. signature = [k \in 1 .. i - 1 |-> ArgumentType(fields[k])] /\ Len(signature) = i - 1
            /\ signature \in Seq(JavaTypes)
        BY <1>1, <1>2, <1>5 DEF BuiltAsDeclared, IInv, TypeOK
      <4>2. FieldSignatureType(atom, field) = ArgumentType(fields[i])
        BY <1>1, <2>1, AllowedJavaType DEF FieldSignatureType, fields
      <4> QED BY <1>0, <1>1, <4>1, <4>2
    <3> QED BY <1>0, <1>1, <1>2, <3>4, <3>5, <3>6 DEF BuiltAsDeclared
  <2> QED BY <1>0, <1>1, <1>3, <1>5, <2>4, <2>5, <2>6 DEF IInv
<1> QED BY <1>4, <1>5

\* Leaving a loop keeps count: every loop has been over the fields it was over.
LEMMA LeaveStep ==
  ASSUME IInv, LeaveLoop
  PROVE  IInv'
<1>0. /\ i > Len(fields) /\ i' = 1
      /\ atom' = atom /\ expectedNumber' = expectedNumber /\ errorCount' = errorCount
      /\ signature' = signature /\ decl' = decl
      /\ \/ loop = "number" /\ loop' = "types"
         \/ loop = "types" /\ loop' = "chain"
         \/ loop = "chain" /\ loop' = "build"
         \/ loop = "build" /\ loop' = "done"
  BY DEF LeaveLoop, Leave
<1>1. /\ fields' = fields /\ Len(fields) \in Nat /\ i = Len(fields) + 1
  BY <1>0, AtomFacts DEF IInv, TypeOK, fields
<1>2. /\ NumberPassed' = NumberPassed /\ TypePassed' = TypePassed
      /\ PositionPassed' = PositionPassed /\ BuildPassed' = BuildPassed
  BY <1>0, <1>1 DEF NumberPassed, TypePassed, PositionPassed, BuildPassed
<1>3. TypeOK'
  BY <1>0, <1>1, <1>2 DEF IInv, TypeOK, Loops
<1>4. CleanSoFar' <=> CleanSoFar
  BY <1>0, <1>1, <1>2 DEF CleanSoFar
<1>5. BuiltAsDeclared' <=> BuiltAsDeclared
  BY <1>0, <1>1, <1>2 DEF BuiltAsDeclared
<1> QED BY <1>0, <1>3, <1>4, <1>5 DEF IInv

LEMMA StutterStep ==
  ASSUME IInv, UNCHANGED vars
  PROVE  IInv'
<1>0. /\ atom' = atom /\ loop' = loop /\ i' = i /\ expectedNumber' = expectedNumber
      /\ errorCount' = errorCount /\ signature' = signature /\ decl' = decl
  BY DEF vars
<1>1. fields' = fields
  BY <1>0 DEF fields
<1>2. /\ NumberPassed' = NumberPassed /\ TypePassed' = TypePassed
      /\ PositionPassed' = PositionPassed /\ BuildPassed' = BuildPassed
  BY <1>0, <1>1 DEF NumberPassed, TypePassed, PositionPassed, BuildPassed
<1>3. TypeOK'
  BY <1>0, <1>1, <1>2 DEF IInv, TypeOK
<1>4. CleanSoFar' <=> CleanSoFar
  BY <1>0, <1>1, <1>2 DEF CleanSoFar
<1>5. BuiltAsDeclared' <=> BuiltAsDeclared
  BY <1>0, <1>1, <1>2 DEF BuiltAsDeclared
<1> QED BY <1>0, <1>3, <1>4, <1>5 DEF IInv

-----------------------------------------------------------------------------
(* The theorems. *)

\* The inductive invariant holds at every iteration: the error count of
\* collate_atom is zero exactly while no field passed so far breaks a rule,
\* and what has been built is what those fields declare.
THEOREM IInvCorrect == Spec => []IInv
<1>1. IInv /\ [Next]_vars => IInv'
  <2> SUFFICES ASSUME IInv, [Next]_vars PROVE IInv'
    OBVIOUS
  <2>1. CASE NumberAsExpected \/ NumberMismatch
    BY <2>1, NumberStep
  <2>2. CASE CheckType
    BY <2>2, CheckTypeStep
  <2>3. CASE CheckChainPosition
    BY <2>3, CheckChainPositionStep
  <2>4. CASE BuildField
    BY <2>4, BuildStep
  <2>5. CASE LeaveLoop
    BY <2>5, LeaveStep
  <2>6. CASE Returned \/ UNCHANGED vars
    BY <2>6, StutterStep DEF Returned
  <2> QED BY <2>1, <2>2, <2>3, <2>4, <2>5, <2>6 DEF Next
<1> QED BY InitIInv, <1>1, PTL DEF Spec

\* Type correctness of collate_atom's variables.
THEOREM TypeCorrect == Spec => []TypeOK
<1>1. IInv => TypeOK
  BY DEF IInv
<1> QED BY IInvCorrect, <1>1, PTL

\* The iterations ahead of collate_atom, and one step to leave each loop.
StepsLeft ==
  LET n == Len(fields)
  IN CASE loop = "number" -> ((n + 1) + (n + 1) + (n + 1) + (n + 1)) - (i - 1)
       [] loop = "types"  -> ((n + 1) + (n + 1) + (n + 1)) - (i - 1)
       [] loop = "chain"  -> ((n + 1) + (n + 1)) - (i - 1)
       [] loop = "build"  -> (n + 1) - (i - 1)
       [] loop = "done"   -> 0

\* The four loops take one step per field and one to leave, whatever the fields
\* are: with the fairness of Spec, and as a step can be taken, each atom is decided.
THEOREM LoopsRunDown == Spec => [](StepsLeft \in Nat) /\ [][StepsLeft' < StepsLeft]_vars
<1> DEFINE n == Len(fields)
<1>1. TypeOK => n \in Nat /\ i \in 1 .. n + 1 /\ loop \in Loops
  BY AtomFacts, AtomsAssumption DEF TypeOK, fields
<1>2. TypeOK => StepsLeft \in Nat
  <2> HIDE DEF n
  <2> QED BY <1>1 DEF StepsLeft, Loops, n
<1>3. ASSUME TypeOK, [Next]_vars PROVE [StepsLeft' < StepsLeft]_vars
  <2> SUFFICES ASSUME Next, loop # "done" PROVE StepsLeft' < StepsLeft
    BY <1>3 DEF Next, NumberAsExpected, NumberMismatch, CheckType, CheckChainPosition, BuildField,
                LeaveLoop, Leave, Iterate, Returned
  <2>1. /\ Len(fields)' = n
        /\ \/ loop' = loop /\ i <= n /\ i' = i + 1
           \/ i = n + 1 /\ i' = 1 /\ \/ loop = "number" /\ loop' = "types"
                                     \/ loop = "types" /\ loop' = "chain"
                                     \/ loop = "chain" /\ loop' = "build"
                                     \/ loop = "build" /\ loop' = "done"
    BY <1>1, <1>3 DEF Next, NumberAsExpected, NumberMismatch, CheckType, CheckChainPosition,
                      BuildField, LeaveLoop, Leave, Iterate, Returned, fields
  <2> HIDE DEF n
  <2>2. n \in Nat /\ i \in 1 .. n + 1 /\ loop \in {"number", "types", "chain", "build"}
    BY <1>1, <1>3 DEF Loops
  <2> QED BY <2>1, <2>2 DEF StepsLeft, n
<1>4. Spec => []TypeOK
  BY TypeCorrect
<1> QED BY <1>2, <1>3, <1>4, PTL DEF Spec

\* What the inductive invariant says once collate_atom has returned.
LEMMA DoneMeans ==
  IInv /\ Done =>
    /\ errorCount = 0 <=> WellFormed(atom)
    /\ errorCount = 0 => [signature |-> signature, annotations |-> decl.annotations] = Declaration(atom)
<1> SUFFICES ASSUME IInv, Done
             PROVE  /\ errorCount = 0 <=> WellFormed(atom)
                    /\ errorCount = 0 => /\ signature = DeclaredSignature(atom)
                                         /\ decl.annotations = DeclaredAnnotations(atom)
  BY DEF Declaration
<1>1. /\ NumberPassed = Len(fields) /\ TypePassed = Len(fields) /\ PositionPassed = Len(fields)
      /\ BuildPassed = Len(fields) /\ DOMAIN fields = 1 .. Len(fields)
  BY AtomFacts DEF Done, NumberPassed, TypePassed, PositionPassed, BuildPassed, IInv, TypeOK, fields
<1>2. CleanSoFar <=> WellFormed(atom)
  BY <1>1 DEF CleanSoFar, WellFormed, fields
<1>3. BuiltAsDeclared => /\ signature = DeclaredSignature(atom)
                        /\ decl.annotations = DeclaredAnnotations(atom)
  BY <1>1 DEF BuiltAsDeclared, DeclaredSignature, DeclaredAnnotations, fields
<1> QED BY <1>2, <1>3 DEF IInv

\* An accepted atom obeys every rule and is built as its proto declares.
Verdict ==
  Done => /\ errorCount = 0 <=> WellFormed(atom)
          /\ errorCount = 0 =>
               [signature |-> signature, annotations |-> decl.annotations] = Declaration(atom)

\* collate_atom implements its contract: it returns no error exactly for the
\* well formed atoms, and an accepted atom has the signature and annotations
\* its proto declares.  Every step but the return is a stutter.
THEOREM ContractImplemented == Spec => Contract!Safety
<1>1. Init => Contract!Init
  <2> SUFFICES ASSUME Init PROVE Contract!Init
    OBVIOUS
  <2>1. ~Done /\ ~Accepted
    BY DEF Init, Done, Accepted
  <2>2. atom \in AtomProtos
    BY AtomsAssumption DEF Init
  <2> QED BY <2>1, <2>2 DEF Contract!Init
<1>2. IInv => Verdict
  BY DoneMeans DEF Verdict
<1>3. Verdict /\ Verdict' /\ [Next]_vars => [Contract!Next]_(Contract!vars)
  <2> SUFFICES ASSUME Verdict', [Next]_vars PROVE [Contract!Next]_(Contract!vars)
    OBVIOUS
  <2>1. CASE Leave("build", "done")
    <3>1. /\ ~Done /\ ~Accepted /\ Done' /\ atom' = atom
      BY <2>1 DEF Leave, Done, Accepted
    <3>2. /\ Accepted' <=> WellFormed(atom)
          /\ Accepted' => [signature |-> signature', annotations |-> decl'.annotations] = Declaration(atom)
      BY <3>1 DEF Verdict, Accepted
    <3>3. CASE WellFormed(atom)
      BY <3>1, <3>2, <3>3 DEF Contract!Next, Contract!Accept
    <3>4. CASE ~WellFormed(atom)
      BY <3>1, <3>2, <3>4 DEF Contract!Next, Contract!Reject
    <3> QED BY <3>3, <3>4
  <2>2. CASE UNCHANGED vars
    <3>1. atom' = atom /\ loop' = loop /\ errorCount' = errorCount /\ signature' = signature /\ decl' = decl
      BY <2>2 DEF vars
    <3>2. (Done' <=> Done) /\ (Accepted' <=> Accepted)
      BY <3>1 DEF Done, Accepted
    <3> QED BY <3>1, <3>2 DEF Contract!vars
  <2>3. CASE ~Leave("build", "done") /\ ~Returned /\ Next
    <3>1. ~Done /\ ~Done' /\ atom' = atom
      BY <2>3 DEF Next, NumberAsExpected, NumberMismatch, CheckType, CheckChainPosition, BuildField,
                  LeaveLoop, Leave, Iterate, Done
    <3> QED BY <3>1 DEF Accepted, Contract!vars
  <2> QED BY <2>1, <2>2, <2>3 DEF Returned
<1> QED BY IInvCorrect, <1>1, <1>2, <1>3, PTL DEF Spec, Contract!Safety

-----------------------------------------------------------------------------
(* The copies an AtomDecl keeps of its primary key and of its state. *)

\* Only the build loop changes the AtomDecl.
LEMMA DeclStep ==
  ASSUME [Next]_vars, ~BuildField
  PROVE  decl' = decl /\ atom' = atom
<1>1. CASE NumberAsExpected \/ NumberMismatch
  BY <1>1 DEF NumberAsExpected, NumberMismatch, Iterate
<1>2. CASE CheckType \/ CheckChainPosition
  BY <1>2 DEF CheckType, CheckChainPosition, Iterate
<1>3. CASE LeaveLoop
  BY <1>3 DEF LeaveLoop, Leave
<1>4. CASE Returned \/ UNCHANGED vars
  BY <1>4 DEF Returned, vars
<1> QED BY <1>1, <1>2, <1>3, <1>4 DEF Next

\* The two copies of the primary key agree at every iteration, for accepted
\* and rejected atoms alike.
THEOREM PrimaryKeyCorrect == Spec => []PrimaryKeyAgrees
<1>1. Init => KeyAgrees(decl)
  BY DEF Init, EmptyDecl, KeyAgrees, Annotated, Listed
<1>2. IInv /\ KeyAgrees(decl) /\ [Next]_vars => KeyAgrees(decl)'
  <2> SUFFICES ASSUME IInv, KeyAgrees(decl), [Next]_vars PROVE KeyAgrees(decl')
    BY DEF KeyAgrees
  <2>1. CASE BuildField
    <3>1. atom \in AtomProtos /\ field \in FieldProtos /\ IsDecl(decl)
      BY <2>1, AtomFacts DEF BuildField, Iterate, IInv, TypeOK, fields, field
    <3>2. decl' = BuiltDecl(atom, decl, field)
      BY <2>1 DEF BuildField
    <3> QED BY <3>1, <3>2, KeyStep
  <2>2. CASE ~BuildField
    BY <2>2, DeclStep
  <2> QED BY <2>1, <2>2
<1>3. KeyAgrees(decl) => PrimaryKeyAgrees
  BY DEF KeyAgrees, PrimaryKeyAgrees, Annotated, Listed
<1> QED BY IInvCorrect, <1>1, <1>2, <1>3, PTL DEF Spec

\* Until an error is counted the AtomDecl is one, and it is built in one loop only.
StateInv == StateAgrees(decl) \/ (errorCount # 0 /\ loop \in {"build", "done"})

LEMMA StateBuildStep ==
  ASSUME IInv, StateInv, BuildField
  PROVE  StateInv'
<1> DEFINE jt == java_type(field, atom.isUintAllowed)
           e  == AnnotationErrors(atom, decl, field, jt)
<1>0. /\ loop = "build" /\ loop' = loop /\ i <= Len(fields)
      /\ decl' = BuiltDecl(atom, decl, field) /\ errorCount' = errorCount + e
  BY DEF BuildField, Iterate
<1>1. /\ atom \in AtomProtos /\ i \in DOMAIN atom.fields /\ field \in FieldProtos /\ field = atom.fields[i]
      /\ i \in 1 .. Len(fields) /\ errorCount \in Nat /\ IsDecl(decl) /\ atom.isUintAllowed \in BOOLEAN
      /\ errorCount = 0 => CleanSoFar /\ BuiltAsDeclared
  BY <1>0, AtomFacts DEF IInv, TypeOK, fields, field
<1>2. e \in Nat
  BY <1>1, AnnotationErrorsIffForbidden
<1>3. CASE errorCount' # 0
  BY <1>0, <1>3 DEF StateInv
<1>4. CASE errorCount' = 0
  <2>1. errorCount = 0 /\ e = 0
    BY <1>0, <1>1, <1>2, <1>4
  <2>2. /\ NumberPassed = Len(fields) /\ TypePassed = Len(fields) /\ BuildPassed = i - 1
    BY <1>0 DEF NumberPassed, TypePassed, BuildPassed
  <2>3. TypeAllowed(atom, field) /\ \A k \in 1 .. i : NumberAllowed(atom, k)
    BY <1>1, <2>1, <2>2 DEF CleanSoFar, fields
  <2>4. /\ decl.exclusiveField = 0 <=> \A k \in 1 .. i - 1 : ~IsExclusive(atom.fields[k])
        /\ decl.annotations = UNION {DeclaredFieldAnnotations(fields[k]) : k \in 1 .. i - 1}
    BY <1>1, <2>1, <2>2 DEF BuiltAsDeclared, fields
  <2>5. AnnotationsAllowed(atom, i)
    BY <1>1, <2>1, <2>3, <2>4, AnnotationErrorsIffForbidden
  <2>6. \A b \in decl.annotations : b[1] # field.number /\ b[1] # 0
    <3> SUFFICES ASSUME NEW k \in 1 .. i - 1, NEW b \in DeclaredFieldAnnotations(fields[k])
                 PROVE  b[1] # field.number /\ b[1] # 0
      BY <2>4
    <3>1. fields[k] \in FieldProtos /\ fields[k].number = k /\ field.number = i
      BY <1>1, <2>3, AtomFacts DEF NumberAllowed, fields
    <3>2. b[1] = k
      BY <3>1, DeclaredAnnotationField
    <3> QED BY <1>1, <3>1, <3>2
  <2>7. StateAgrees(decl)
    BY <2>1 DEF StateInv
  <2>8. StateAgrees(decl')
    BY <1>0, <1>1, <2>3, <2>4, <2>5, <2>6, <2>7, StateStep
  <2> QED BY <2>8 DEF StateInv, StateAgrees
<1> QED BY <1>3, <1>4

\* In an accepted atom all state annotations belong to the one exclusive field,
\* and the AtomDecl's own copies hold the same values.
THEOREM StateCorrect == Spec => []StateBelongsToExclusiveField
<1>1. Init => StateInv
  BY DEF Init, EmptyDecl, StateInv, StateAgrees
<1>2. IInv /\ StateInv /\ [Next]_vars => StateInv'
  <2> SUFFICES ASSUME IInv, StateInv, [Next]_vars PROVE StateInv'
    OBVIOUS
  <2>1. CASE BuildField
    BY <2>1, StateBuildStep
  <2>2. CASE ~BuildField
    <3>1. decl' = decl
      BY <2>2, DeclStep
    <3>2. CASE StateAgrees(decl)
      BY <3>1, <3>2 DEF StateInv, StateAgrees
    <3>3. CASE errorCount # 0 /\ loop \in {"build", "done"}
      BY <2>2, <3>3 DEF StateInv, Next, NumberAsExpected, NumberMismatch, CheckType, CheckChainPosition,
                        Iterate, LeaveLoop, Leave, Returned, vars
    <3> QED BY <3>2, <3>3 DEF StateInv
  <2> QED BY <2>1, <2>2
<1>3. StateInv => StateBelongsToExclusiveField
  BY DEF StateInv, StateAgrees, StateAnnotationIds, StateBelongsToExclusiveField, Accepted
<1> QED BY IInvCorrect, <1>1, <1>2, <1>3, PTL DEF Spec

-----------------------------------------------------------------------------
(* The numbering loop. *)

Misplaced(k) == fields[k].number # k

\* Up to the first gap a field is expected at its position; from there on the
\* numbers are ahead of the positions and of what is expected, which is the
\* number of the field before.
CountInv ==
  loop = "number" =>
    /\ errorCount = Cardinality({k \in 1 .. i - 1 : Misplaced(k)})
    /\ IsFiniteSet({k \in 1 .. i - 1 : Misplaced(k)})
    /\ \/ expectedNumber = i
       \/ i > 1 /\ expectedNumber = fields[i - 1].number /\ expectedNumber >= i
    /\ i > 1 => fields[i - 1].number >= i - 1

\* The next field is as expected exactly when it is at its position.
LEMMA ExpectedIffPlaced ==
  ASSUME IInv, CountInv, loop = "number", i <= Len(fields)
  PROVE  /\ field.number = expectedNumber <=> ~Misplaced(i)
         /\ Misplaced(i) => field.number > i
<1>1. /\ i \in 1 .. Len(fields) /\ Len(fields) \in Nat /\ expectedNumber \in Nat
      /\ \A k \in 1 .. Len(fields) : fields[k].number \in Nat \ {0}
      /\ \A j, k \in 1 .. Len(fields) : j < k => fields[j].number < fields[k].number
  <2>1. atom \in AtomProtos /\ i \in 1 .. Len(fields) /\ expectedNumber \in Nat
    BY AtomFacts DEF IInv, TypeOK, fields
  <2>2. \A k \in 1 .. Len(fields) : fields[k].number \in Nat \ {0}
    BY <2>1, AtomFacts DEF fields, FieldProtos
  <2>3. ByNumber(fields)
    BY <2>1 DEF AtomProtos, fields
  <2> QED BY <2>1, <2>2, <2>3, AtomFacts DEF ByNumber, fields
<1>2. CASE i = 1
  BY <1>1, <1>2 DEF CountInv, Misplaced, field
<1>3. CASE i > 1
  <2>1. /\ i - 1 \in 1 .. Len(fields) /\ fields[i - 1].number < fields[i].number
        /\ fields[i - 1].number >= i - 1
        /\ expectedNumber = i \/ (expectedNumber = fields[i - 1].number /\ expectedNumber >= i)
    BY <1>1, <1>3 DEF CountInv
  <2> QED BY <1>1, <1>3, <2>1 DEF Misplaced, field
<1> QED BY <1>1, <1>2, <1>3

LEMMA CountStep ==
  ASSUME IInv, CountInv, NumberAsExpected \/ NumberMismatch
  PROVE  CountInv'
<1> DEFINE S == {k \in 1 .. i - 1 : Misplaced(k)}
<1>0. /\ loop = "number" /\ loop' = loop /\ atom' = atom /\ i' = i + 1 /\ i <= Len(fields)
  BY DEF NumberAsExpected, NumberMismatch, Iterate
<1>1. /\ atom \in AtomProtos /\ fields' = fields /\ i \in 1 .. Len(fields) /\ Len(fields) \in Nat
      /\ DOMAIN fields = 1 .. Len(fields) /\ field.number \in Nat /\ expectedNumber \in Nat
      /\ \A k \in 1 .. Len(fields) : fields[k].number \in Nat \ {0}
      /\ \A j, k \in 1 .. Len(fields) : j < k => fields[j].number < fields[k].number
  <2>1. atom \in AtomProtos /\ i \in 1 .. Len(fields) /\ expectedNumber \in Nat /\ fields' = fields
    BY <1>0, AtomFacts DEF IInv, TypeOK, fields
  <2>2. \A k \in 1 .. Len(fields) : fields[k].number \in Nat \ {0}
    BY <2>1, AtomFacts DEF fields, FieldProtos
  <2>3. ByNumber(fields)
    BY <2>1 DEF AtomProtos, fields
  <2> QED BY <2>1, <2>2, <2>3, AtomFacts DEF ByNumber, fields, field
<1>2. errorCount = Cardinality(S) /\ IsFiniteSet(S) /\ i \notin S
  BY <1>0, <1>1 DEF CountInv
<1>3. \A k : Misplaced(k)' = Misplaced(k)
  BY <1>1 DEF Misplaced
<1>4. 1 .. i' - 1 = (1 .. i - 1) \cup {i}
  BY <1>0, <1>1
<1>5. CASE field.number = i
  <2>1. expectedNumber = i
    BY <1>0, <1>5, ExpectedIffPlaced DEF Misplaced, field
  <2>2. errorCount' = errorCount /\ expectedNumber' = i'
    BY <1>0, <1>5, <2>1 DEF NumberAsExpected, NumberMismatch
  <2>3. {k \in 1 .. i' - 1 : Misplaced(k)'} = S
    BY <1>3, <1>4, <1>5 DEF Misplaced, field
  <2>4. fields'[i' - 1].number >= i' - 1
    BY <1>0, <1>1, <1>5 DEF field
  <2> QED BY <1>2, <2>2, <2>3, <2>4 DEF CountInv
<1>6. CASE field.number # i
  <2>1. field.number > i /\ expectedNumber # field.number
    BY <1>0, <1>6, ExpectedIffPlaced DEF Misplaced, field
  <2>2. errorCount' = errorCount + 1 /\ expectedNumber' = field.number
    BY <2>1 DEF NumberAsExpected, NumberMismatch
  <2>3. {k \in 1 .. i' - 1 : Misplaced(k)'} = S \cup {i}
    BY <1>3, <1>4, <1>6 DEF Misplaced, field
  <2>4. IsFiniteSet(S \cup {i}) /\ Cardinality(S \cup {i}) = Cardinality(S) + 1
    BY <1>2, FS_AddElement
  <2>5. /\ i' > 1 /\ expectedNumber' = fields'[i' - 1].number
        /\ expectedNumber' >= i' /\ fields'[i' - 1].number >= i' - 1
    BY <1>0, <1>1, <2>1, <2>2 DEF field
  <2> QED BY <1>2, <2>2, <2>3, <2>4, <2>5 DEF CountInv
<1> QED BY <1>5, <1>6

\* What the numbering loop has counted and expects, at every step.
LEMMA CountInvCorrect == Spec => []CountInv
<1>1. Init => CountInv
  <2> SUFFICES ASSUME Init PROVE CountInv
    OBVIOUS
  <2>1. i = 1 /\ expectedNumber = 1 /\ errorCount = 0
    BY DEF Init
  <2>2. {k \in 1 .. i - 1 : Misplaced(k)} = {}
    BY <2>1
  <2> QED BY <2>1, <2>2, FS_EmptySet DEF CountInv
<1>2. IInv /\ CountInv /\ [Next]_vars => CountInv'
  <2> SUFFICES ASSUME IInv, CountInv, [Next]_vars PROVE CountInv'
    OBVIOUS
  <2>1. CASE NumberAsExpected \/ NumberMismatch
    BY <2>1, CountStep
  <2>2. CASE CheckType \/ CheckChainPosition \/ BuildField \/ LeaveLoop
    BY <2>2 DEF CheckType, CheckChainPosition, BuildField, Iterate, LeaveLoop, Leave, CountInv
  <2>3. CASE Returned \/ UNCHANGED vars
    BY <2>3 DEF Returned, vars, CountInv, Misplaced, fields
  <2> QED BY <2>1, <2>2, <2>3 DEF Next
<1> QED BY IInvCorrect, <1>1, <1>2, PTL DEF Spec

\* The numbering loop counts one error per field whose number is not its
\* position, however the gaps fall.
THEOREM NumberingCorrect == Spec => []OneErrorPerMisplacedField
<1>1. CountInv => OneErrorPerMisplacedField
  BY DEF CountInv, OneErrorPerMisplacedField, Misplaced
<1> QED BY CountInvCorrect, <1>1, PTL

-----------------------------------------------------------------------------
(* The four loops together return what collate_atom(a) says. *)

\* The errors each loop counts, by field.
NumberErrors(a)   == [k \in 1 .. Len(a.fields) |-> Count(a.fields[k].number # k)]
TypeErrors(a)     == [k \in 1 .. Len(a.fields) |-> TypeError(a, a.fields[k])]
PositionErrors(a) == [k \in 1 .. Len(a.fields) |-> PositionError(a, a.fields[k])]
BuildErrors(a)    == [k \in 1 .. Len(a.fields) |->
    AnnotationErrors(a, DeclAfter(a)[k - 1], a.fields[k], java_type(a.fields[k], a.isUintAllowed))]

\* The sum of the first k.
Total(errors, a, k) == PartialSums(errors, Len(a.fields))[k]

\* The errors of a field are those the four loops count for it.
LEMMA ErrorsByLoop ==
  ASSUME NEW a \in AtomProtos, NEW k \in 1 .. Len(a.fields)
  PROVE  /\ NumberErrors(a)[k] \in Nat /\ TypeErrors(a)[k] \in Nat
         /\ PositionErrors(a)[k] \in Nat /\ BuildErrors(a)[k] \in Nat
         /\ FieldErrors(a, DeclAfter(a)[k - 1], k)
              = NumberErrors(a)[k] + TypeErrors(a)[k] + PositionErrors(a)[k] + BuildErrors(a)[k]
<1> DEFINE f == a.fields[k]
           d == DeclAfter(a)[k - 1]
           jt == java_type(f, a.isUintAllowed)
<1>1. k \in DOMAIN a.fields /\ f \in FieldProtos /\ k - 1 \in 0 .. Len(a.fields)
  BY AtomFacts
<1>2. IsDecl(d)
  BY <1>1, FieldsCollatedEach DEF FieldsCollated
<1>3. TypeError(a, f) \in Nat /\ PositionError(a, f) \in Nat /\ Count(f.number # k) \in Nat
  BY <1>1, TypeErrorIffForbidden, PositionErrorIffForbidden DEF Count
<1>4. AnnotationErrors(a, d, f, jt) \in Nat
  BY <1>1, <1>2, AnnotationErrorsIffForbidden
<1>5. /\ NumberErrors(a)[k] = Count(f.number # k) /\ TypeErrors(a)[k] = TypeError(a, f)
      /\ PositionErrors(a)[k] = PositionError(a, f)
      /\ BuildErrors(a)[k] = AnnotationErrors(a, d, f, jt)
  BY DEF NumberErrors, TypeErrors, PositionErrors, BuildErrors
<1>6. FieldErrors(a, d, k) = Count(f.number # k) + TypeError(a, f) + PositionError(a, f)
                               + AnnotationErrors(a, d, f, jt)
  BY DEF FieldErrors
<1> QED BY <1>3, <1>4, <1>5, <1>6

\* How a total grows.
LEMMA TotalEach ==
  ASSUME NEW a \in AtomProtos,
         NEW errors \in {NumberErrors(a), TypeErrors(a), PositionErrors(a), BuildErrors(a)}
  PROVE  /\ Total(errors, a, 0) = 0
         /\ \A k \in 1 .. Len(a.fields) : Total(errors, a, k) = Total(errors, a, k - 1) + errors[k]
         /\ \A k \in 0 .. Len(a.fields) : Total(errors, a, k) \in Nat
<1>1. Len(a.fields) \in Nat
  BY AtomFacts
<1>2. \A k \in 1 .. Len(a.fields) : errors[k] \in Nat
  BY ErrorsByLoop
<1> QED BY <1>1, <1>2, PartialSumsEach DEF Total

\* The sums of the loops add up to the errors of the fields.
LEMMA TotalsAddUp ==
  ASSUME NEW a \in AtomProtos
  PROVE  \A k \in 0 .. Len(a.fields) :
            ErrorsAfter(a)[k] = Total(NumberErrors(a), a, k) + Total(TypeErrors(a), a, k)
                                  + Total(PositionErrors(a), a, k) + Total(BuildErrors(a), a, k)
<1> DEFINE n == Len(a.fields)
           sum(k) == Total(NumberErrors(a), a, k) + Total(TypeErrors(a), a, k)
                       + Total(PositionErrors(a), a, k) + Total(BuildErrors(a), a, k)
           S == {k \in Nat : k <= n => ErrorsAfter(a)[k] = sum(k)}
<1>0. n \in Nat
  BY AtomFacts
<1>1. 0 \in S
  BY TotalEach, CollateAtomUnfolded
<1>2. ASSUME NEW k \in 1 .. n PROVE sum(k) = sum(k - 1) + FieldErrors(a, DeclAfter(a)[k - 1], k)
  <2>1. /\ NumberErrors(a)[k] \in Nat /\ TypeErrors(a)[k] \in Nat
        /\ PositionErrors(a)[k] \in Nat /\ BuildErrors(a)[k] \in Nat
        /\ FieldErrors(a, DeclAfter(a)[k - 1], k)
             = NumberErrors(a)[k] + TypeErrors(a)[k] + PositionErrors(a)[k] + BuildErrors(a)[k]
    BY ErrorsByLoop
  <2>2. k - 1 \in 0 .. n
    BY <1>0
  <2>3. ASSUME NEW errors \in {NumberErrors(a), TypeErrors(a), PositionErrors(a), BuildErrors(a)}
        PROVE  Total(errors, a, k) = Total(errors, a, k - 1) + errors[k] /\ Total(errors, a, k - 1) \in Nat
    BY <2>2, TotalEach
  <2> DEFINE N(j) == Total(NumberErrors(a), a, j)
             T(j) == Total(TypeErrors(a), a, j)
             P(j) == Total(PositionErrors(a), a, j)
             B(j) == Total(BuildErrors(a), a, j)
  <2>4. /\ N(k) = N(k - 1) + NumberErrors(a)[k] /\ T(k) = T(k - 1) + TypeErrors(a)[k]
        /\ P(k) = P(k - 1) + PositionErrors(a)[k] /\ B(k) = B(k - 1) + BuildErrors(a)[k]
        /\ N(k - 1) \in Nat /\ T(k - 1) \in Nat /\ P(k - 1) \in Nat /\ B(k - 1) \in Nat
    BY <2>3, Zenon
  <2>5. sum(k) = N(k) + T(k) + P(k) + B(k) /\ sum(k - 1) = N(k - 1) + T(k - 1) + P(k - 1) + B(k - 1)
    OBVIOUS
  <2> DEFINE e == FieldErrors(a, DeclAfter(a)[k - 1], k)
  <2> DEFINE n0 == N(k - 1)
             t0 == T(k - 1)
             p0 == P(k - 1)
             b0 == B(k - 1)
             nk == NumberErrors(a)[k]
             tk == TypeErrors(a)[k]
             pk == PositionErrors(a)[k]
             bk == BuildErrors(a)[k]
  <2>6. /\ e = nk + tk + pk + bk
        /\ n0 \in Nat /\ t0 \in Nat /\ p0 \in Nat /\ b0 \in Nat
        /\ nk \in Nat /\ tk \in Nat /\ pk \in Nat /\ bk \in Nat
        /\ sum(k - 1) = n0 + t0 + p0 + b0
        /\ sum(k) = (n0 + nk) + (t0 + tk) + (p0 + pk) + (b0 + bk)
    BY <2>1, <2>4, <2>5
  <2> HIDE DEF sum, e, n0, t0, p0, b0, nk, tk, pk, bk
  <2>7. sum(k) = sum(k - 1) + e
    BY <2>6
  <2> QED BY <2>7 DEF e
<1> HIDE DEF sum
<1>3. ASSUME NEW k \in Nat, k \in S PROVE k + 1 \in S
  <2> SUFFICES ASSUME k + 1 <= n PROVE ErrorsAfter(a)[k + 1] = sum(k + 1)
    OBVIOUS
  <2>1. k + 1 \in 1 .. n /\ (k + 1) - 1 = k /\ ErrorsAfter(a)[k] = sum(k)
    BY <1>0, <1>3
  <2>2. ErrorsAfter(a)[k + 1] = ErrorsAfter(a)[k] + FieldErrors(a, DeclAfter(a)[k], k + 1)
    BY <2>1, CollateAtomUnfolded
  <2> QED BY <1>2, <2>1, <2>2
<1> HIDE DEF S
<1>4. \A k \in Nat : k \in S
  BY <1>1, <1>3, NatInductionOnSets
<1> QED BY <1>0, <1>4 DEF S, sum

\* What the loops have counted and built of the fields they have been over.
ReturnInv ==
  /\ errorCount = Total(NumberErrors(atom), atom, NumberPassed) + Total(TypeErrors(atom), atom, TypePassed)
                    + Total(PositionErrors(atom), atom, PositionPassed)
                    + Total(BuildErrors(atom), atom, BuildPassed)
  /\ signature = [k \in 1 .. BuildPassed |-> FieldSignatureType(atom, fields[k])]
  /\ decl = DeclAfter(atom)[BuildPassed]

\* A step of a loop adds its errors; only the build loop adds to what is returned.
LEMMA ReturnStep ==
  ASSUME IInv, CountInv, ReturnInv, [Next]_vars
  PROVE  ReturnInv'
<1> DEFINE n == Len(fields)
           N(k) == Total(NumberErrors(atom), atom, k)
           T(k) == Total(TypeErrors(atom), atom, k)
           P(k) == Total(PositionErrors(atom), atom, k)
           B(k) == Total(BuildErrors(atom), atom, k)
<1>0. /\ atom \in AtomProtos /\ n \in Nat /\ i \in 1 .. n + 1 /\ loop \in Loops
      /\ errorCount = N(NumberPassed) + T(TypePassed) + P(PositionPassed) + B(BuildPassed)
      /\ signature = [k \in 1 .. BuildPassed |-> FieldSignatureType(atom, fields[k])]
      /\ decl = DeclAfter(atom)[BuildPassed]
  BY AtomFacts DEF IInv, TypeOK, ReturnInv, fields
<1>1. /\ N(0) = 0 /\ T(0) = 0 /\ P(0) = 0 /\ B(0) = 0
      /\ \A k \in 0 .. n : N(k) \in Nat /\ T(k) \in Nat /\ P(k) \in Nat /\ B(k) \in Nat
  BY <1>0, TotalEach DEF fields
<1>2. ASSUME NEW k \in 1 .. n
      PROVE  /\ N(k) = N(k - 1) + Count(fields[k].number # k)
             /\ T(k) = T(k - 1) + TypeError(atom, fields[k])
             /\ P(k) = P(k - 1) + PositionError(atom, fields[k])
             /\ B(k) = B(k - 1) + AnnotationErrors(atom, DeclAfter(atom)[k - 1], fields[k],
                                                    java_type(fields[k], atom.isUintAllowed))
  <2>1. /\ NumberErrors(atom)[k] = Count(fields[k].number # k)
        /\ TypeErrors(atom)[k] = TypeError(atom, fields[k])
        /\ PositionErrors(atom)[k] = PositionError(atom, fields[k])
        /\ BuildErrors(atom)[k] = AnnotationErrors(atom, DeclAfter(atom)[k - 1], fields[k],
                                                    java_type(fields[k], atom.isUintAllowed))
    BY DEF NumberErrors, TypeErrors, PositionErrors, BuildErrors, fields
  <2>2. /\ N(k) = N(k - 1) + NumberErrors(atom)[k] /\ T(k) = T(k - 1) + TypeErrors(atom)[k]
        /\ P(k) = P(k - 1) + PositionErrors(atom)[k] /\ B(k) = B(k - 1) + BuildErrors(atom)[k]
    BY <1>0, TotalEach DEF fields
  <2> QED BY <2>1, <2>2
<1> HIDE DEF N, T, P, B
<1>3. CASE NumberAsExpected \/ NumberMismatch
  <2>1. /\ loop = "number" /\ loop' = loop /\ atom' = atom /\ fields' = fields
        /\ signature' = signature /\ decl' = decl /\ i' = i + 1 /\ i \in 1 .. n
    BY <1>0, <1>3 DEF NumberAsExpected, NumberMismatch, Iterate, fields
  <2>2. errorCount' = errorCount + Count(fields[i].number # i)
    BY <1>0, <1>1, <1>3, <2>1, ExpectedIffPlaced
       DEF NumberAsExpected, NumberMismatch, Misplaced, field, Count, IInv, TypeOK
  <2>3. /\ NumberPassed = i - 1 /\ TypePassed = 0 /\ PositionPassed = 0 /\ BuildPassed = 0
        /\ NumberPassed' = i /\ TypePassed' = 0 /\ PositionPassed' = 0 /\ BuildPassed' = 0
    BY <1>0, <2>1 DEF NumberPassed, TypePassed, PositionPassed, BuildPassed
  <2>4. errorCount' = N(i) + T(0) + P(0) + B(0)
    <3>1. i - 1 \in 0 .. n /\ Count(fields[i].number # i) \in Nat
      BY <1>0, <2>1 DEF Count
    <3>2. errorCount = N(i - 1) /\ N(i) = N(i - 1) + Count(fields[i].number # i) /\ N(i - 1) \in Nat
      <4>1. errorCount = N(i - 1) + T(0) + P(0) + B(0)
        BY <1>0, <2>3
      <4>2. N(i - 1) \in Nat /\ T(0) = 0 /\ P(0) = 0 /\ B(0) = 0
        BY <1>1, <3>1
      <4>3. N(i) = N(i - 1) + Count(fields[i].number # i)
        BY <1>2, <2>1
      <4> QED BY <4>1, <4>2, <4>3
    <3> QED BY <1>1, <2>2, <3>1, <3>2
  <2> QED BY <1>0, <2>1, <2>3, <2>4 DEF ReturnInv, N, T, P, B
<1>4. CASE CheckType
  <2>1. /\ loop = "types" /\ loop' = loop /\ atom' = atom /\ fields' = fields
        /\ signature' = signature /\ decl' = decl /\ i' = i + 1 /\ i \in 1 .. n
        /\ errorCount' = errorCount + TypeError(atom, fields[i])
    BY <1>0, <1>4 DEF CheckType, Iterate, fields, field
  <2>2. /\ NumberPassed = n /\ TypePassed = i - 1 /\ PositionPassed = 0 /\ BuildPassed = 0
        /\ NumberPassed' = n /\ TypePassed' = i /\ PositionPassed' = 0 /\ BuildPassed' = 0
    BY <1>0, <2>1 DEF NumberPassed, TypePassed, PositionPassed, BuildPassed
  <2>3. TypeError(atom, fields[i]) \in Nat
    BY <1>0, <2>1, AtomFacts, TypeErrorIffForbidden DEF fields
  <2>4. errorCount' = N(n) + T(i) + P(0) + B(0)
    <3>1. i - 1 \in 0 .. n /\ n \in 0 .. n
      BY <1>0, <2>1
    <3>2. N(n) \in Nat /\ T(i - 1) \in Nat /\ T(i) = T(i - 1) + TypeError(atom, fields[i])
      BY <1>1, <1>2, <2>1, <3>1
    <3>3. errorCount = N(n) + T(i - 1) + P(0) + B(0)
      BY <1>0, <2>2
    <3> QED BY <1>1, <2>1, <2>3, <3>2, <3>3
  <2> QED BY <1>0, <2>1, <2>2, <2>4 DEF ReturnInv, N, T, P, B
<1>5. CASE CheckChainPosition
  <2>1. /\ loop = "chain" /\ loop' = loop /\ atom' = atom /\ fields' = fields
        /\ signature' = signature /\ decl' = decl /\ i' = i + 1 /\ i \in 1 .. n
        /\ errorCount' = errorCount + PositionError(atom, fields[i])
    BY <1>0, <1>5 DEF CheckChainPosition, Iterate, fields, field
  <2>2. /\ NumberPassed = n /\ TypePassed = n /\ PositionPassed = i - 1 /\ BuildPassed = 0
        /\ NumberPassed' = n /\ TypePassed' = n /\ PositionPassed' = i /\ BuildPassed' = 0
    BY <1>0, <2>1 DEF NumberPassed, TypePassed, PositionPassed, BuildPassed
  <2>3. PositionError(atom, fields[i]) \in Nat
    BY <1>0, <2>1, AtomFacts, PositionErrorIffForbidden DEF fields
  <2>4. errorCount' = N(n) + T(n) + P(i) + B(0)
    <3>1. i - 1 \in 0 .. n /\ n \in 0 .. n
      BY <1>0, <2>1
    <3>2. /\ N(n) \in Nat /\ T(n) \in Nat /\ P(i - 1) \in Nat
          /\ P(i) = P(i - 1) + PositionError(atom, fields[i])
      BY <1>1, <1>2, <2>1, <3>1
    <3>3. errorCount = N(n) + T(n) + P(i - 1) + B(0)
      BY <1>0, <2>2
    <3> QED BY <1>1, <2>1, <2>3, <3>2, <3>3, SMTT(30)
  <2> QED BY <1>0, <2>1, <2>2, <2>4 DEF ReturnInv, N, T, P, B
<1>6. CASE BuildField
  <2> DEFINE d == DeclAfter(atom)[i - 1]
             e == AnnotationErrors(atom, d, fields[i], java_type(fields[i], atom.isUintAllowed))
  <2>1. /\ loop = "build" /\ loop' = loop /\ atom' = atom /\ fields' = fields
        /\ i' = i + 1 /\ i \in 1 .. n
        /\ signature' = Append(signature, FieldSignatureType(atom, fields[i]))
    BY <1>0, <1>6 DEF BuildField, Iterate, fields, field
  <2>2. /\ NumberPassed = n /\ TypePassed = n /\ PositionPassed = n /\ BuildPassed = i - 1
        /\ NumberPassed' = n /\ TypePassed' = n /\ PositionPassed' = n /\ BuildPassed' = i
    BY <1>0, <2>1 DEF NumberPassed, TypePassed, PositionPassed, BuildPassed
  <2>3. /\ decl = d /\ errorCount' = errorCount + e /\ decl' = BuiltDecl(atom, d, fields[i])
    BY <1>0, <1>6, <2>2 DEF BuildField, fields, field
  <2>4. e \in Nat
    <3>1. i \in DOMAIN atom.fields /\ fields[i] \in FieldProtos
      BY <1>0, <2>1, AtomFacts DEF fields
    <3>2. IsDecl(d)
      BY <2>3 DEF IInv, TypeOK
    <3> HIDE DEF d
    <3> QED BY <1>0, <3>1, <3>2, AnnotationErrorsIffForbidden DEF fields
  <2>5. decl' = DeclAfter(atom)[i]
    BY <1>0, <2>1, <2>3, DeclAfterEach DEF fields
  <2> HIDE DEF d
  <2>6. B(i) = B(i - 1) + e
    BY <1>2, <2>1 DEF d
  <2> HIDE DEF e
  <2>7. errorCount' = N(n) + T(n) + P(n) + B(i)
    <3>1. i - 1 \in 0 .. n /\ n \in 0 .. n
      BY <1>0, <2>1
    <3>2. N(n) \in Nat /\ T(n) \in Nat /\ P(n) \in Nat /\ B(i - 1) \in Nat
      BY <1>1, <3>1
    <3>3. errorCount = N(n) + T(n) + P(n) + B(i - 1)
      BY <1>0, <2>2
    <3> QED BY <2>3, <2>4, <2>6, <3>2, <3>3
  <2>8. signature' = [k \in 1 .. i |-> FieldSignatureType(atom, fields[k])]
    <3>1. /\ signature = [k \in 1 .. i - 1 |-> FieldSignatureType(atom, fields[k])]
          /\ signature \in Seq(JavaTypes) /\ Len(signature) = i - 1
      BY <1>0, <2>2 DEF IInv, TypeOK
    <3> DEFINE g == [k \in 1 .. n |-> FieldSignatureType(atom, fields[k])]
    <3>2. \A k \in 1 .. i : g[k] = FieldSignatureType(atom, fields[k])
      BY <1>0, <2>1
    <3>3. i \in Nat \ {0}
      BY <1>0
    <3> HIDE DEF g
    <3>4. signature = [k \in 1 .. i - 1 |-> g[k]] /\ signature' = Append(signature, g[i])
      BY <2>1, <3>1, <3>2, <3>3
    <3>5. Append(signature, g[i]) = [k \in 1 .. i |-> g[k]]
      BY <3>1, <3>3, <3>4
    <3> QED BY <3>2, <3>4, <3>5
  <2> QED BY <2>1, <2>2, <2>5, <2>7, <2>8 DEF ReturnInv, N, T, P, B
<1>7. CASE LeaveLoop
  <2>1. /\ i > Len(fields) /\ i' = 1 /\ atom' = atom /\ errorCount' = errorCount
        /\ signature' = signature /\ decl' = decl /\ fields' = fields
        /\ \/ loop = "number" /\ loop' = "types"
           \/ loop = "types" /\ loop' = "chain"
           \/ loop = "chain" /\ loop' = "build"
           \/ loop = "build" /\ loop' = "done"
    BY <1>7 DEF LeaveLoop, Leave, fields
  <2>2. i = n + 1
    BY <1>0, <2>1
  <2>3. /\ NumberPassed' = NumberPassed /\ TypePassed' = TypePassed
        /\ PositionPassed' = PositionPassed /\ BuildPassed' = BuildPassed
    BY <1>0, <2>1, <2>2 DEF NumberPassed, TypePassed, PositionPassed, BuildPassed
  <2> QED BY <2>1, <2>3 DEF ReturnInv
<1>8. CASE Returned \/ UNCHANGED vars
  <2>1. /\ i' = i /\ loop' = loop /\ atom' = atom /\ errorCount' = errorCount
        /\ signature' = signature /\ decl' = decl /\ fields' = fields
    BY <1>8 DEF Returned, vars, fields
  <2>2. /\ NumberPassed' = NumberPassed /\ TypePassed' = TypePassed
        /\ PositionPassed' = PositionPassed /\ BuildPassed' = BuildPassed
    BY <2>1 DEF NumberPassed, TypePassed, PositionPassed, BuildPassed
  <2> QED BY <2>1, <2>2 DEF ReturnInv
<1> QED BY <1>3, <1>4, <1>5, <1>6, <1>7, <1>8 DEF Next

\* The four loops, run one after the other over a shared error count, return
\* what the one-piece definition says that Collation calls, for accepted and
\* rejected atoms alike: the two models of collate_atom are one.
THEOREM ReturnCorrect == Spec => []ReturnsCollatedAtom
<1>1. Init => ReturnInv
  <2> SUFFICES ASSUME Init PROVE ReturnInv
    OBVIOUS
  <2>1. atom \in AtomProtos
    BY AtomsAssumption DEF Init
  <2>2. loop = "number" /\ i = 1 /\ errorCount = 0 /\ signature = <<>> /\ decl = EmptyDecl
    BY DEF Init
  <2>3. NumberPassed = 0 /\ TypePassed = 0 /\ PositionPassed = 0 /\ BuildPassed = 0
    BY <2>2 DEF NumberPassed, TypePassed, PositionPassed, BuildPassed
  <2>4. /\ Total(NumberErrors(atom), atom, 0) = 0 /\ Total(TypeErrors(atom), atom, 0) = 0
        /\ Total(PositionErrors(atom), atom, 0) = 0 /\ Total(BuildErrors(atom), atom, 0) = 0
    BY <2>1, TotalEach
  <2>5. decl = DeclAfter(atom)[0]
    BY <2>1, <2>2, DeclAfterEach
  <2>6. signature = [k \in 1 .. 0 |-> FieldSignatureType(atom, fields[k])]
    BY <2>2
  <2> QED BY <2>2, <2>3, <2>4, <2>5, <2>6 DEF ReturnInv
<1>2. IInv /\ ReturnInv => ReturnsCollatedAtom
  <2> SUFFICES ASSUME IInv, ReturnInv, Done
               PROVE  [errorCount |-> errorCount, signature |-> signature, decl |-> decl]
                         = collate_atom(atom)
    BY DEF ReturnsCollatedAtom
  <2> DEFINE n == Len(fields)
  <2>1. atom \in AtomProtos /\ n \in Nat /\ n \in 0 .. n
    BY AtomFacts DEF IInv, TypeOK, fields
  <2>2. NumberPassed = n /\ TypePassed = n /\ PositionPassed = n /\ BuildPassed = n
    BY DEF Done, NumberPassed, TypePassed, PositionPassed, BuildPassed
  <2>3. errorCount = ErrorsAfter(atom)[n]
    BY <2>1, <2>2, TotalsAddUp DEF ReturnInv, fields
  <2>4. signature = [k \in 1 .. n |-> FieldSignatureType(atom, fields[k])] /\ decl = DeclAfter(atom)[n]
    BY <2>2 DEF ReturnInv
  <2> QED BY <2>1, <2>3, <2>4, CollateAtomUnfolded DEF fields
<1> QED BY IInvCorrect, CountInvCorrect, ReturnStep, <1>1, <1>2, PTL DEF Spec
=============================================================================
