---------------------------- MODULE CollateAtom ----------------------------
(***************************************************************************)
(* collate_atom: four loops over the fields of one atom, in field number   *)
(* order.  The first three only check (numbering, types, position of the   *)
(* attribution chain), the fourth builds the signature and the AtomDecl.   *)
(* An error is counted and the loops go on: they never stop early.         *)
(***************************************************************************)
EXTENDS CollateField

CONSTANT Atoms          \* the atom messages under collation

ASSUME AtomsAssumption == Atoms \subseteq AtomProtos

VARIABLES
  atom,                 \* the message being collated
  loop,                 \* the loop the function is in, or "done"
  i,                    \* position of that loop's iterator
  expectedNumber,
  errorCount,
  signature,
  decl                  \* atomDecl

vars == <<atom, loop, i, expectedNumber, errorCount, signature, decl>>

fields == atom.fields
field  == fields[i]

Init ==
  /\ atom \in Atoms
  /\ loop = "number"
  /\ i = 1
  /\ expectedNumber = 1
  /\ errorCount = 0
  /\ signature = <<>>
  /\ decl = EmptyDecl

\* One iteration of loop l.
Iterate(l) ==
  /\ loop = l
  /\ i <= Len(fields)
  /\ i' = i + 1
  /\ UNCHANGED <<atom, loop>>

\* The iterator of loop l reaches the end: on to loop next.
Leave(l, next) ==
  /\ loop = l
  /\ i > Len(fields)
  /\ loop' = next
  /\ i' = 1
  /\ UNCHANGED <<atom, expectedNumber, errorCount, signature, decl>>

NumberAsExpected ==
  /\ Iterate("number")
  /\ field.number = expectedNumber
  /\ expectedNumber' = expectedNumber + 1
  /\ UNCHANGED <<errorCount, signature, decl>>

\* Mistake: after a gap, resynchronise on the successor of the number found.
NumberMismatch_Resync ==
  /\ Iterate("number")
  /\ field.number # expectedNumber
  /\ expectedNumber' = field.number + 1
  /\ errorCount' = errorCount + 1
  /\ UNCHANGED <<signature, decl>>

\* What is expected next is the number found, whatever the position of the field.
NumberMismatch ==
  /\ Iterate("number")
  /\ field.number # expectedNumber
  /\ expectedNumber' = field.number
  /\ errorCount' = errorCount + 1
  /\ UNCHANGED <<signature, decl>>

CheckType ==
  /\ Iterate("types")
  /\ errorCount' = errorCount + TypeError(atom, field)
  /\ UNCHANGED <<expectedNumber, signature, decl>>

CheckChainPosition ==
  /\ Iterate("chain")
  /\ errorCount' = errorCount + PositionError(atom, field)
  /\ UNCHANGED <<expectedNumber, signature, decl>>

\* Mistake: leave the fields of an invalid type out of the signature.
BuildField_SkipInvalid ==
  /\ Iterate("build")
  /\ signature' = IF java_type(field, atom.isUintAllowed) = "UNKNOWN" THEN signature
                  ELSE Append(signature, FieldSignatureType(atom, field))
  /\ errorCount' = errorCount + AnnotationErrors(atom, decl, field, java_type(field, atom.isUintAllowed))
  /\ decl' = BuiltDecl(atom, decl, field)
  /\ UNCHANGED expectedNumber

\* Mistake: check each field against a fresh AtomDecl.
BuildField_FreshDecl ==
  /\ Iterate("build")
  /\ signature' = Append(signature, FieldSignatureType(atom, field))
  /\ errorCount' = errorCount + AnnotationErrors(atom, EmptyDecl, field, java_type(field, atom.isUintAllowed))
  /\ decl' = BuiltDecl(atom, decl, field)
  /\ UNCHANGED expectedNumber

BuildField ==
  /\ Iterate("build")
  /\ signature' = Append(signature, FieldSignatureType(atom, field))
  /\ errorCount' = errorCount + AnnotationErrors(atom, decl, field, java_type(field, atom.isUintAllowed))
  /\ decl' = BuiltDecl(atom, decl, field)
  /\ UNCHANGED expectedNumber

LeaveLoop ==
  \/ Leave("number", "types")
  \/ Leave("types", "chain")
  \/ Leave("chain", "build")
  \/ Leave("build", "done")

\* collate_atom has returned.
Returned == loop = "done" /\ UNCHANGED vars

Next ==
  \/ NumberAsExpected \/ NumberMismatch
  \/ CheckType
  \/ CheckChainPosition
  \/ BuildField
  \/ LeaveLoop
  \/ Returned

\* The function runs to its return: nothing it does can block.
Spec == Init /\ [][Next]_vars /\ WF_vars(Next)

-----------------------------------------------------------------------------

Loops == {"number", "types", "chain", "build", "done"}

\* How many fields each loop has been over.
NumberPassed   == IF loop = "number" THEN i - 1 ELSE Len(fields)
TypePassed     == CASE loop = "number" -> 0 [] loop = "types" -> i - 1 [] OTHER -> Len(fields)
PositionPassed == CASE loop \in {"number", "types"} -> 0 [] loop = "chain" -> i - 1 [] OTHER -> Len(fields)
BuildPassed    == CASE loop = "build" -> i - 1 [] loop = "done" -> Len(fields) [] OTHER -> 0

\* The variables keep their types: the iterator stays within the fields, and
\* the signature holds one type per field the build loop has been over.
TypeOK ==
  /\ atom \in AtomProtos
  /\ loop \in Loops
  /\ i \in 1 .. Len(fields) + 1
  /\ expectedNumber \in Nat
  /\ errorCount \in Nat
  /\ signature \in Seq(JavaTypes)
  /\ Len(signature) = BuildPassed
  /\ IsDecl(decl)

\* No error has been counted exactly while every field a loop has been over
\* obeys the rules that loop checks.
CleanSoFar ==
  /\ \A k \in 1 .. NumberPassed   : NumberAllowed(atom, k)
  /\ \A k \in 1 .. TypePassed     : TypeAllowed(atom, fields[k])
  /\ \A k \in 1 .. PositionPassed : PositionAllowed(atom, k)
  /\ \A k \in 1 .. BuildPassed    : AnnotationsAllowed(atom, k)

\* What the build loop has built, as long as there is no error.
BuiltAsDeclared ==
  /\ signature = [k \in 1 .. BuildPassed |-> ArgumentType(fields[k])]
  /\ decl.annotations = UNION {DeclaredFieldAnnotations(fields[k]) : k \in 1 .. BuildPassed}
  /\ decl.exclusiveField = 0 <=> \A k \in 1 .. BuildPassed : ~IsExclusive(fields[k])

\* The inductive invariant: the error count tells, at every iteration of every
\* loop, whether a rule has been found broken, and an atom without error is
\* built as its proto declares it.
IInv ==
  /\ TypeOK
  /\ errorCount = 0 <=> CleanSoFar
  /\ errorCount = 0 /\ loop = "number" => expectedNumber = i
  /\ errorCount = 0 => BuiltAsDeclared

Done     == loop = "done"
Accepted == Done /\ errorCount = 0

\* collate_atom implements its contract: it counts no error exactly for the
\* atoms that obey the rules of the proto, however its checks are split over
\* loops and early exits, and then declares what the proto declares.
Contract == INSTANCE CollationContract
    WITH Inputs   <- AtomProtos,
         input    <- atom,
         verdict  <- IF ~Done THEN "pending" ELSE IF Accepted THEN "accepted" ELSE "rejected",
         declared <- IF ~Accepted THEN NoDeclaration
                     ELSE [signature |-> signature, annotations |-> decl.annotations]

ImplementsContract == Contract!Spec

\* The loops, run one after the other over a shared error count, return what
\* the one-piece definition other components build on says, for accepted and
\* rejected atoms alike.
ReturnsCollatedAtom ==
  Done => [errorCount |-> errorCount, signature |-> signature, decl |-> decl] = collate_atom(atom)

\* However the gaps fall, the numbering loop counts one error per field whose
\* number is not its position, and none for the others.
OneErrorPerMisplacedField ==
  loop = "number" =>
    errorCount = Cardinality({k \in 1 .. i - 1 : fields[k].number # k})

\* AtomDecl keeps the primary key twice, in primaryFields and as annotations;
\* the caller decides by the first and the generated code carries the second.
\* They agree at every iteration, in rejected atoms too.
PrimaryKeyAgrees ==
  LET annotated(id) == {a[1] : a \in {b \in decl.annotations : b[2] = id}}
      listed == {decl.primaryFields[k] : k \in DOMAIN decl.primaryFields}
  IN /\ annotated("PRIMARY_FIELD") = listed \ {FIRST_UID_IN_CHAIN_ID}
     /\ annotated("PRIMARY_FIELD_FIRST_UID") # {} <=> FIRST_UID_IN_CHAIN_ID \in listed

\* In an accepted atom all state annotations belong to the one exclusive
\* field, and the AtomDecl's own copies hold the same values.
StateBelongsToExclusiveField ==
  Accepted =>
    \A a \in decl.annotations :
      /\ a[2] \in {"EXCLUSIVE_STATE", "DEFAULT_STATE", "TRIGGER_STATE_RESET", "STATE_NESTED"}
           => a[1] = decl.exclusiveField
      /\ a[2] = "DEFAULT_STATE" => a[3] = decl.defaultState
      /\ a[2] = "TRIGGER_STATE_RESET" => a[3] = decl.triggerStateReset
      /\ a[2] = "STATE_NESTED" => a[3] = decl.nested

-----------------------------------------------------------------------------
(* Statements of the documentation and of comments that do not hold.        *)

\* A numbering error tells what the number should be for the fields to be
\* "numbered consecutively starting at 1" (Collation.cpp:384-385): the position
\* of the field.  For 1, 3, 5, 6 the last is told the number of the field before it.
SuggestedNumberIsPosition ==
  loop = "number" /\ i <= Len(fields) /\ field.number # expectedNumber => expectedNumber = i
=============================================================================
