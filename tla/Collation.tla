------------------------------ MODULE Collation ------------------------------
(***************************************************************************)
(* collate_atoms: the fields of the Atom message, then its extensions, are *)
(* collated one by one into the tables the writers generate code from.     *)
(* Each step is one call of collate_from_field_descriptor and ends at one  *)
(* of its returns.  The order of the extensions is the descriptor pool's   *)
(* own (FindAllExtensions), so any of those left may come next.            *)
(*                                                                         *)
(* A table maps a signature to the set of <<field number, atom id>> of the *)
(* annotated fields of the atoms with that signature.                      *)
(***************************************************************************)
EXTENDS CollateField, SequencesExt

CONSTANT Messages      \* the Atom messages, with the module that is asked for

VARIABLES
  message,             \* the message being collated, with moduleName
  i,                   \* position in the regular fields
  extensions,          \* the extension fields not collated yet
  errorCount,
  returned,            \* collate_atoms has returned errorCount
  signatureInfoMap, pulledAtomsSignatureInfoMap, nonChainedSignatureInfoMap,   \* atoms
  decls, non_chained_decls

atoms == <<signatureInfoMap, pulledAtomsSignatureInfoMap, nonChainedSignatureInfoMap,
           decls, non_chained_decls>>
vars == <<message, i, extensions, errorCount, returned, atoms>>

-----------------------------------------------------------------------------
(* The input. *)

DEFAULT_MODULE_NAME  == "DEFAULT"

\* A field of the Atom message; fields and isUintAllowed belong to its type.
AtomFields ==
    {f \in [number : Nat \ {0}, isMessage : BOOLEAN, modules : SUBSET STRING,
            truncate : BOOLEAN, category : Optional(Int), restriction : BOOLEAN,
            fields : Seq(FieldProtos), isUintAllowed : BOOLEAN] : ByNumber(f.fields)}

\* Field numbers, of regular and extension fields alike, are unique.
AtomMessages ==
    {m \in [regular : Seq(AtomFields), extensions : SUBSET AtomFields, moduleName : STRING] :
        /\ \A j, k \in DOMAIN m.regular : m.regular[j].number = m.regular[k].number => j = k
        /\ \A e, f \in m.extensions : e.number = f.number => e = f
        /\ \A k \in DOMAIN m.regular, e \in m.extensions : m.regular[k].number # e.number}

ASSUME MessagesAssumption == Messages \subseteq AtomMessages

\* Mistake: the platform's pulled atoms do not end before the vendors' numbers.
Pulled_NoEnd(f) ==
  \/ 10000 <= f.number /\ f.number <= 100000
  \/ 150000 <= f.number /\ f.number <= 199999

\* getAtomType: the platform's and the vendors' ranges of pulled atoms.
Pulled(f) ==
  \/ 10000 <= f.number /\ f.number <= 99999
  \/ 150000 <= f.number /\ f.number <= 199999

InModule(m, f) == m.moduleName = DEFAULT_MODULE_NAME \/ m.moduleName \in f.modules

Restricted(f) == f.category # {}

AtomOf(f) == [fields |-> f.fields, restricted |-> Restricted(f), isUintAllowed |-> f.isUintAllowed]

\* Mistake: the restriction category only makes the atom restricted.
AtomIdAnnotations_NoCategory(f) ==
    When(f.truncate, {<<ATOM_ID_FIELD_NUMBER, "TRUNCATE_TIMESTAMP", TRUE>>})

AtomIdAnnotations(f) ==
    When(f.truncate, {<<ATOM_ID_FIELD_NUMBER, "TRUNCATE_TIMESTAMP", TRUE>>})
    \cup {<<ATOM_ID_FIELD_NUMBER, "RESTRICTION_CATEGORY", c>> : c \in f.category}

-----------------------------------------------------------------------------
(* get_non_chained_node: the variant of an atom that has the two fields of  *)
(* AttributionNode in place of the chain.  It carries no annotations.       *)

AttributionNode ==
    LET node(n, t) == [number |-> n, type |-> t, repeated |-> FALSE, bytes |-> FALSE,
                       state |-> {}, restriction |-> {}, category |-> FALSE, isUid |-> FALSE]
    IN [fields |-> <<node(1, "int32"), node(2, "string")>>,
        restricted |-> FALSE, isUintAllowed |-> FALSE]

\* Every unsigned field is taken for allowed here.
FlatType(f) == java_type(f, TRUE)

HasChain(fields) == \E k \in DOMAIN fields : FlatType(fields[k]) = "ATTRIBUTION_CHAIN"

\* chainTypes in place of the chain, typeOf of the type of every other field.
Flatten(fields, chainTypes, typeOf) ==
    FlattenSeq([k \in DOMAIN fields |->
        IF FlatType(fields[k]) = "ATTRIBUTION_CHAIN" THEN chainTypes
        ELSE <<typeOf[FlatType(fields[k])]>>])

InSignature == [t \in JavaTypes |-> NonChainedSignatureType(t)]
InFields    == [t \in JavaTypes |-> t]

\* Mistake: drop the chain instead of flattening it.
NonChainedSignature_Dropped(fields) == Flatten(fields, <<>>, InSignature)

NonChainedSignature(fields) ==
    Flatten(fields, collate_atom(AttributionNode).signature, InSignature)

NonChainedFields(fields) ==
    Flatten(fields, collate_atom(AttributionNode).decl.fields, InFields)

-----------------------------------------------------------------------------

Put(map, key, value) ==
    [k \in DOMAIN map \cup {key} |-> IF k = key THEN value ELSE map[k]]

\* Mistake: the last atom of a signature replaces the others.
AddAtom_Replace(table, signature, entries) == Put(table, signature, entries)

\* The table after the entries of an atom are added under its signature.
AddAtom(table, signature, entries) ==
    Put(table, signature,
        entries \cup (IF signature \in DOMAIN table THEN table[signature] ELSE {}))

EmptyMap == [key \in {} |-> {}]

Init ==
  /\ message \in Messages
  /\ i = 1
  /\ extensions = message.extensions
  /\ errorCount = 0
  /\ returned = FALSE
  /\ signatureInfoMap = EmptyMap
  /\ pulledAtomsSignatureInfoMap = EmptyMap
  /\ nonChainedSignatureInfoMap = EmptyMap
  /\ decls = EmptyMap
  /\ non_chained_decls = EmptyMap

InRegular == i <= Len(message.regular)

\* The fields collate_atoms may pass next: the regular ones in their order,
\* then any extension.
NextFields == IF InRegular THEN {message.regular[i]} ELSE extensions

Pass(f) ==
  /\ IF InRegular THEN i' = i + 1 /\ UNCHANGED extensions
                  ELSE extensions' = extensions \ {f} /\ UNCHANGED i
  /\ UNCHANGED <<message, returned>>

SkipOtherModule(f) ==
  /\ ~InModule(message, f)
  /\ Pass(f)
  /\ UNCHANGED <<errorCount, atoms>>

RejectNonMessage(f) ==
  /\ InModule(message, f) /\ ~f.isMessage
  /\ Pass(f)
  /\ errorCount' = errorCount + 1
  /\ UNCHANGED atoms

RejectRestrictedPulled(f) ==
  /\ InModule(message, f) /\ f.isMessage
  /\ Restricted(f) /\ Pulled(f)
  /\ Pass(f)
  /\ errorCount' = errorCount + 1
  /\ UNCHANGED atoms

PrimaryWithoutExclusive(d) == d.primaryFields # <<>> /\ d.exclusiveField = 0

RejectUnownedPrimary(f) ==
  LET collated == collate_atom(AtomOf(f)) IN
  /\ InModule(message, f) /\ f.isMessage /\ ~(Restricted(f) /\ Pulled(f))
  /\ PrimaryWithoutExclusive(collated.decl)
  /\ Pass(f)
  /\ errorCount' = errorCount + collated.errorCount + 1
  /\ UNCHANGED atoms

SignatureOf(f) == collate_atom(AtomOf(f)).signature

\* What is kept of atom f: its AtomDecl, with the annotations of the atom id.
DeclOf(f) ==
  LET d == collate_atom(AtomOf(f)).decl IN
  [atomType |-> IF Pulled(f) THEN "pulled" ELSE "pushed", restricted |-> Restricted(f),
   decl |-> [d EXCEPT !.annotations = AtomIdAnnotations(f) \cup @]]

\* populateFieldNumberToAtomDeclSet: the annotated fields of the atom.
EntriesOf(f) == {<<a[1], f.number>> : a \in DeclOf(f).decl.annotations}

\* The atom goes into the tables, whatever errors it has.
Insert(f) ==
  /\ IF Pulled(f)
     THEN /\ pulledAtomsSignatureInfoMap' =
                 AddAtom(pulledAtomsSignatureInfoMap, SignatureOf(f), EntriesOf(f))
          /\ UNCHANGED signatureInfoMap
     ELSE /\ signatureInfoMap' = AddAtom(signatureInfoMap, SignatureOf(f), EntriesOf(f))
          /\ UNCHANGED pulledAtomsSignatureInfoMap
  /\ decls' = Put(decls, f.number, DeclOf(f))

\* Mistake: index the non-chained variant by the annotations of the atom.
InsertNonChained_Annotated(f) ==
  IF HasChain(f.fields)
  THEN /\ nonChainedSignatureInfoMap' =
              AddAtom(nonChainedSignatureInfoMap, NonChainedSignature(f.fields), EntriesOf(f))
       /\ non_chained_decls' = Put(non_chained_decls, f.number, NonChainedFields(f.fields))
  ELSE UNCHANGED <<nonChainedSignatureInfoMap, non_chained_decls>>

\* The AtomDecl of the non-chained variant has no annotations to index.
InsertNonChained(f) ==
  IF HasChain(f.fields)
  THEN /\ nonChainedSignatureInfoMap' =
              AddAtom(nonChainedSignatureInfoMap, NonChainedSignature(f.fields), {})
       /\ non_chained_decls' = Put(non_chained_decls, f.number, NonChainedFields(f.fields))
  ELSE UNCHANGED <<nonChainedSignatureInfoMap, non_chained_decls>>

\* Mistake: the errors of the last atom replace those of the others.
CollateAtomField_ErrorAssigned(f) ==
  LET collated == collate_atom(AtomOf(f)) IN
  /\ InModule(message, f) /\ f.isMessage /\ ~(Restricted(f) /\ Pulled(f))
  /\ ~PrimaryWithoutExclusive(collated.decl)
  /\ Pass(f)
  /\ Insert(f)
  /\ InsertNonChained(f)
  /\ errorCount' = collated.errorCount + Count(f.restriction)

\* Mistake: report the field_restriction_option of an atom but do not count it.
CollateAtomField_LateErrorLost(f) ==
  LET collated == collate_atom(AtomOf(f)) IN
  /\ InModule(message, f) /\ f.isMessage /\ ~(Restricted(f) /\ Pulled(f))
  /\ ~PrimaryWithoutExclusive(collated.decl)
  /\ Pass(f)
  /\ Insert(f)
  /\ InsertNonChained(f)
  /\ errorCount' = errorCount + collated.errorCount

\* The field_restriction_option of an atom is an error found after the insertion.
CollateAtomField(f) ==
  LET collated == collate_atom(AtomOf(f)) IN
  /\ InModule(message, f) /\ f.isMessage /\ ~(Restricted(f) /\ Pulled(f))
  /\ ~PrimaryWithoutExclusive(collated.decl)
  /\ Pass(f)
  /\ Insert(f)
  /\ InsertNonChained(f)
  /\ errorCount' = errorCount + collated.errorCount + Count(f.restriction)

Return ==
  /\ ~InRegular /\ extensions = {}
  /\ returned' = TRUE
  /\ UNCHANGED <<message, i, extensions, errorCount, atoms>>

Next ==
  \/ \E f \in NextFields :
       \/ SkipOtherModule(f)
       \/ RejectNonMessage(f)
       \/ RejectRestrictedPulled(f)
       \/ RejectUnownedPrimary(f)
       \/ CollateAtomField(f)
  \/ Return

\* The loops run to their end: nothing they do can block.
Spec == Init /\ [][Next]_vars /\ WF_vars(Next)

-----------------------------------------------------------------------------

Fields(m) == {m.regular[k] : k \in DOMAIN m.regular} \cup m.extensions

\* The fields collated so far.
Taken == {message.regular[k] : k \in 1 .. i - 1} \cup (message.extensions \ extensions)

\* The fields that are not skipped or rejected.
Inserted ==
    {f \in Taken : /\ InModule(message, f) /\ f.isMessage /\ ~(Restricted(f) /\ Pulled(f))
                   /\ ~PrimaryWithoutExclusive(collate_atom(AtomOf(f)).decl)}

\* A table of pushed or of pulled atoms holds atoms of that kind only.
Holds(table, atomType) ==
    \A s \in DOMAIN table : \A e \in table[s] : e[2] \in DOMAIN decls /\ decls[e[2]].atomType = atomType

\* The variables keep their types: the tables refer to atoms there are, of the
\* table's kind, and to none in the non-chained table.
TypeOK ==
  /\ message \in AtomMessages
  /\ i \in 1 .. Len(message.regular) + 1
  /\ extensions \subseteq message.extensions
  /\ errorCount \in Nat
  /\ returned \in BOOLEAN
  /\ Holds(signatureInfoMap, "pushed")
  /\ Holds(pulledAtomsSignatureInfoMap, "pulled")
  /\ \A s \in DOMAIN nonChainedSignatureInfoMap : nonChainedSignatureInfoMap[s] = {}
  /\ DOMAIN non_chained_decls \subseteq DOMAIN decls

\* What the fields F leave in the table of their kind.
TableOf(F) ==
    [s \in {SignatureOf(f) : f \in F} |->
        UNION {EntriesOf(f) : f \in {g \in F : SignatureOf(g) = s}}]

\* Whatever order the pool lists the extensions in, the tables depend only on
\* which fields have been collated; and no atom hides another of its signature.
OrderIndependent ==
  /\ signatureInfoMap = TableOf({f \in Inserted : ~Pulled(f)})
  /\ pulledAtomsSignatureInfoMap = TableOf({f \in Inserted : Pulled(f)})
  /\ DOMAIN decls = {f.number : f \in Inserted}
  /\ \A f \in Inserted : decls[f.number] = DeclOf(f)

ErrorsOf(f) ==
    IF ~InModule(message, f) THEN 0
    ELSE IF ~f.isMessage \/ (Restricted(f) /\ Pulled(f)) THEN 1
    ELSE LET collated == collate_atom(AtomOf(f))
         IN collated.errorCount
            + (IF PrimaryWithoutExclusive(collated.decl) THEN 1 ELSE Count(f.restriction))

\* collate_atoms "returns the number of errors" (Collation.h:251): those of the
\* fields collated so far, none lost or counted twice at any return.
ErrorsAddUp == errorCount = MapThenSumSet(ErrorsOf, Taken)

Accepted == returned /\ errorCount = 0

\* The writers look the annotations of an atom up by argument position, first
\* in the table entry of the signature they write, then with .at() in the
\* AtomDecl (native_writer.cpp:40-55).  In a collation without errors they find every
\* annotation that way, and nothing the AtomDecl does not have.
AnnotationsFoundByPosition ==
  Accepted =>
    \A n \in DOMAIN decls :
      LET table == IF decls[n].atomType = "pulled" THEN pulledAtomsSignatureInfoMap ELSE signatureInfoMap
          d == decls[n].decl
          found(s) == {p \in {ATOM_ID_FIELD_NUMBER} \cup DOMAIN s : <<p, n>> \in table[s]}
      IN {a[1] : a \in d.annotations} = UNION {found(s) : s \in DOMAIN table}
         /\ \A s \in DOMAIN table : found(s) # {} => Len(s) = Len(d.fields)

\* The argument an argument of the non-chained variant is passed on as.
PassedOnAs(jt) == IF jt = "ENUM_ARRAY" THEN "INT_ARRAY" ELSE jt

\* The generated non-chained method packs its first two arguments into a chain
\* and calls the chained method (native_writer.cpp:354-383, utils.cpp:549-587).
\* For a pushed atom these are an int and a string, no chain is left, and the
\* method that is called is generated too.
NonChainedCallsChained ==
  Accepted =>
    \A n \in {m \in DOMAIN non_chained_decls : decls[m].atomType = "pushed"} :
      \E s \in DOMAIN nonChainedSignatureInfoMap :
        /\ Len(s) = Len(non_chained_decls[n]) /\ Len(s) >= 2
        /\ s[1] = "INT" /\ s[2] = "STRING"
        /\ \A k \in DOMAIN s : s[k] # "ATTRIBUTION_CHAIN"
        /\ \A k \in 3 .. Len(s) : SignatureType(non_chained_decls[n][k], FALSE) = PassedOnAs(s[k])
        /\ <<"ATTRIBUTION_CHAIN">> \o [k \in 1 .. Len(s) - 2 |-> PassedOnAs(s[k + 2])]
              \in DOMAIN signatureInfoMap

Grows(table, later) == \A s \in DOMAIN table : s \in DOMAIN later /\ table[s] \subseteq later[s]

\* What is found stays found: whatever fields come next, no error is taken back,
\* no AtomDecl changes and no entry leaves a table; and the caller of
\* collate_atoms is handed tables nobody writes to again.
NothingTakenBack ==
  [][/\ errorCount <= errorCount'
     /\ \A n \in DOMAIN decls : n \in DOMAIN decls' /\ decls'[n] = decls[n]
     /\ Grows(signatureInfoMap, signatureInfoMap')
     /\ Grows(pulledAtomsSignatureInfoMap, pulledAtomsSignatureInfoMap')
     /\ Grows(nonChainedSignatureInfoMap, nonChainedSignatureInfoMap')
     /\ returned => UNCHANGED <<errorCount, returned, atoms>>]_vars

-----------------------------------------------------------------------------
(* What collate_atoms promises its caller, stated on the message itself.    *)

\* Who numbers an atom, and which part of the numbers is for pulled ones: from
\* 10000 on for the platform (atoms.proto:1190), whose numbers are below 100000,
\* and the upper half for the others (atoms.proto:1437-1438; the tests have
\* pushed_atom_100000 and pulled_atom_199999).  200000 and above are not pulled.
DeclaredPulled(f) ==
  IF f.number < 100000 THEN f.number >= 10000
  ELSE f.number < 200000 /\ f.number - 100000 >= 200000 - f.number

AtomAllowed(f) ==
  /\ f.isMessage
  /\ ~(Restricted(f) /\ DeclaredPulled(f))
  /\ WellFormed(AtomOf(f))
  \* A primary key belongs to the state of an exclusive field.
  /\ (\E k \in DOMAIN f.fields : \E o \in f.fields[k].state : o.primary \/ o.firstUid)
       => \E k \in DOMAIN f.fields : IsExclusive(f.fields[k])
  /\ ~f.restriction

MessageAllowed(m) == \A f \in Fields(m) : InModule(m, f) => AtomAllowed(f)

DeclaredAtomAnnotations(f) == AtomIdAnnotations(f) \cup DeclaredAnnotations(AtomOf(f))

DeclaredTable(F) ==
    [s \in {DeclaredSignature(AtomOf(f)) : f \in F} |->
        {e \in UNION {{<<a[1], f.number>> : a \in DeclaredAtomAnnotations(f)} : f \in F} :
            \E f \in F : f.number = e[2] /\ DeclaredSignature(AtomOf(f)) = s}]

DeclaredAtoms(m) ==
    LET selected == {f \in Fields(m) : InModule(m, f)}
    IN [pushed |-> DeclaredTable({f \in selected : ~DeclaredPulled(f)}),
        pulled |-> DeclaredTable({f \in selected : DeclaredPulled(f)}),
        annotations |-> {<<f.number, DeclaredAtomAnnotations(f)>> : f \in selected}]

NoAtoms == [pushed |-> EmptyMap, pulled |-> EmptyMap, annotations |-> {}]

\* collate_atoms implements its contract: no error is counted exactly when every
\* atom of the module is allowed, and then no atom is missing from the tables
\* the code is generated from.
Contract == INSTANCE CollationContract
    WITH Inputs        <- AtomMessages,
         input         <- message,
         WellFormed    <- MessageAllowed,
         Declaration   <- DeclaredAtoms,
         NoDeclaration <- NoAtoms,
         verdict  <- IF ~returned THEN "pending" ELSE IF Accepted THEN "accepted" ELSE "rejected",
         declared <- IF ~Accepted THEN NoAtoms
                     ELSE [pushed |-> signatureInfoMap, pulled |-> pulledAtomsSignatureInfoMap,
                           annotations |-> {<<n, decls[n].decl.annotations>> : n \in DOMAIN decls}]

ImplementsContract == Contract!Spec

-----------------------------------------------------------------------------
(* A statement of comments that does not hold.                              *)

\* Collation.cpp:472, 529: all enums are treated as ints when it comes to
\* function signatures.
EnumsAreInts ==
  \A s \in DOMAIN signatureInfoMap \cup DOMAIN pulledAtomsSignatureInfoMap
             \cup DOMAIN nonChainedSignatureInfoMap :
    \A k \in DOMAIN s : s[k] \notin {"ENUM", "ENUM_ARRAY"}
=============================================================================
