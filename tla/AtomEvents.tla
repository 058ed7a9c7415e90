----------------------------- MODULE AtomEvents -----------------------------
(***************************************************************************)
(* What the generated methods log.  A writer emits one method per          *)
(* signature, or per atom in Rust, as a sequence of statements: set the    *)
(* atom id, write an argument, and after either the annotations of the     *)
(* atoms the table has at that position, each under a test of the atom     *)
(* code.  Here the writers emit those sequences from the tables of the     *)
(* collation, and Run executes one for an atom and its arguments.          *)
(*                                                                         *)
(* An argument is an int: its value only matters for the state field.      *)
(***************************************************************************)
EXTENDS Generation

\* Set the atom id, or write argument p.
Write(p) == [op |-> "write", position |-> p]

\* The annotations of atom n at position p: those always added, as <<id, value>>,
\* and <<state, value>> for the reset added when the argument has that state.
Annotate(n, p, always, onReset) ==
    [op |-> "annotate", code |-> n, position |-> p, always |-> always, onReset |-> onReset]

Positions(s) == <<ATOM_ID_FIELD_NUMBER>> \o [k \in DOMAIN s |-> k]

NO_STATE == -1

\* resetState and defaultState, as the loop over the annotations leaves them.
StateValue(d, p, id) ==
    LET values == {a[3] : a \in {x \in d.annotations : x[1] = p /\ x[2] = id}}
    IN IF values = {} THEN NO_STATE ELSE CHOOSE v \in values : TRUE

\* Mistake: a reset state is enough.
OnReset_AnyDefault(d, p) ==
    LET resetState == StateValue(d, p, "TRIGGER_STATE_RESET")
    IN When(resetState # NO_STATE, {<<resetState, StateValue(d, p, "DEFAULT_STATE")>>})

\* Both are needed for the test on the argument to be written.
OnReset(d, p) ==
    LET resetState   == StateValue(d, p, "TRIGGER_STATE_RESET")
        defaultState == StateValue(d, p, "DEFAULT_STATE")
    IN When(defaultState # NO_STATE /\ resetState # NO_STATE, {<<resetState, defaultState>>})

StateIds == {"TRIGGER_STATE_RESET", "DEFAULT_STATE"}

\* The constants get_restriction_category_str knows; another category gives an
\* empty name and code that does not compile.
RestrictionCategories == 1 .. 4

AnnotationsAt(d, p) == {<<a[2], a[3]>> : a \in {x \in d.annotations : x[1] = p}}

\* The other annotations, by their names in the generated code.
Always(d, p) ==
    {a \in AnnotationsAt(d, p) :
        /\ a[1] \notin StateIds
        /\ a[1] = "RESTRICTION_CATEGORY" => a[2] \in RestrictionCategories}

-----------------------------------------------------------------------------
(* native_writer.cpp and java_writer.cpp: one method for all atoms of a     *)
(* signature.  entries is the entry of the signature in its table.          *)

AtomDeclsAt(entries, p) == {e[2] : e \in {x \in entries : x[1] = p}}

\* Mistake: forget the test of the atom code.
write_annotations_AnyAtom(entries, p) ==
    SetToSeq({Annotate(m, p, Always(decls[n].decl, p), OnReset(decls[n].decl, p)) :
                m \in DOMAIN decls, n \in AtomDeclsAt(entries, p)})

write_annotations(entries, p) ==
    SetToSeq({Annotate(n, p, Always(decls[n].decl, p), OnReset(decls[n].decl, p)) :
                n \in AtomDeclsAt(entries, p)})

\* Mistake: add the annotations of an argument before it is written.
native_method_body_Before(s, entries) ==
    FlattenSeq([k \in 1 .. Len(s) + 1 |->
        write_annotations(entries, Positions(s)[k]) \o <<Write(Positions(s)[k])>>])

\* The body for AStatsEvent, and the one for StatsEventCompat.
native_method_body(s, entries) ==
    FlattenSeq([k \in 1 .. Len(s) + 1 |->
        <<Write(Positions(s)[k])>> \o write_annotations(entries, Positions(s)[k])])

\* Mistake: keep only one reset for all atoms of the signature.
write_java_annotations_NoReset(entries, p) ==
    SetToSeq({Annotate(n, p, Always(decls[n].decl, p), {}) : n \in AtomDeclsAt(entries, p)})

write_java_annotations(entries, p) ==
    SetToSeq({Annotate(n, p, Always(decls[n].decl, p), OnReset(decls[n].decl, p)) :
                n \in AtomDeclsAt(entries, p)})

java_method_body(s, entries) ==
    FlattenSeq([k \in 1 .. Len(s) + 1 |->
        <<Write(Positions(s)[k])>> \o write_java_annotations(entries, Positions(s)[k])])

-----------------------------------------------------------------------------
(* rust_writer.cpp: one method per atom without repeated fields, from its   *)
(* own AtomDecl.  A category is written as its number.                      *)

RustSupported(d) == ~HasRepeated(d.fields)

write_rust_annotations(n, d, p) ==
    IF \E a \in d.annotations : a[1] = p
    THEN <<Annotate(n, p, {a \in AnnotationsAt(d, p) : a[1] \notin StateIds}, OnReset(d, p))>>
    ELSE <<>>

\* Mistake: number the fields from 0 in the annotations too.
rust_method_body_ZeroBased(n, d) ==
    FlattenSeq([k \in 1 .. Len(d.fields) + 1 |->
        <<Write(Positions(d.fields)[k])>>
        \o write_rust_annotations(n, d, IF k = 1 THEN ATOM_ID_FIELD_NUMBER ELSE k - 2)])

rust_method_body(n, d) ==
    FlattenSeq([k \in 1 .. Len(d.fields) + 1 |->
        <<Write(Positions(d.fields)[k])>> \o write_rust_annotations(n, d, Positions(d.fields)[k])])

-----------------------------------------------------------------------------
(* Execution.  An AStatsEvent (or a StatsEvent.Builder) is the sequence of  *)
(* its fields; an annotation goes to the field written last.                *)

ResetAnnotation(st, args) ==
    {<<"TRIGGER_STATE_RESET", r[2]>> : r \in {x \in st.onReset : args[st.position] = x[1]}}

Execute(code, args, event, st) ==
    IF st.op = "write" THEN Append(event, [position |-> st.position, annotations |-> {}])
    ELSE IF st.code = code /\ event # <<>>
    THEN [event EXCEPT ![Len(event)].annotations = @ \cup st.always \cup ResetAnnotation(st, args)]
    ELSE event

Run(body, code, args) ==
    FoldLeft(LAMBDA event, st : Execute(code, args, event, st), <<>>, body)

-----------------------------------------------------------------------------
(* The vendor writers: an atom has its value and annotation lists apart.    *)
(* Argument 1 is the reverse domain name, value k the argument k + 2.       *)

ValueIndex(p) == p - 2

\* What the statements of a block add for an atom.
Added(st, args) == st.always \cup ResetAnnotation(st, args)

\* The statements of native_writer_vendor.cpp for argument p, or for the atom.
write_native_annotations_vendor_for_field(entries, p) ==
    {Annotate(n, p, Always(decls[n].decl, p), OnReset(decls[n].decl, p)) : n \in AtomDeclsAt(entries, p)}

\* Mistake: index the values by their argument.
vendor_native_atom_ByArgument(n, s, entries, args) ==
    LET at(p) == UNION {Added(st, args) :
                          st \in {x \in write_native_annotations_vendor_for_field(entries, p) : x.code = n}}
    IN [atomAnnotations   |-> at(ATOM_ID_FIELD_NUMBER),
        valuesAnnotations |-> {[valueIndex |-> p, annotations |-> at(p)] :
                                 p \in {q \in 2 .. Len(s) : at(q) # {}}}]

\* A set without annotations is not pushed.
vendor_native_atom(n, s, entries, args) ==
    LET at(p) == UNION {Added(st, args) :
                          st \in {x \in write_native_annotations_vendor_for_field(entries, p) : x.code = n}}
    IN [atomAnnotations   |-> at(ATOM_ID_FIELD_NUMBER),
        valuesAnnotations |-> {[valueIndex |-> ValueIndex(p), annotations |-> at(p)] :
                                 p \in {q \in 2 .. Len(s) : at(q) # {}}}]

BoolIds == FieldRestrictions \cup {"IS_UID", "TRUNCATE_TIMESTAMP", "PRIMARY_FIELD", "EXCLUSIVE_STATE",
                                   "PRIMARY_FIELD_FIRST_UID", "STATE_NESTED"}
IntIds == StateIds \cup {"RESTRICTION_CATEGORY"}

\* Mistake: count the state values, which are not written one by one.
annotationsCount_WithStates(d, p, args) ==
    Cardinality({a \in AnnotationsAt(d, p) : a[1] \in IntIds \cup BoolIds})

\* The length of the Java array: counted by the generator, and once more by the
\* generated code.
annotationsCount(d, p, args) ==
    Cardinality({a \in AnnotationsAt(d, p) : a[1] \in (IntIds \ StateIds) \cup BoolIds})
    + Count(\E r \in OnReset(d, p) : args[p] = r[1])

\* The annotations put into the array, at annotationIdx = 0, 1, ...
java_annotations_array(n, d, p, args) ==
    LET block == Annotate(n, p, Always(d, p), OnReset(d, p))
    IN SetToSeq(block.always) \o SetToSeq(ResetAnnotation(block, args))

\* Mistake: make the list for the atoms annotated at the first value only.
ListMade_First(n, s, entries) == Len(s) >= 2 /\ n \in AtomDeclsAt(entries, 2)

\* fieldsAnnotations is made for the atoms annotated at a value, before anything
\* is added to it.
ListMade(n, s, entries) == \E p \in 2 .. Len(s) : n \in AtomDeclsAt(entries, p)

\* The Java vendor atom: null where the code throws.
vendor_java_atom(n, s, entries, args) ==
    LET d == decls[n].decl
        annotated(p) == n \in AtomDeclsAt(entries, p)
        array(p) == IF annotated(p) THEN java_annotations_array(n, d, p, args) ELSE <<>>
        added == {q \in 2 .. Len(s) : annotated(q) /\ annotationsCount(d, q, args) > 0}
    IN [atomAnnotations   |-> ToSet(array(ATOM_ID_FIELD_NUMBER)),
        valuesAnnotations |-> {[valueIndex |-> ValueIndex(p), annotations |-> ToSet(array(p))] : p \in added},
        throws |-> \/ added # {} /\ ~ListMade(n, s, entries)
                   \/ \E p \in {ATOM_ID_FIELD_NUMBER} \cup 2 .. Len(s) :
                        annotated(p) /\ Len(array(p)) # annotationsCount(d, p, args)]

-----------------------------------------------------------------------------

\* Argument values that matter: a reset state of some atom, or none.
ArgumentValues ==
    {INT_MAX} \cup UNION {{a[3] : a \in {x \in decls[n].decl.annotations : x[2] = "TRIGGER_STATE_RESET"}} :
                            n \in DOMAIN decls}

ProtoOf(n) == CHOOSE f \in Fields(message) : f.number = n

\* The annotations the proto of the atom declares at p, for the arguments.
DeclaredAt(f, p, args) ==
    LET declared == {<<a[2], a[3]>> : a \in {x \in DeclaredAtomAnnotations(f) : x[1] = p}}
        of(id) == {a[2] : a \in {x \in declared : x[1] = id}}
    IN {a \in declared : a[1] \notin StateIds}
       \cup {<<"TRIGGER_STATE_RESET", v>> :
               v \in IF \E r \in of("TRIGGER_STATE_RESET") : args[p] = r THEN of("DEFAULT_STATE") ELSE {}}

\* -1 is the generator's mark for no state, and RESTRICTION_UNSET has no name.
Representable(f) ==
    /\ f.category \subseteq RestrictionCategories
    /\ \A k \in DOMAIN f.fields : \A o \in f.fields[k].state :
         o.exclusive => NO_STATE \notin o.default \cup o.reset

EntriesFor(n, s) ==
    IF decls[n].atomType = "pulled" THEN pulledAtomsSignatureInfoMap[s] ELSE signatureInfoMap[s]

\* Whoever logs an atom, and whatever other atoms its method is for, each of its
\* fields carries the annotations its proto declares, and the reset exactly when
\* the state is the reset state: the event is the same from the C++, Java and Rust code.
EventsAnnotated ==
  Accepted =>
    \A n \in {m \in DOMAIN decls : Representable(ProtoOf(m))} :
      LET f == ProtoOf(n)
          s == DeclaredSignature(AtomOf(f))
          entries == EntriesFor(n, s)
      IN \A args \in [DOMAIN s -> ArgumentValues] :
           LET event == [k \in 1 .. Len(s) + 1 |->
                           [position |-> Positions(s)[k],
                            annotations |-> DeclaredAt(f, Positions(s)[k], args)]]
           IN /\ Run(native_method_body(s, entries), n, args) = event
              /\ Run(java_method_body(s, entries), n, args) = event
              /\ RustSupported(decls[n].decl) => Run(rust_method_body(n, decls[n].decl), n, args) = event

\* The two vendor writers make the same atom: the annotations of the proto but for
\* those of argument 1, at the index of the value they are for; and the Java code
\* fills the arrays it allocates to the last slot.
VendorAtomsAgree ==
  Accepted =>
    \A n \in {m \in DOMAIN decls : decls[m].atomType = "pushed" /\ Representable(ProtoOf(m))} :
      LET f == ProtoOf(n)
          s == DeclaredSignature(AtomOf(f))
          entries == EntriesFor(n, s)
      IN \A args \in [DOMAIN s -> ArgumentValues] :
           LET values == {k \in 0 .. Len(s) - 2 : DeclaredAt(f, k + 2, args) # {}}
               atom == [atomAnnotations   |-> DeclaredAt(f, ATOM_ID_FIELD_NUMBER, args),
                        valuesAnnotations |-> {[valueIndex |-> k, annotations |-> DeclaredAt(f, k + 2, args)] :
                                                 k \in values}]
               java == vendor_java_atom(n, s, entries, args)
           IN /\ vendor_native_atom(n, s, entries, args) = atom
              /\ ~java.throws
              /\ [atomAnnotations |-> java.atomAnnotations, valuesAnnotations |-> java.valuesAnnotations] = atom
=============================================================================
