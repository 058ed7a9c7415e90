-------------------------- MODULE GeneratedMethods --------------------------
(***************************************************************************)
(* The methods of the generated files and the calls they make of each      *)
(* other.  The methods of a kind are overloads: they are told apart by the *)
(* types of their parameters alone, which are not the java_type_t of the   *)
(* signature.  A method is [name, params, signature], a call [name, args], *)
(* both without the atom code every one of them takes first.               *)
(***************************************************************************)
EXTENDS Generation

API_R == 30

Method(name, params, s) == [name |-> name, params |-> params, signature |-> s]
Call(name, args) == [name |-> name, args |-> args]

\* The parameters of signature s: chain in place of an attribution chain,
\* parameters[t] for another type.
Parameters(s, chain, parameters) ==
    FlattenSeq([k \in DOMAIN s |-> IF s[k] = "ATTRIBUTION_CHAIN" THEN chain ELSE parameters[s[k]]])

-----------------------------------------------------------------------------
(* C++ *)

cpp_type_name(t, isVendorAtomLogging) ==
  CASE t = "BOOLEAN" -> "bool"
    [] t \in {"INT", "ENUM"} -> "int32_t"
    [] t = "LONG" -> "int64_t"
    [] t = "FLOAT" -> "float"
    [] t = "STRING" -> "char const*"
    [] t = "BYTE_ARRAY" -> IF isVendorAtomLogging THEN "vector<uint8_t>" ELSE "BytesField"
    [] t = "BOOLEAN_ARRAY" -> IF isVendorAtomLogging THEN "vector<bool>" ELSE "bool*"
    [] t \in {"INT_ARRAY", "ENUM_ARRAY"} -> "vector<int32_t>"
    [] t = "LONG_ARRAY" -> "vector<int64_t>"
    [] t = "FLOAT_ARRAY" -> "vector<float>"
    [] t = "STRING_ARRAY" -> "vector<char const*>"
    [] OTHER -> "UNKNOWN"

\* An array of bools is a pointer and a length.
CppParameter(t, isVendorAtomLogging) ==
    <<cpp_type_name(t, isVendorAtomLogging)>>
    \o (IF t = "BOOLEAN_ARRAY" /\ ~isVendorAtomLogging THEN <<"size_t">> ELSE <<>>)

CppChain == <<"int32_t*", "size_t", "vector<char const*>">>

native_method_signature(name, s, isVendorAtomLogging) ==
    LET parameters == [t \in JavaTypes |-> CppParameter(t, isVendorAtomLogging)]
    IN Method(name, Parameters(s, CppChain, parameters), s)

CppMethods ==
    {native_method_signature("stats_write", s, FALSE) : s \in DOMAIN signatureInfoMap}
    \cup {native_method_signature("stats_write_non_chained", s, FALSE) : s \in DOMAIN nonChainedSignatureInfoMap}
    \cup {native_method_signature("addAStatsEvent", s, FALSE) : s \in DOMAIN pulledAtomsSignatureInfoMap}

CppVendorMethods == {native_method_signature("createVendorAtom", s, TRUE) : s \in DOMAIN signatureInfoMap}

\* The arguments passed on after the chain: argument j of signature s, and the
\* length of an array of bools.
CppArgument(s, j) ==
    <<cpp_type_name(s[j], FALSE)>> \o (IF s[j] = "BOOLEAN_ARRAY" THEN <<"size_t">> ELSE <<>>)

\* Mistake: number the arguments after the chain from 2.
native_non_chained_call_FromTwo(s) ==
    Call("stats_write", CppChain \o FlattenSeq([k \in 1 .. Len(s) - 2 |-> CppArgument(s, k + 1)]))

\* The first two arguments make the chain.
native_non_chained_call(s) ==
    Call("stats_write", CppChain \o FlattenSeq([k \in 1 .. Len(s) - 2 |-> CppArgument(s, k + 2)]))

CppCalls == {native_non_chained_call(s) : s \in DOMAIN nonChainedSignatureInfoMap}

-----------------------------------------------------------------------------
(* Java *)

java_type_name(t) ==
  CASE t = "BOOLEAN" -> "boolean"
    [] t \in {"INT", "ENUM"} -> "int"
    [] t = "LONG" -> "long"
    [] t = "FLOAT" -> "float"
    [] t = "STRING" -> "String"
    [] t = "BYTE_ARRAY" -> "byte[]"
    [] t = "BOOLEAN_ARRAY" -> "boolean[]"
    [] t \in {"INT_ARRAY", "ENUM_ARRAY"} -> "int[]"
    [] t = "LONG_ARRAY" -> "long[]"
    [] t = "FLOAT_ARRAY" -> "float[]"
    [] t = "STRING_ARRAY" -> "String[]"
    [] OTHER -> "UNKNOWN"

JavaParameter == [t \in JavaTypes |-> <<java_type_name(t)>>]
JavaChain == <<"int[]", "String[]">>

java_method_signature(name, s) == Method(name, Parameters(s, JavaChain, JavaParameter), s)

JavaMethods ==
    {java_method_signature("write", s) : s \in DOMAIN signatureInfoMap}
    \cup {java_method_signature("write_non_chained", s) : s \in DOMAIN nonChainedSignatureInfoMap}
    \cup {java_method_signature("buildStatsEvent", s) : s \in DOMAIN pulledAtomsSignatureInfoMap}

\* The methods of pushed atoms with a chain that take a WorkSource instead.
WithChain(table) == {s \in DOMAIN table : "ATTRIBUTION_CHAIN" \in TypesIn(s)}

WorkSourceMethods ==
    {Method("write", Parameters(s, <<"WorkSource">>, JavaParameter), s) : s \in WithChain(signatureInfoMap)}

\* The private class for API level Q has methods of its own.
QLoggerMethods == {java_method_signature("QLogger.write", s) : s \in DOMAIN signatureInfoMap}

java_non_chained_call(s) ==
    Call("write", JavaChain \o [k \in 1 .. Len(s) - 2 |-> java_type_name(s[k + 2])])

\* Mistake: pass the uid of a WorkSource without its name.
work_source_calls_NoName(s) ==
    {Call("write_non_chained", Parameters(s, <<"int">>, JavaParameter)),
     Call("write", Parameters(s, JavaChain, JavaParameter))}

\* Flat uids first, then the chains of the WorkSource.
work_source_calls(s) ==
    {Call("write_non_chained", Parameters(s, <<"int", "String">>, JavaParameter)),
     Call("write", Parameters(s, JavaChain, JavaParameter))}

q_logger_call(s) == Call("QLogger.write", Parameters(s, JavaChain, JavaParameter))

JavaCalls(supportWorkSource, minApiLevel) ==
    {java_non_chained_call(s) : s \in DOMAIN nonChainedSignatureInfoMap}
    \cup (IF supportWorkSource THEN UNION {work_source_calls(s) : s \in WithChain(signatureInfoMap)} ELSE {})
    \cup (IF minApiLevel = API_Q THEN {q_logger_call(s) : s \in DOMAIN signatureInfoMap} ELSE {})

AllJavaMethods(supportWorkSource, minApiLevel) ==
    JavaMethods \cup (IF supportWorkSource THEN WorkSourceMethods ELSE {})
                \cup (IF minApiLevel = API_Q THEN QLoggerMethods ELSE {})

-----------------------------------------------------------------------------
(* Rust: a module per atom, so nothing is overloaded. *)

rust_type_name(t) ==
  CASE t = "BOOLEAN" -> "bool"
    [] t \in {"INT", "ENUM"} -> "i32"
    [] t = "LONG" -> "i64"
    [] t = "FLOAT" -> "f32"
    [] t = "STRING" -> "&str"
    [] t = "BYTE_ARRAY" -> "&[u8]"
    [] OTHER -> "UNKNOWN"


\* A field of an enum has the Rust enum of the field as its type.
RustParameter == [t \in JavaTypes |-> IF t = "ENUM" THEN <<"enum">> ELSE <<rust_type_name(t)>>]
RustChain == <<"&[i32]", "&[&str]">>
PulledData(n) == IF decls[n].atomType = "pulled" THEN <<"&mut AStatsEventList">> ELSE <<>>

RustName(n) == IF decls[n].atomType = "pushed" THEN "stats_write" ELSE "add_astats_event"

RustMethods(n) ==
    LET fields == decls[n].decl.fields
    IN {Method(RustName(n), PulledData(n) \o Parameters(fields, RustChain, RustParameter), fields)}

\* Mistake: pass on the struct of a pulled atom without the list for its data.
rust_struct_call_NoData(n) ==
    Call(RustName(n), Parameters(decls[n].decl.fields, RustChain, RustParameter))

\* The method of the struct passes its fields on.
rust_struct_call(n) ==
    Call(RustName(n), PulledData(n) \o Parameters(decls[n].decl.fields, RustChain, RustParameter))

\* A slice of one element is made of each of the first two arguments.
rust_non_chained_call(fields) ==
    Call("stats_write",
         RustChain \o FlattenSeq([k \in 1 .. Len(fields) - 2 |-> RustParameter[fields[k + 2]]]))

RustCalls(n) ==
    {rust_struct_call(n)}
    \cup (IF n \in DOMAIN non_chained_decls THEN {rust_non_chained_call(non_chained_decls[n])} ELSE {})

-----------------------------------------------------------------------------

ChainedAtoms(atomType) == {n \in DOMAIN non_chained_decls : decls[n].atomType = atomType}

Distinct(methods) ==
    \A m, o \in methods : m.name = o.name /\ m.params = o.params => m = o

\* A chain comes with a repeated enum in some atom.
ChainWithEnums == \E n \in DOMAIN non_chained_decls : "ENUM_ARRAY" \in TypesIn(non_chained_decls[n])

\* Some signature has what a chain is in Java: ints followed by strings.
LooksChained ==
    \E s \in Signatures : \E k \in 1 .. Len(s) - 1 : s[k] = "INT_ARRAY" /\ s[k + 1] = "STRING_ARRAY"

\* No file declares a method twice, whatever the atoms, but for two cases the
\* collation lets pass: a repeated enum behind a chain (the non-chained overloads),
\* and in Java an atom that has the parameters of a chain as fields.
OverloadsDistinct ==
  Accepted =>
    /\ ~ChainWithEnums => Distinct(CppMethods)
    /\ Distinct(CppVendorMethods)
    /\ ~ChainWithEnums /\ ~LooksChained =>
         \A ws \in BOOLEAN : Distinct(AllJavaMethods(ws, API_Q))

Resolves(call, methods) == \E m \in methods : m.name = call.name /\ m.params = call.args

\* Every call the generated code makes of itself finds a method with exactly its
\* parameters, unless a pulled atom has a chain: its non-chained variant is written
\* all the same, and calls a method that is only there for pushed atoms.
CallsResolve ==
  Accepted /\ ChainedAtoms("pulled") = {} =>
    /\ \A c \in CppCalls : Resolves(c, CppMethods)
    /\ \A ws \in BOOLEAN, l \in {API_Q, API_LEVEL_CURRENT} :
         \A c \in JavaCalls(ws, l) : Resolves(c, AllJavaMethods(ws, l))
    /\ \A n \in {m \in DOMAIN decls : ~HasRepeated(decls[m].decl.fields)} :
         \A c \in RustCalls(n) : Resolves(c, RustMethods(n))

-----------------------------------------------------------------------------
(* The annotation constants the generated code names.  A name is            *)
(* <<prefix, name>>; that of a category stands for the four of them.        *)

API_S == 31

AnnotationIdsFromS == {"IS_UID", "TRUNCATE_TIMESTAMP", "PRIMARY_FIELD", "EXCLUSIVE_STATE",
                       "PRIMARY_FIELD_FIRST_UID", "DEFAULT_STATE", "TRIGGER_STATE_RESET", "STATE_NESTED"}

\* get_annotation_id_constants, with the API level each annotation came with.
AnnotationMinApiLevel ==
    [id \in AnnotationIdsFromS \cup FieldRestrictions \cup {"RESTRICTION_CATEGORY"} |->
        IF id \in AnnotationIdsFromS THEN API_S ELSE API_U]

\* The annotations the methods of an atom add.
IdsAdded(d) ==
    LET ids == {a[2] : a \in d.annotations}
    IN {id \in ids \ {"DEFAULT_STATE"} : id = "TRIGGER_STATE_RESET" => "DEFAULT_STATE" \in ids}

AllIdsAdded == UNION {IdsAdded(decls[n].decl) : n \in DOMAIN decls}

\* The name of an annotation, and with RESTRICTION_CATEGORY that of its value.
NamesOf(id, prefix) == {<<prefix, id>>} \cup When(id = "RESTRICTION_CATEGORY", {<<prefix, "CATEGORY_VALUE">>})

CppNames(minApiLevel) ==
    UNION {NamesOf(id, IF minApiLevel > API_R THEN "ASTATSLOG_" ELSE "") : id \in AllIdsAdded}

\* Mistake: a header for API level R has no constants of its own.
HeaderConstants_BeforeR(minApiLevel) ==
    When(minApiLevel < API_R, {<<"", id>> : id \in DOMAIN AnnotationMinApiLevel})

\* The header defines the annotations, and no category.
HeaderConstants(minApiLevel) ==
    When(minApiLevel <= API_R, {<<"", id>> : id \in DOMAIN AnnotationMinApiLevel})

\* stats_annotations.h, included by the C++ file.
PlatformConstants(minApiLevel) ==
    When(minApiLevel > API_R, UNION {NamesOf(id, "ASTATSLOG_") : id \in DOMAIN AnnotationMinApiLevel})

JavaNames ==
    UNION {NamesOf(id, IF AnnotationMinApiLevel[id] >= API_U THEN "StatsLog." ELSE "") : id \in AllIdsAdded}

\* The constants of the Java class itself.
write_java_annotation_constants ==
    {<<"", id>> : id \in {x \in DOMAIN AnnotationMinApiLevel : AnnotationMinApiLevel[x] < API_U}}

\* Every annotation constant a method names is defined, by the header or the class
\* that is generated with it or by the platform: the writer of the methods and that
\* of the constants draw the line at the same API level.  Restricted atoms are the
\* exception: for R and below no C++ header has their categories.
ConstantsDefined ==
  Accepted =>
    /\ \A l \in {API_Q, API_R, API_S, API_LEVEL_CURRENT} :
         l > API_R \/ (\A n \in DOMAIN decls : ~decls[n].restricted) =>
           CppNames(l) \subseteq HeaderConstants(l) \cup PlatformConstants(l)
    /\ {name \in JavaNames : name[1] = ""} \subseteq write_java_annotation_constants
=============================================================================
