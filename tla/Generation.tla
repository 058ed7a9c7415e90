----------------------------- MODULE Generation -----------------------------
(***************************************************************************)
(* The collation and the writers together: what the writers make of the    *)
(* atoms collate_atoms returns without errors.  The behaviour is that of   *)
(* Collation; the writers only read its tables.                            *)
(***************************************************************************)
EXTENDS Collation, WriterErrors

API_U == 34

\* What the writers are called with.
CollatedAtoms ==
    [signatureInfoMap |-> signatureInfoMap,
     pulledAtomsSignatureInfoMap |-> pulledAtomsSignatureInfoMap,
     nonChainedSignatureInfoMap |-> nonChainedSignatureInfoMap,
     decls |-> {decls[n].decl.fields : n \in DOMAIN decls}]

Signatures == DOMAIN signatureInfoMap \cup DOMAIN pulledAtomsSignatureInfoMap

Chained == \E s \in DOMAIN signatureInfoMap : "ATTRIBUTION_CHAIN" \in TypesIn(s)

\* Every type the collation lets pass is known to the switch of every writer:
\* without errors in the atoms a writer fails for a repeated field and an API
\* level before T, for a chain in a vendor atom, or for Rust and level Q, and
\* for nothing else.
WritersTakeCollated ==
  Accepted =>
    \A minApiLevel \in {API_Q, 30, API_T, API_LEVEL_CURRENT} :
      /\ minApiLevel >= API_T \/ (\A s \in Signatures : ~HasRepeated(s)) =>
           /\ write_stats_log_cpp(CollatedAtoms, minApiLevel, FALSE) = 0
           /\ \A ws \in BOOLEAN : write_stats_log_java(CollatedAtoms, minApiLevel, ws) = 0
      /\ minApiLevel # API_Q => write_stats_log_rust(CollatedAtoms, minApiLevel) = 0
      /\ write_stats_log_cpp_vendor(CollatedAtoms) = 0
      /\ ~Chained => write_stats_log_java_vendor(CollatedAtoms) = 0

\* The code of a chain names its parameters, attrSize and the loop variables
\* once for all chains of a method (java_writer_q.cpp:77-143).  If the writer for
\* level Q finds no error, no method gets a second chain or one behind other
\* arguments, and the signatures are those QLogger takes.
QLoggerSignatures ==
  Accepted /\ write_java_methods_q_schema(signatureInfoMap) = 0 =>
    \A s \in DOMAIN signatureInfoMap : s \in Seq(QTypes) /\ ChainFirst(s)

-----------------------------------------------------------------------------

\* The atoms annotated at a position of a signature.
AtomDeclSet(table, s, position) == {e[2] : e \in {x \in table[s] : x[1] = position}}

contains_restricted(atomDeclSet) == \E n \in atomDeclSet : decls[n].restricted

get_max_requires_api_level(minApiLevel, atomDeclSet, s) ==
    IF contains_restricted(atomDeclSet) THEN API_U
    ELSE IF HasRepeated(s) THEN API_T
    ELSE IF minApiLevel <= API_Q THEN API_Q
    ELSE 0

\* The Java method for signature s in table.
RequiresApi(table, s, minApiLevel) ==
    get_max_requires_api_level(minApiLevel, AtomDeclSet(table, s, ATOM_ID_FIELD_NUMBER), s)

\* The signature of the method that logs atom n.
SignatureOfAtom(n) == [k \in DOMAIN decls[n].decl.fields |-> SignatureType(decls[n].decl.fields[k], FALSE)]

\* Java code can only log a restricted atom through a method that requires the
\* API level of restricted metrics, although the writer looks for such atoms
\* among those with annotations on the atom id only.
RestrictedRequiresU ==
  Accepted =>
    \A n \in DOMAIN decls :
      decls[n].restricted =>
        /\ SignatureOfAtom(n) \in DOMAIN signatureInfoMap
        /\ \A minApiLevel \in {API_Q, API_LEVEL_CURRENT} :
             RequiresApi(signatureInfoMap, SignatureOfAtom(n), minApiLevel) = API_U
=============================================================================
