---------------------------- MODULE WriterErrors ----------------------------
(***************************************************************************)
(* How many errors each writer returns for the collated atoms: which types *)
(* its switches know, what it refuses for an old API level, and how it     *)
(* adds up the errors of its parts.  A writer returns at its first error,  *)
(* so a part of it returns one error or none.  Constant operators.         *)
(*                                                                         *)
(* atoms has the three tables of Atoms (Collation) and, as decls, the java *)
(* types of the fields of every atom.                                      *)
(***************************************************************************)
EXTENDS JavaTypes, Sequences

API_Q == 29
API_T == 33
API_LEVEL_CURRENT == 10000

TypesIn(signature) == {signature[k] : k \in DOMAIN signature}
HasRepeated(signature) == \E t \in TypesIn(signature) : is_repeated_field(t)

IsSignatureInfoMap(table) ==
  \A s \in DOMAIN table : s \in Seq(JavaTypes) /\ \A e \in table[s] : e \in Int \X Nat

IsAtoms(atoms) ==
  /\ IsSignatureInfoMap(atoms.signatureInfoMap)
  /\ IsSignatureInfoMap(atoms.pulledAtomsSignatureInfoMap)
  /\ IsSignatureInfoMap(atoms.nonChainedSignatureInfoMap)
  /\ \A d \in atoms.decls : d \in Seq(JavaTypes)

PlainTypes == PrimitiveJavaTypes \cup {"BYTE_ARRAY"}
ChainedTypes == PlainTypes \cup {"ATTRIBUTION_CHAIN"}

-----------------------------------------------------------------------------
(* native_writer.cpp *)

write_native_method_body(s, minApiLevel) ==
    Count(\/ minApiLevel < API_T /\ HasRepeated(s)
          \/ ~(TypesIn(s) \subseteq ChainedTypes \cup RepeatedJavaTypes))

\* A bootstrap atom has no annotations, on the atom or on a field of it.
BootstrapErrors(s, entries) ==
    Count(\/ ~(TypesIn(s) \subseteq PlainTypes)
          \/ \E e \in entries : e[1] \in {ATOM_ID_FIELD_NUMBER} \cup DOMAIN s)

\* The body for the API level of StatsEventCompat.
CompatErrors(s) == Count(~(TypesIn(s) \subseteq ChainedTypes))

write_native_stats_write_methods(table, minApiLevel, bootstrap) ==
    Count(\E s \in DOMAIN table :
            IF bootstrap THEN BootstrapErrors(s, table[s]) # 0
            ELSE IF minApiLevel = API_Q THEN CompatErrors(s) # 0
            ELSE write_native_method_body(s, minApiLevel) # 0)

write_native_build_stats_event_methods(table, minApiLevel) ==
    Count(\E s \in DOMAIN table : write_native_method_body(s, minApiLevel) # 0)

\* The methods of pulled atoms are not written for bootstrap.
write_stats_log_cpp(atoms, minApiLevel, bootstrap) ==
    Count(\/ write_native_stats_write_methods(atoms.signatureInfoMap, minApiLevel, bootstrap) # 0
          \/ /\ ~bootstrap
             /\ write_native_build_stats_event_methods(
                    atoms.pulledAtomsSignatureInfoMap, minApiLevel) # 0)

-----------------------------------------------------------------------------
(* java_writer.cpp, java_writer_q.cpp, utils.cpp *)

\* The body knows every repeated type but that of enums, which no signature
\* of an accepted atom has.
write_method_body(s) ==
    Count(~(TypesIn(s) \subseteq ChainedTypes \cup (RepeatedJavaTypes \ {"ENUM_ARRAY"})))

write_java_pushed_methods(table, minApiLevel) ==
    Count(\E s \in DOMAIN table :
            write_method_body(s) # 0 \/ (minApiLevel = API_Q /\ HasRepeated(s)))

write_java_pulled_methods(table) == Count(\E s \in DOMAIN table : write_method_body(s) # 0)

write_java_non_chained_methods(table) ==
    Count(\E s \in DOMAIN table : "ATTRIBUTION_CHAIN" \in TypesIn(s))

write_java_work_source_methods(table) ==
    Count(\E s \in DOMAIN table : \E j, k \in DOMAIN s :
            j # k /\ s[j] = "ATTRIBUTION_CHAIN" /\ s[k] = "ATTRIBUTION_CHAIN")

write_java_methods_q_schema(table) ==
    Count(\E s \in DOMAIN table : ~(TypesIn(s) \subseteq QTypes))

\* The errors of the methods in the class are dropped.
write_java_q_logger_class(table) == 0

write_stats_log_java(atoms, minApiLevel, supportWorkSource) ==
    write_java_pushed_methods(atoms.signatureInfoMap, minApiLevel)
    + write_java_non_chained_methods(atoms.nonChainedSignatureInfoMap)
    + write_java_pulled_methods(atoms.pulledAtomsSignatureInfoMap)
    + (IF supportWorkSource THEN write_java_work_source_methods(atoms.signatureInfoMap) ELSE 0)
    + (IF minApiLevel = API_Q THEN write_java_q_logger_class(atoms.signatureInfoMap) ELSE 0)

-----------------------------------------------------------------------------
(* The vendor writers; neither writes the pulled atoms. *)

VendorTypes == PlainTypes \cup RepeatedJavaTypes

\* The loops over the fields start at the second one, the first being the
\* reverse domain name.
write_native_create_vendor_atom_methods(table) ==
    Count(\E s \in DOMAIN table : \E k \in 2 .. Len(s) : s[k] \notin VendorTypes)

write_stats_log_cpp_vendor(atoms) == write_native_create_vendor_atom_methods(atoms.signatureInfoMap)

\* With an empty attribution decl a chain fails at any position.
write_java_method_signature(s, attributionFields) ==
    Count("ATTRIBUTION_CHAIN" \in TypesIn(s) /\ attributionFields = <<>>)

write_method_body_vendor(s) == Count(\E k \in 2 .. Len(s) : s[k] \notin VendorTypes)

write_java_pushed_methods_vendor(table) ==
    Count(\E s \in DOMAIN table :
            write_java_method_signature(s, <<>>) # 0 \/ write_method_body_vendor(s) # 0)

write_stats_log_java_vendor(atoms) == write_java_pushed_methods_vendor(atoms.signatureInfoMap)

-----------------------------------------------------------------------------
(* rust_writer.cpp *)

write_rust_method_body(fields, minApiLevel) ==
    Count(minApiLevel = API_Q \/ ~(TypesIn(fields) \subseteq ChainedTypes))

\* Atoms with repeated fields are passed over.
write_rust_stats_write_atoms(decls, minApiLevel) ==
    Count(\E d \in decls : ~HasRepeated(d) /\ write_rust_method_body(d, minApiLevel) # 0)

write_stats_log_rust(atoms, minApiLevel) == write_rust_stats_write_atoms(atoms.decls, minApiLevel)
=============================================================================
