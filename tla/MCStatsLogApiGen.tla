-------------------------- MODULE MCStatsLogApiGen --------------------------
(***************************************************************************)
(* Command lines for TLC: every subset of the outputs, with and without    *)
(* what each of them needs, crossed with the module, level and mode        *)
(* options; and a few whose arguments are misplaced.                       *)
(***************************************************************************)
EXTENDS StatsLogApiGen
LOCAL INSTANCE SequencesExt

Chosen(b, args) == IF b THEN args ELSE <<>>

Modules == {<<>>, <<"--module", "wifi">>,
            <<"--module", "wifi", "--namespace", "android,wifi">>,
            <<"--module", "wifi", "--namespace", "android,wifi", "--importHeader", "wifi.h">>}

Levels == {<<>>, <<"--supportQ">>, <<"--minApiLevel", "30">>, <<"--supportQ", "--minApiLevel", "current">>}

Modes == {<<>>, <<"--bootstrap">>, <<"--worksource">>, <<"--vendor-proto", "atoms.proto">>,
          <<"--vendor-proto", "atoms.proto", "--worksource">>}

Outputs ==
    {Chosen(c, <<"--cpp", "a.cpp">>) \o Chosen(h, <<"--header", "a.h">>)
       \o Chosen(j, <<"--java", "A.java", "--javaClass", "A", "--javaPackage", "p">>)
       \o Chosen(r, <<"--rust", "a.rs", "--rustHeader", "h.rs", "--rustHeaderCrate", "c">>) :
        c, h, j, r \in BOOLEAN}

Misplaced ==
    {<<>>, <<"--help">>, <<"--cpp">>, <<"--cpp", "a.cpp", "--unknown">>, <<"a.cpp", "--header", "a.h">>,
     <<"--cpp", "--header", "a.h">>, <<"--header", "a.h", "--minApiLevel">>,
     <<"--module", "wifi", "--minApiLevel", "28", "--rust", "a.rs">>,
     <<"--module", "wifi", "--minApiLevel", "latest", "--rust", "a.rs">>,
     <<"--rust", "a.rs">>, <<"--rustHeader", "h.rs">>, <<"--cpp", "a", "--header", "a">>,
     <<"--module", "", "--java", "A.java", "--javaClass", "A", "--javaPackage", "p">>,
     <<"--module", "wifi", "--java", "A.java", "--javaClass", "A">>,
     <<"--module", "wifi", "--java", "A.java", "--javaPackage", "p">>,
     <<"--java", "A.java", "--cpp", "a.cpp", "--help">>,
     <<"--cpp", "", "--header", "a.h">>}

MCCommandLines == Misplaced \cup {FlattenSeq(s) : s \in Outputs \X Modules \X Levels \X Modes}

\* The collation of one atom: a table of pushed or of pulled atoms with one
\* entry, and that of the non-chained variant.
Table(signature, entries) == [s \in {signature} |-> entries]
NoTable == [s \in {} |-> {}]

NonChained(fields) ==
    IF "ATTRIBUTION_CHAIN" \in TypesIn(fields)
    THEN Table(<<"INT", "STRING">> \o Tail(fields), {}) ELSE NoTable

Pushed(fields, entries) ==
    [errorCount |-> 0,
     atoms |-> [signatureInfoMap |-> Table(fields, entries), decls |-> {fields},
                pulledAtomsSignatureInfoMap |-> NoTable,
                nonChainedSignatureInfoMap |-> NonChained(fields)]]

Pulled(fields) ==
    [errorCount |-> 0,
     atoms |-> [signatureInfoMap |-> NoTable, decls |-> {fields},
                pulledAtomsSignatureInfoMap |-> Table(fields, {}),
                nonChainedSignatureInfoMap |-> NonChained(fields)]]

\* No atom, every cause of a failure alone, two together, and errors.
MCCollations ==
    {[Pushed(<<>>, {}) EXCEPT !.atoms.signatureInfoMap = NoTable, !.atoms.decls = {}],
     Pushed(<<"STRING", "INT">>, {}), Pushed(<<"STRING", "INT">>, {<<2, 7>>}),
     Pushed(<<"STRING", "BYTE_ARRAY">>, {<<ATOM_ID_FIELD_NUMBER, 7>>}),
     Pushed(<<"ATTRIBUTION_CHAIN", "FLOAT">>, {}), Pushed(<<"STRING", "INT_ARRAY">>, {}),
     Pushed(<<"ATTRIBUTION_CHAIN", "LONG_ARRAY">>, {<<2, 7>>}), Pulled(<<"BOOLEAN_ARRAY">>),
     [Pushed(<<"STRING", "INT">>, {}) EXCEPT !.errorCount = 2]}
=============================================================================
