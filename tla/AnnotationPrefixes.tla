-------------------------- MODULE AnnotationPrefixes --------------------------
(***************************************************************************)
(* The names of the annotations in the files of one call of the tool.      *)
(* get_annotation_id_constants builds its map once for the process, with   *)
(* the prefix of whoever asks first; each writer asks with the prefix of   *)
(* its own language.  The variables are superposed on StatsLogApiGen.      *)
(***************************************************************************)
EXTENDS StatsLogApiGen

API_R == 30

VARIABLES
  ANNOTATION_ID_CONSTANTS,   \* the prefix of the names in the static map, "" before it is built
  namedWith                  \* the prefix each writer's file got, for those that asked

prefixVars == <<vars, ANNOTATION_ID_CONSTANTS, namedWith>>

PrefixInit ==
  /\ Init
  /\ ANNOTATION_ID_CONSTANTS = ""
  /\ namedWith = [w \in {} |-> ""]

\* The prefix writer w asks with.
OwnPrefix(w) ==
    IF ~Vendor \/ w \notin {"cpp", "java"} THEN "ANNOTATION_ID_"
    ELSE IF w = "cpp" THEN "AnnotationId::" ELSE "AnnotationId."

\* Some signature of the table has annotations at one of its positions from first on.
AnnotatedFrom(first, table) ==
    \E s \in DOMAIN table : \E e \in table[s] : e[1] \in {ATOM_ID_FIELD_NUMBER} \cup first .. Len(s)

\* The first position of a vendor atom is the reverse domain name.
Annotated ==
    IF Vendor THEN AnnotatedFrom(2, found.atoms.signatureInfoMap)
    ELSE \/ AnnotatedFrom(1, found.atoms.signatureInfoMap)
         \/ AnnotatedFrom(1, found.atoms.pulledAtomsSignatureInfoMap)

\* A writer asks when it comes to its first annotation; one that fails does so
\* before or after that.
AtAnAnnotation(errors) == IF Annotated /\ errors # 0 THEN BOOLEAN ELSE {Annotated}

\* Mistake: the vendor header has the constants for older levels, too.
Asks_VendorHeader(w) ==
  CASE w = "cpp"        -> IF options.bootstrap /\ ~Vendor THEN {FALSE} ELSE AtAnAnnotation(CppErrors)
    [] w = "header"     -> {options.minApiLevel <= API_R \/ Vendor}
    [] w = "java"       -> IF Vendor THEN AtAnAnnotation(JavaErrors) ELSE {TRUE}
    [] w = "rust"       -> {TRUE}
    [] w = "rustHeader" -> {FALSE}

\* Whether writer w asks for the constants.
Asks(w) ==
  CASE w = "cpp"        -> IF options.bootstrap /\ ~Vendor THEN {FALSE} ELSE AtAnAnnotation(CppErrors)
    [] w = "header"     -> {options.minApiLevel <= API_R /\ ~Vendor}
    [] w = "java"       -> IF Vendor THEN AtAnAnnotation(JavaErrors) ELSE {TRUE}
    [] w = "rust"       -> {TRUE}
    [] w = "rustHeader" -> {FALSE}

get_annotation_id_constants(w) ==
  /\ ANNOTATION_ID_CONSTANTS' =
       IF ANNOTATION_ID_CONSTANTS = "" THEN OwnPrefix(w) ELSE ANNOTATION_ID_CONSTANTS
  /\ namedWith' = [v \in DOMAIN namedWith \cup {w} |->
                     IF v = w THEN ANNOTATION_ID_CONSTANTS' ELSE namedWith[v]]

NoNames == UNCHANGED <<ANNOTATION_ID_CONSTANTS, namedWith>>

\* A writer that was asked for a file and does not end the run has written it.
PrefixNext ==
  /\ Next
  /\ IF phase \in Writers /\ Requested(phase) /\ phase' # "exited"
     THEN \E asks \in Asks(phase) : IF asks THEN get_annotation_id_constants(phase) ELSE NoNames
     ELSE NoNames

PrefixSpec == PrefixInit /\ [][PrefixNext]_prefixVars /\ WF_prefixVars(PrefixNext)

-----------------------------------------------------------------------------

\* The annotations in a file have the names of its language, unless the atoms are
\* vendor atoms with annotations and the same call writes C++ or Java for them
\* before: the prefix of the first file is then in the later ones as well.
PrefixesFit ==
  \A w \in DOMAIN namedWith :
    \/ namedWith[w] = OwnPrefix(w)
    \/ Vendor /\ Annotated /\ (Requested("cpp") \/ (w = "rust" /\ Requested("java")))
=============================================================================
