---------------------------- MODULE StatsLogApiGen ----------------------------
(***************************************************************************)
(* The stats-log-api-gen tool, main.cpp: it parses its arguments, collates *)
(* the atoms, and calls one writer after the other for the files it was    *)
(* asked for.  Of a file the model keeps who wrote it last and whether to  *)
(* its end.                                                                *)
(***************************************************************************)
EXTENDS WriterErrors, TLC

CONSTANTS
  CommandLines,      \* the argument lists, without argv[0]
  Collations         \* what collate_atoms may find

DEFAULT_MODULE_NAME       == "DEFAULT"
DEFAULT_CPP_NAMESPACE     == "android,util"
DEFAULT_CPP_HEADER_IMPORT == "statslog.h"

Writers == {"cpp", "header", "java", "rust", "rustHeader"}

\* A collation is [errorCount, atoms].
ASSUME ToolAssumption ==
  /\ CommandLines \subseteq Seq(STRING)
  /\ \A r \in Collations : r.errorCount \in Nat /\ IsAtoms(r.atoms)

VARIABLES
  argv, index,
  options,
  phase,             \* how far run() has come; "exited" when it has returned
  collated,          \* the collated atoms, a sequence of at most one result
  errorCount,
  files,             \* the files opened, by name: the writer and whether it is complete
  status             \* what run() returned, or -1

vars == <<argv, index, options, phase, collated, errorCount, files, status>>

-----------------------------------------------------------------------------

\* The options that take the next argument as their value.
ValueOption ==
    "--cpp" :> "cpp" @@ "--header" :> "header" @@ "--java" :> "java" @@ "--rust" :> "rust"
    @@ "--rustHeader" :> "rustHeader" @@ "--rustHeaderCrate" :> "rustHeaderCrate"
    @@ "--module" :> "module" @@ "--namespace" :> "namespace"
    @@ "--importHeader" :> "importHeader" @@ "--javaPackage" :> "javaPackage"
    @@ "--javaClass" :> "javaClass" @@ "--vendor-proto" :> "vendorProto"
    @@ "--minApiLevel" :> "minApiLevel"

Switches == {"--supportQ", "--worksource", "--bootstrap"}

DefaultOptions ==
    [cpp |-> "", header |-> "", java |-> "", rust |-> "", rustHeader |-> "",
     rustHeaderCrate |-> "", module |-> DEFAULT_MODULE_NAME, namespace |-> DEFAULT_CPP_NAMESPACE,
     importHeader |-> DEFAULT_CPP_HEADER_IMPORT, javaPackage |-> "", javaClass |-> "",
     vendorProto |-> "", minApiLevel |-> API_LEVEL_CURRENT, worksource |-> FALSE,
     bootstrap |-> FALSE]

\* atoi, on the values the model knows.
Atoi(s) == CASE s = "28" -> 28 [] s = "29" -> 29 [] s = "30" -> 30 [] s = "33" -> 33
             [] s = "34" -> 34 [] s = "10000" -> 10000 [] OTHER -> 0

Init ==
  /\ argv \in CommandLines
  /\ index = 1
  /\ options = DefaultOptions
  /\ phase = "parse"
  /\ collated = <<>>
  /\ errorCount = 0
  /\ files = [n \in {} |-> {}]
  /\ status = -1

\* run() returns.
Exit(n) == phase' = "exited" /\ status' = n

GoOn(next) == phase' = next /\ UNCHANGED status

-----------------------------------------------------------------------------
(* The argument loop. *)

Parsing ==
  /\ phase = "parse" /\ index <= Len(argv)
  /\ UNCHANGED <<argv, collated, errorCount, files>>

Help ==
  /\ Parsing /\ argv[index] = "--help"
  /\ Exit(0)
  /\ UNCHANGED <<index, options>>

MissingValue ==
  /\ Parsing /\ argv[index] \in DOMAIN ValueOption /\ index = Len(argv)
  /\ Exit(1)
  /\ UNCHANGED <<index, options>>

\* --minApiLevel current leaves the level as it is.
SetValue ==
  /\ Parsing /\ argv[index] \in DOMAIN ValueOption /\ index < Len(argv)
  /\ LET name == ValueOption[argv[index]]
         value == argv[index + 1]
     IN options' = IF name # "minApiLevel" THEN [options EXCEPT ![name] = value]
                   ELSE IF value = "current" THEN options
                   ELSE [options EXCEPT !.minApiLevel = Atoi(value)]
  /\ index' = index + 2
  /\ UNCHANGED <<phase, status>>

SetSwitch ==
  /\ Parsing /\ argv[index] \in Switches
  /\ options' = CASE argv[index] = "--supportQ"   -> [options EXCEPT !.minApiLevel = API_Q]
                  [] argv[index] = "--worksource" -> [options EXCEPT !.worksource = TRUE]
                  [] argv[index] = "--bootstrap"  -> [options EXCEPT !.bootstrap = TRUE]
  /\ index' = index + 1
  /\ UNCHANGED <<phase, status>>

\* Mistake: stay at an argument that is not known.
SkipArgument_Stay ==
  /\ Parsing /\ argv[index] \notin {"--help"} \cup DOMAIN ValueOption \cup Switches
  /\ UNCHANGED <<index, options, phase, status>>

\* No branch is for the argument: the loop passes over it.
SkipArgument ==
  /\ Parsing /\ argv[index] \notin {"--help"} \cup DOMAIN ValueOption \cup Switches
  /\ index' = index + 1
  /\ UNCHANGED <<options, phase, status>>

\* The loop ends past the last argument only, so the "Unknown command line
\* argument" branch after it is never taken.
EndArguments ==
  /\ phase = "parse" /\ index > Len(argv)
  /\ GoOn("check")
  /\ UNCHANGED <<argv, index, options, collated, errorCount, files>>

-----------------------------------------------------------------------------

Requested(w) == options[w] # ""

\* Mistake: let bootstrap pass with an older API level.
BadOptions_BootstrapLevel ==
  \/ \A w \in Writers : ~Requested(w)
  \/ options.module = DEFAULT_MODULE_NAME /\ options.minApiLevel # API_LEVEL_CURRENT
  \/ options.minApiLevel < API_Q
  \/ options.bootstrap /\ ((~Requested("cpp") /\ ~Requested("header")) \/ options.worksource)

BadOptions ==
  \/ \A w \in Writers : ~Requested(w)
  \/ options.module = DEFAULT_MODULE_NAME /\ options.minApiLevel # API_LEVEL_CURRENT
  \/ options.minApiLevel < API_Q
  \/ options.bootstrap /\ \/ ~Requested("cpp") /\ ~Requested("header")
                          \/ options.worksource
                          \/ options.minApiLevel # API_LEVEL_CURRENT

CheckOptions ==
  /\ phase = "check"
  /\ IF BadOptions THEN Exit(1) ELSE GoOn("collate")
  /\ UNCHANGED <<argv, index, options, collated, errorCount, files>>

\* Mistake: go on with atoms that have errors.
Collate_GoOn ==
  /\ phase = "collate"
  /\ \E r \in Collations : collated' = <<r>>
  /\ errorCount' = collated'[1].errorCount
  /\ GoOn("cpp")
  /\ UNCHANGED <<argv, index, options, files>>

Collate ==
  /\ phase = "collate"
  /\ \E r \in Collations : collated' = <<r>>
  /\ errorCount' = collated'[1].errorCount
  /\ IF errorCount' # 0 THEN Exit(1) ELSE GoOn("cpp")
  /\ UNCHANGED <<argv, index, options, files>>

KILLED == 139

\* Mistake: return the errors so far when there is no proto to collate.
ImportFails_NoError ==
  /\ phase = "collate" /\ options.vendorProto # ""
  /\ Exit(errorCount)
  /\ UNCHANGED <<argv, index, options, collated, errorCount, files>>

\* A vendor proto that cannot be imported, or has no message Atom: a null
\* pointer is used, and the process is killed.
ImportFails ==
  /\ phase = "collate" /\ options.vendorProto # ""
  /\ Exit(KILLED)
  /\ UNCHANGED <<argv, index, options, collated, errorCount, files>>

-----------------------------------------------------------------------------
(* The writers; each is a phase of its own. *)

Vendor == options.vendorProto # ""
found == collated[1]

\* The errors each writer returns.
CppErrors ==
  IF Vendor THEN write_stats_log_cpp_vendor(found.atoms)
  ELSE write_stats_log_cpp(found.atoms, options.minApiLevel, options.bootstrap)

JavaErrors ==
  IF Vendor THEN write_stats_log_java_vendor(found.atoms)
  ELSE write_stats_log_java(found.atoms, options.minApiLevel, options.worksource)

\* What write_java_q_logger_class does not count.
DroppedErrors ==
  IF ~Vendor /\ options.minApiLevel = API_Q THEN write_java_methods_q_schema(found.atoms.signatureInfoMap)
  ELSE 0

RustErrors == write_stats_log_rust(found.atoms, options.minApiLevel)

\* Writer w is done, without having been asked for anything.
NotRequested(w, next) ==
  /\ phase = w /\ ~Requested(w)
  /\ GoOn(next)
  /\ UNCHANGED <<argv, index, options, collated, errorCount, files>>

\* Mistake: return the errors counted so far when a writer is refused.
Refused_ErrorCount(w) ==
  /\ phase = w /\ Requested(w)
  /\ Exit(errorCount)
  /\ UNCHANGED <<argv, index, options, collated, errorCount, files>>

\* An option writer w needs is missing, or its file cannot be opened.
Refused(w) ==
  /\ phase = w /\ Requested(w)
  /\ Exit(1)
  /\ UNCHANGED <<argv, index, options, collated, errorCount, files>>

\* Mistake: open the C++ file for every writer.
Written_CppName(w, errors) ==
  /\ files' = [n \in DOMAIN files \cup {options["cpp"]} |->
                 IF n = options["cpp"] THEN [writer |-> w, complete |-> errors = 0] ELSE files[n]]
  /\ UNCHANGED <<argv, index, options, collated>>

\* The file of writer w now holds what it wrote, with this many errors.
Written(w, errors) ==
  /\ files' = [n \in DOMAIN files \cup {options[w]} |->
                 IF n = options[w] THEN [writer |-> w, complete |-> errors = 0] ELSE files[n]]
  /\ UNCHANGED <<argv, index, options, collated>>

NeedsNamespace ==
  options.module # DEFAULT_MODULE_NAME /\ options.namespace = DEFAULT_CPP_NAMESPACE
NeedsImport ==
  options.module # DEFAULT_MODULE_NAME /\ options.importHeader = DEFAULT_CPP_HEADER_IMPORT

WriteCpp ==
  /\ phase = "cpp" /\ Requested("cpp")
  /\ ~NeedsNamespace /\ ~NeedsImport
  /\ Written("cpp", CppErrors)
  /\ errorCount' = CppErrors
  /\ GoOn("header")

\* The missing namespace is reported, and the header written all the same.
\* The header writers cannot fail, and what they return replaces errorCount.
WriteHeader ==
  /\ phase = "header" /\ Requested("header")
  /\ Written("header", 0)
  /\ errorCount' = 0
  /\ GoOn("java")

JavaNeeds == \/ options.javaClass = "" \/ options.javaPackage = ""
             \/ options.module \in {"", DEFAULT_MODULE_NAME}

WriteJava ==
  /\ phase = "java" /\ Requested("java")
  /\ ~JavaNeeds /\ ~(Vendor /\ options.worksource)
  /\ Written("java", JavaErrors + DroppedErrors)
  /\ errorCount' = JavaErrors
  /\ GoOn("rust")

\* The file is open, and truncated, before WorkSource is found unsupported.
RefuseVendorWorkSource ==
  /\ phase = "java" /\ Requested("java")
  /\ ~JavaNeeds /\ Vendor /\ options.worksource
  /\ Written("java", 1)
  /\ Exit(1)
  /\ UNCHANGED errorCount

\* Mistake: the Rust writer's errors replace those of the writers before it.
WriteRust_Replace ==
  /\ phase = "rust" /\ Requested("rust")
  /\ options.rustHeaderCrate # ""
  /\ Written("rust", RustErrors)
  /\ errorCount' = RustErrors
  /\ GoOn("rustHeader")

WriteRust ==
  /\ phase = "rust" /\ Requested("rust")
  /\ options.rustHeaderCrate # ""
  /\ Written("rust", RustErrors)
  /\ errorCount' = errorCount + RustErrors
  /\ GoOn("rustHeader")

WriteRustHeader ==
  /\ phase = "rustHeader" /\ Requested("rustHeader")
  /\ options.rustHeaderCrate # ""
  /\ Written("rustHeader", 0)
  /\ GoOn("return")
  /\ UNCHANGED errorCount

Return ==
  /\ phase = "return"
  /\ Exit(errorCount)
  /\ UNCHANGED <<argv, index, options, collated, errorCount, files>>

\* Any file may fail to open; the guards are the options each writer needs.
CannotWrite == \E w \in Writers : Refused(w)

SkipWriter ==
  \/ NotRequested("cpp", "header")
  \/ NotRequested("header", "java")
  \/ NotRequested("java", "rust")
  \/ NotRequested("rust", "rustHeader")
  \/ NotRequested("rustHeader", "return")

Exited == phase = "exited" /\ UNCHANGED vars

Next ==
  \/ Help \/ MissingValue \/ SetValue \/ SetSwitch \/ SkipArgument \/ EndArguments
  \/ CheckOptions
  \/ Collate \/ ImportFails
  \/ SkipWriter \/ CannotWrite
  \/ WriteCpp \/ WriteHeader \/ WriteJava \/ RefuseVendorWorkSource
  \/ WriteRust \/ WriteRustHeader
  \/ Return
  \/ Exited

\* The tool runs until it returns: nothing in it waits.
Spec == Init /\ [][Next]_vars /\ WF_vars(Next)

-----------------------------------------------------------------------------

\* The variables keep their types, and a file only holds what was asked for.
TypeOK ==
  /\ argv \in Seq(STRING)
  /\ index \in 1 .. Len(argv) + 1
  /\ DOMAIN options = DOMAIN DefaultOptions
  /\ phase \in {"parse", "check", "collate", "return", "exited"} \cup Writers
  /\ collated \in {<<>>} \cup {<<r>> : r \in Collations}
  /\ errorCount \in Nat
  /\ \A n \in DOMAIN files : files[n].writer \in Writers /\ options[files[n].writer] = n
  /\ status \in {-1, KILLED} \cup Nat

\* No file is opened unless every atom was collated without error: generated
\* code never stands for half of the atoms of a module.
OnlyCleanAtomsWritten ==
  DOMAIN files # {} => collated # <<>> /\ found.errorCount = 0

\* The exit status tells the build of every file that is not complete, but for
\* a C++ file when a header or a Java file is written after it.
ExitTellsOfBrokenFiles ==
  status = 0 =>
    \A n \in DOMAIN files :
      files[n].complete \/ (files[n].writer = "cpp" /\ (Requested("header") \/ Requested("java")))

\* Code for an older API level is only ever generated for a module and outside
\* bootstrap, and no C++ file for one is complete if its atoms have repeated
\* fields: the option checks, made before anything is collated, fit what the
\* writers can do.
OldLevelsFit ==
  \A n \in DOMAIN files :
    LET w == files[n].writer IN
    /\ options.minApiLevel >= API_Q
    /\ options.minApiLevel # API_LEVEL_CURRENT
         => options.module # DEFAULT_MODULE_NAME /\ ~options.bootstrap
    /\ files[n].complete /\ w = "cpp" /\ ~Vendor /\ options.minApiLevel < API_T
         => \A s \in DOMAIN found.atoms.signatureInfoMap
                    \cup DOMAIN found.atoms.pulledAtomsSignatureInfoMap : ~HasRepeated(s)

\* The order run() calls the writers in.
WriterOrder == [cpp |-> 1, header |-> 2, java |-> 3, rust |-> 4, rustHeader |-> 5]

\* run() has come to an argument --help.
HelpGiven == index <= Len(argv) /\ argv[index] = "--help"

\* But for --help, exit status 0 means that there were atoms and no output is left
\* out: the files are those asked for, and a file two outputs share is what the
\* later writer made of it.
OutputsWritten ==
  status = 0 /\ ~HelpGiven =>
    /\ collated # <<>>
    /\ DOMAIN files = {options[w] : w \in {v \in Writers : Requested(v)}}
    /\ \A n \in DOMAIN files, w \in Writers :
         options[w] = n => WriterOrder[w] <= WriterOrder[files[n].writer]

\* Whatever the arguments and whichever writer fails, the tool returns.
ToolReturns == <>(phase = "exited" /\ status # -1)

-----------------------------------------------------------------------------
(* Statements of the documentation, comments and messages that do not hold. *)

\* main.cpp:205-207: an unknown argument is an error.
UnknownArgumentRejected ==
  status = 0 =>
    "--help" \in {argv[k] : k \in DOMAIN argv}
    \/ \A k \in DOMAIN argv : \/ argv[k] \in DOMAIN ValueOption \cup Switches
                              \/ k > 1 /\ argv[k - 1] \in DOMAIN ValueOption

\* main.cpp:315: for a module, the header needs the namespace.
HeaderHasNamespace ==
  \A n \in DOMAIN files : files[n].writer = "header" => ~NeedsNamespace

\* native_writer_vendor.cpp:181: an attribution chain is not supported for vendor
\* atoms, and found by the writer.
VendorChainFound ==
  \A n \in DOMAIN files : Vendor /\ files[n].complete /\ files[n].writer = "cpp" =>
    \A s \in DOMAIN found.atoms.signatureInfoMap : "ATTRIBUTION_CHAIN" \notin TypesIn(s)
=============================================================================
